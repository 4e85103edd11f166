---------------------------- MODULE MCCaptureAgent ----------------------------
(* CaptureAgent for TLC: the versions are interchangeable.                 *)
EXTENDS CaptureAgent, TLC

Versions == Permutations(Ver)
================================================================================
