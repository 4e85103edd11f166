---------------------------- MODULE MCCaptureDelivery ----------------------------
(* TLC instance of CaptureDelivery: commands are interchangeable. *)
EXTENDS CaptureDelivery, TLC

CommandSymmetry == Permutations(Command)
==================================================================================
