---------------------------- MODULE MCNativeOutbox ----------------------------
(* NativeOutbox for TLC.                                                   *)
EXTENDS NativeOutbox, TLC
================================================================================
