------------------------------ MODULE MCStageLock ------------------------------
(* TLC instance of StageLock: the processes are interchangeable. *)
EXTENDS StageLock, TLC

ProcSymmetry == Permutations(Proc)
================================================================================
