------------------------------- MODULE MCStageRun -------------------------------
(* TLC instances of StageRun: three stages in a chain with a shortcut, and   *)
(* two stages for the runs with several commands at once.                    *)
EXTENDS StageRun, TLC

CONSTANTS s1, s2, s3

MCChain == {s1, s2, s3}
MCChainAfter == (s1 :> {}) @@ (s2 :> {s1}) @@ (s3 :> {s1, s2})
MCSingle == {s1}
MCSingleAfter == (s1 :> {})
MCPair == {s1, s2}
MCPairAfter == (s1 :> {}) @@ (s2 :> {s1})
ProcSymmetry == Permutations(Proc)
================================================================================
