------------------------------ MODULE MCRunLedger ------------------------------
(* TLC instance of RunLedger: sessions and runs are interchangeable. *)
EXTENDS RunLedger, TLC

LedgerSymmetry == Permutations(Session) \union Permutations(Run)
================================================================================
