----------------------------- MODULE MCCodexClaims -----------------------------
(* CodexClaims for TLC: two requests of one session, the others of a       *)
(* second one.                                                             *)
EXTENDS CodexClaims, TLC

CONSTANTS s1, s2
Sessions == {s1, s2}
SessionOf == [r \in Rec |-> IF r <= 2 THEN s1 ELSE s2]

(* The bindings of repositories are interchangeable.                       *)
AnyBinding == Permutations(Binding)
================================================================================
