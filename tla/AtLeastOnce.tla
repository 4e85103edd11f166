------------------------------ MODULE AtLeastOnce ------------------------------
(***************************************************************************)
(* What the capture outbox promises of the events entrusted to it: an      *)
(* event is kept until the server has judged it, and once it is let go it  *)
(* never comes back.  The server may judge it any number of times.         *)
(***************************************************************************)
CONSTANT Event

VARIABLES
    kept,      \* events the client holds
    judged     \* events the server has accepted or rejected

vars == <<kept, judged>>

Init == kept = {} /\ judged = {}

Entrust(e) ==
    /\ e \notin kept \union judged
    /\ kept' = kept \union {e}
    /\ judged' = judged

Judge(batch) ==
    /\ batch \subseteq kept \union judged
    /\ judged' = judged \union batch
    /\ kept' = kept

LetGo(e) ==
    /\ e \in kept \intersect judged
    /\ kept' = kept \ {e}
    /\ judged' = judged

Next ==
    \/ \E e \in Event : Entrust(e) \/ LetGo(e)
    \/ \E batch \in SUBSET Event : Judge(batch)

Spec == Init /\ [][Next]_vars
================================================================================
