------------------------------ MODULE StageMutex ------------------------------
(***************************************************************************)
(* What `withStageStateLock` promises its callers: transitions over one    *)
(* run-state file happen one at a time, and each of them sees what the     *)
(* previous ones wrote.  `inside` is the command whose transition is in    *)
(* progress, `log` the set of commands whose update has been written.      *)
(***************************************************************************)
CONSTANT Proc           \* the boundary commands sharing one run-state file

VARIABLES inside,       \* the commands between entering and leaving
          log           \* the commands whose update the file holds

mutexVars == <<inside, log>>

MutexInit == inside = {} /\ log = {}

(* A command enters only an empty critical section. *)
Enter(p) == inside = {} /\ inside' = {p} /\ log' = log

(* The command inside adds its own update and loses no other one. *)
Update(p) == inside = {p} /\ log' = log \union {p} /\ inside' = inside

Leave(p) == inside = {p} /\ inside' = {} /\ log' = log

MutexNext == \E p \in Proc : Enter(p) \/ Update(p) \/ Leave(p)

MutexSpec == MutexInit /\ [][MutexNext]_mutexVars
===============================================================================
