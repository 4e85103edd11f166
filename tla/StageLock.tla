------------------------------- MODULE StageLock -------------------------------
(***************************************************************************)
(* The advisory lock around every read-modify-write of one run-state file  *)
(* (workflow-run-state.mjs: acquireStageLock, withStageStateLock).         *)
(*                                                                         *)
(* Each process is one command invocation that performs one transition     *)
(* under the lock.  The lock is a file created with O_EXCL; a waiter that  *)
(* finds it reads its age with stat(2) and, when the age exceeds           *)
(* STAGE_LOCK_STALE_MS, removes the file by name and tries again.  Every   *)
(* system call is a step of its own, because another process can run       *)
(* between any two of them.                                                *)
(*                                                                         *)
(* Time is counted in ticks; only the age of the file and how long a       *)
(* process has been inside matter, so there is no absolute clock.          *)
(***************************************************************************)
EXTENDS Naturals

CONSTANTS
    Proc,        \* command invocations competing for one lock file
    Nobody,      \* the lock file does not exist
    Stale,       \* STAGE_LOCK_STALE_MS, in ticks
    Retries,     \* STAGE_LOCK_RETRIES
    MaxHold,     \* the longest a transition may run, in ticks
    MaxCrashes   \* bound on the processes killed while they compete

ASSUME LockAssumption ==
    /\ Nobody \notin Proc
    /\ Stale \in Nat
    /\ Retries \in Nat
    /\ MaxHold \in Nat
    /\ MaxCrashes \in Nat

VARIABLES
    owner,       \* the creator of the lock file, or Nobody when it is absent
    age,         \* ticks since the file was created, up to Stale + 1
    pc,          \* where each process is
    attempt,     \* the loop counter of acquireStageLock
    held,        \* ticks each process has been inside the critical section
    ledger,      \* the updates the run-state file holds
    seen,        \* the updates each process read
    wrote,       \* processes that completed their write
    crashes,     \* processes killed so far
    outlived,    \* history: a transition was still running when its file got stale
    doubled      \* history: two processes at once had condemned a file

history == <<outlived, doubled>>
vars == <<owner, age, pc, attempt, held, ledger, seen, wrote, crashes, history>>

InsideSteps == {"read", "write", "release"}
WaitSteps == {"open", "stat", "steal", "sleep"}
EndSteps == {"done", "gaveup", "crashed"}

Inside(p) == pc[p] \in InsideSteps

TypeOK ==
    /\ owner \in Proc \union {Nobody}
    /\ age \in 0..(Stale + 1)
    /\ pc \in [Proc -> {"start"} \union WaitSteps \union InsideSteps \union EndSteps]
    /\ attempt \in [Proc -> 0..Retries]
    /\ held \in [Proc -> 0..MaxHold]
    /\ ledger \in SUBSET Proc
    /\ seen \in [Proc -> SUBSET Proc]
    /\ wrote \in SUBSET Proc
    /\ crashes \in 0..MaxCrashes
    /\ outlived \in BOOLEAN
    /\ doubled \in BOOLEAN

Init ==
    /\ owner = Nobody
    /\ age = 0
    /\ pc = [p \in Proc |-> "start"]
    /\ attempt = [p \in Proc |-> 0]
    /\ held = [p \in Proc |-> 0]
    /\ ledger = {}
    /\ seen = [p \in Proc |-> {}]
    /\ wrote = {}
    /\ crashes = 0
    /\ outlived = FALSE
    /\ doubled = FALSE

--------------------------------------------------------------------------------
Goto(p, step) == pc' = [pc EXCEPT ![p] = step]

(* Mutants: one attempt too many; a wait for the file to go that never tries *)
(* to create it again.                                                       *)
RetriesOnceMore(p) ==
    IF attempt[p] <= Retries
    THEN attempt' = [attempt EXCEPT ![p] = @ + 1] /\ Goto(p, "open")
    ELSE attempt' = attempt /\ Goto(p, "gaveup")
OnlyLooks(p) == attempt' = attempt /\ Goto(p, "stat")

(* The end of one loop iteration: try again, or throw "locked by another     *)
(* command" once the attempts are used up.                                   *)
NextAttempt(p) ==
    IF attempt[p] < Retries
    THEN attempt' = [attempt EXCEPT ![p] = @ + 1] /\ Goto(p, "open")
    ELSE attempt' = attempt /\ Goto(p, "gaveup")

Begin(p) ==
    /\ pc[p] = "start"
    /\ Goto(p, "open")
    /\ UNCHANGED <<owner, age, attempt, held, ledger, seen, wrote, crashes, history>>

FileAbsent == owner = Nobody

(* openSync(path, "wx"): creates the file, or fails with EEXIST. *)
OpenExclusive(p) ==
    /\ pc[p] = "open"
    /\ \/ /\ FileAbsent
          /\ owner' = p
          /\ age' = 0
          /\ Goto(p, "read")
       \/ /\ owner # Nobody
          /\ Goto(p, "stat")
          /\ UNCHANGED <<owner, age>>
    /\ UNCHANGED <<attempt, held, ledger, seen, wrote, crashes, history>>

(* Mutants: a file is condemned one tick early; or never.                    *)
StaleEarly == age >= Stale
NeverStale == FALSE

IsStale == age > Stale

(* Another process has condemned a file and not yet removed it.              *)
OtherCondemned(p) == \E q \in Proc \ {p} : pc[q] = "steal"

(* statSync: a missing file retries at once, a stale one is condemned, a     *)
(* fresh one is waited for.                                                  *)
Stat(p) ==
    /\ pc[p] = "stat"
    /\ \/ owner = Nobody /\ NextAttempt(p)
       \/ owner # Nobody /\ IsStale /\ Goto(p, "steal") /\ attempt' = attempt
       \/ owner # Nobody /\ ~IsStale /\ Goto(p, "sleep") /\ attempt' = attempt
    /\ doubled' = (doubled \/ (pc'[p] = "steal" /\ OtherCondemned(p)))
    /\ UNCHANGED <<owner, age, held, ledger, seen, wrote, crashes, outlived>>

(* rmSync(path, {force: true}) removes whatever file has the name by now. *)
RemoveStale(p) ==
    /\ pc[p] = "steal"
    /\ owner' = Nobody
    /\ age' = 0
    /\ NextAttempt(p)
    /\ UNCHANGED <<held, ledger, seen, wrote, crashes, history>>

Wake(p) ==
    /\ pc[p] = "sleep"
    /\ NextAttempt(p)
    /\ UNCHANGED <<owner, age, held, ledger, seen, wrote, crashes, history>>

(* The transition reads the whole file ...                                   *)
ReadState(p) ==
    /\ pc[p] = "read"
    /\ seen' = [seen EXCEPT ![p] = ledger]
    /\ Goto(p, "write")
    /\ UNCHANGED <<owner, age, attempt, held, ledger, wrote, crashes, history>>

(* ... and replaces the whole file by what it read plus its own update.      *)
WriteState(p) ==
    /\ pc[p] = "write"
    /\ ledger' = seen[p] \union {p}
    /\ wrote' = wrote \union {p}
    /\ Goto(p, "release")
    /\ UNCHANGED <<owner, age, attempt, held, seen, crashes, history>>

(* The transition refuses (a guard throws) or has nothing to write. *)
Refuse(p) ==
    /\ pc[p] = "write"
    /\ Goto(p, "release")
    /\ UNCHANGED <<owner, age, attempt, held, ledger, seen, wrote, crashes, history>>

(* The `finally` removes the lock file, whoever created it. *)
Release(p) ==
    /\ pc[p] = "release"
    /\ owner' = Nobody
    /\ age' = 0
    /\ held' = [held EXCEPT ![p] = 0]
    /\ Goto(p, "done")
    /\ UNCHANGED <<attempt, ledger, seen, wrote, crashes, history>>

(* The host kills the process: no `finally` runs, the lock file stays. *)
Crash(p) ==
    /\ crashes < MaxCrashes
    /\ pc[p] \in WaitSteps \union InsideSteps
    /\ crashes' = crashes + 1
    /\ Goto(p, "crashed")
    /\ held' = [held EXCEPT ![p] = 0]
    /\ UNCHANGED <<owner, age, attempt, ledger, seen, wrote, history>>

(* Time passes, never beyond the bound on a transition's length. *)
Tick ==
    /\ \A p \in Proc : Inside(p) => held[p] < MaxHold
    /\ held' = [p \in Proc |-> IF Inside(p) THEN held[p] + 1 ELSE held[p]]
    /\ age' = IF owner # Nobody /\ age <= Stale THEN age + 1 ELSE age
    /\ outlived' = (outlived \/ \E p \in Proc : Inside(p) /\ held'[p] > Stale)
    /\ UNCHANGED <<owner, pc, attempt, ledger, seen, wrote, crashes, doubled>>

Acquire(p) == OpenExclusive(p) \/ Stat(p) \/ RemoveStale(p) \/ Wake(p)
Transition(p) == ReadState(p) \/ WriteState(p) \/ Refuse(p) \/ Release(p)
Step(p) == Acquire(p) \/ Transition(p)

Next ==
    \/ \E p \in Proc : Begin(p) \/ Step(p) \/ Crash(p)
    \/ Tick

Spec == Init /\ [][Next]_vars

(* A running command keeps executing and time keeps passing; nothing says    *)
(* that another command will ever be invoked.                                *)
FairSpec == Spec /\ WF_vars(Tick) /\ \A p \in Proc : WF_vars(Step(p))

--------------------------------------------------------------------------------
(* No transition's update is ever overwritten by a concurrent one: what a    *)
(* command wrote to the run-state file stays in it.  The code does not keep  *)
(* this: two waiters that condemn one file are enough (lock_double_steal).   *)
NoLostUpdate == wrote \subseteq ledger

(* A command that starts to acquire the lock gets its transition done or     *)
(* reports that the lock is held: the retry loop never spins for ever.       *)
AcquireReturns ==
    \A p \in Proc : (pc[p] \in WaitSteps) ~> (pc[p] \in EndSteps)

(* A lock file left behind by a killed command does not shut others out: a   *)
(* command that finds it stale, with an attempt left to create its own,      *)
(* completes.                                                                *)
StaleLockRecovered ==
    \A p \in Proc :
        (/\ pc[p] = "stat" /\ owner # Nobody /\ age > Stale
         /\ attempt[p] < Retries /\ crashes = MaxCrashes
         /\ \A q \in Proc \ {p} : pc[q] \in EndSteps)
        ~> (pc[p] = "done")

Mutex == INSTANCE StageMutex WITH
             inside <- {p \in Proc : Inside(p)},
             log <- ledger

(* The two things the lock does not withstand.                               *)
Broken == outlived \/ doubled

(* The lock file excludes the commands from each other, and every transition *)
(* sees what the previous ones wrote, across kills and takeovers of stale    *)
(* files, until one of exactly two things happens: a transition runs on      *)
(* after its own file got stale, or two waiters stand between finding a      *)
(* stale file and removing it by name.  Nothing else breaks it: no kill at   *)
(* any step, no removal by a single waiter, no release.                      *)
MutexUntilBroken == Mutex!MutexInit /\ [][Mutex!MutexNext \/ Broken']_(Mutex!mutexVars)

(* The mutual exclusion the callers rely on, with no exception.  It follows  *)
(* for two commands whose transitions end before their file is stale.        *)
MutualExclusion == Mutex!MutexSpec
================================================================================
