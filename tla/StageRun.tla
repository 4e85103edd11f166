-------------------------------- MODULE StageRun --------------------------------
(***************************************************************************)
(* The stage ledger of one routed run, and the commands that race on it:   *)
(* stage start, stage finish, the run's finish, session end and the expiry *)
(* sweep (workflow-run-state.mjs, stage-run.mjs, finish-run.mjs,           *)
(* session-end.mjs, expired-runs.mjs).                                     *)
(*                                                                         *)
(* A transition under withStageStateLock reads the file and later writes   *)
(* it back whole: the read is one step (the action named after the         *)
(* transition), the write another (Commit).  The lock excludes the other   *)
(* transitions in between (StageLock says when), but not what runs without *)
(* it: the read a finish is judged on, the deliveries and the removal of   *)
(* the file.  Timestamps, and so when a sweep may claim, are left to       *)
(* RunTiming; which gate or required skill refuses is left open.           *)
(***************************************************************************)
EXTENDS Naturals

CONSTANTS
    Proc,          \* command invocations that may be in progress at once
    Stage,         \* the declared stages of the run
    After,         \* the dependencies each stage was declared with
    StageOutcome,  \* the outcomes a caller may give a stage or a run
    MaxAttempt,    \* MAX_STAGE_ATTEMPT
    MaxKills,      \* bound on the commands the host kills
    None           \* no event to deliver, no write in progress

ClosedOutcome == StageOutcome \union {"abandoned"}
Live == {"active", "suspended"}
Finishable == Live \union {"abandoning"}

Event ==
    [stage : Stage, attempt : 1..MaxAttempt, outcome : ClosedOutcome \union {"open"}]

(* pc: what the command does next; after: where it goes once its stage event *)
(* is delivered; outcome: the run outcome a finishing command was asked for. *)
Command ==
    [pc : {"idle", "send", "complete", "abandon", "report", "finalize"},
     event : Event \union {None},
     after : {"idle", "complete", "report"},
     outcome : ClosedOutcome]

(* What the lock holder is about to write, and how it goes on afterwards. *)
Write ==
    [by : Proc, status : Finishable,
     attempt : [Stage -> 0..MaxAttempt],
     outcome : [Stage -> ClosedOutcome \union {"none", "open"}],
     next : Command]

ASSUME StageAssumption ==
    /\ After \in [Stage -> SUBSET Stage]
    /\ \A s \in Stage : s \notin After[s]
    /\ StageOutcome \subseteq {"success", "failed", "blocked"}
    /\ MaxAttempt \in Nat \ {0}
    /\ MaxKills \in Nat
    /\ None \notin Event /\ None \notin Write

VARIABLES
    status,        \* of the run: its `status` field, or "gone" once removed
    attempt,       \* attempt number of each stage's latest occurrence, 0 before the first
    outcome,       \* outcome of the latest occurrence, "open" until it finishes
    pending,       \* the write the lock holder has prepared, or None
    cmd,           \* what each command invocation is doing
    sent,          \* stage.finished events handed to capture delivery
    successful,    \* a workflow.run.finished event with outcome success was delivered
    kills          \* commands killed so far

vars == <<status, attempt, outcome, pending, cmd, sent, successful, kills>>
file == <<status, attempt, outcome>>

Idle == [pc |-> "idle", event |-> None, after |-> "idle", outcome |-> "abandoned"]

TypeOK ==
    /\ status \in Finishable \union {"gone"}
    /\ attempt \in [Stage -> 0..MaxAttempt]
    /\ outcome \in [Stage -> ClosedOutcome \union {"none", "open"}]
    /\ pending \in Write \union {None}
    /\ cmd \in [Proc -> Command]
    /\ sent \in SUBSET Event
    /\ successful \in BOOLEAN
    /\ kills \in 0..MaxKills

Init ==
    /\ status = "active"
    /\ attempt = [s \in Stage |-> 0]
    /\ outcome = [s \in Stage |-> "none"]
    /\ pending = None
    /\ cmd = [p \in Proc |-> Idle]
    /\ sent = {}
    /\ successful = FALSE
    /\ kills = 0

--------------------------------------------------------------------------------
(* Helpers. *)

Holds(p) == pending # None /\ pending.by = p
Ready(p) == cmd[p].pc = "idle" /\ ~Holds(p)
At(p, step) == cmd[p].pc = step /\ ~Holds(p)

Become(p, c) == cmd' = [cmd EXCEPT ![p] = c]

(* Deliver a stage event, then continue at `next`. *)
Sending(ev, next, o) == [pc |-> "send", event |-> ev, after |-> next, outcome |-> o]
Going(step, o) == [pc |-> step, event |-> None, after |-> "idle", outcome |-> o]

IsOpen(s) == outcome[s] = "open"
NothingOpen == \A s \in Stage : ~IsOpen(s)
AllSucceeded == \A s \in Stage : outcome[s] = "success"

(* The event the latest occurrence of a stage stands for, and the one it     *)
(* will stand for once it is closed with outcome o.                          *)
OccurrenceEvent(s) == [stage |-> s, attempt |-> attempt[s], outcome |-> outcome[s]]
ClosedEvent(s, o) == [stage |-> s, attempt |-> attempt[s], outcome |-> o]

(* Mutant: a dependency that merely finished is good enough.                 *)
DependenciesFinished(s) == \A d \in After[s] : attempt[d] > 0 /\ ~IsOpen(d)

DependenciesMet(s) == \A d \in After[s] : outcome[d] = "success"

(* Mutant: a stage is started beside an open one.                            *)
StartsBesideOpen(s) == DependenciesMet(s) /\ attempt[s] < MaxAttempt

MayStart(s) == NothingOpen /\ DependenciesMet(s) /\ attempt[s] < MaxAttempt

(* Mutant: a retry of a failed stage keeps its attempt number.               *)
SameAttempt(s) == IF outcome[s] = "failed" THEN attempt[s] ELSE attempt[s] + 1

NewAttempt(s) == attempt[s] + 1

(* Mutant: a finished stage is finished again with another outcome.          *)
FinishesAgain(s) == attempt[s] > 0

MayFinish(s) == IsOpen(s)

--------------------------------------------------------------------------------
(* Transitions under the stage lock: read the file, prepare the new one. *)

Locked(p, newStatus, newAttempt, newOutcome, next) ==
    /\ pending = None
    /\ pending' = [by |-> p, status |-> newStatus, attempt |-> newAttempt,
                   outcome |-> newOutcome, next |-> next]
    /\ UNCHANGED <<file, cmd, sent, successful, kills>>

(* Replace the file by what was prepared, and release the lock. *)
Commit(p) ==
    /\ Holds(p)
    /\ status' = pending.status
    /\ attempt' = pending.attempt
    /\ outcome' = pending.outcome
    /\ Become(p, pending.next)
    /\ pending' = None
    /\ UNCHANGED <<sent, successful, kills>>

MayResume == status = "suspended"

(* resumeLocked: every lifecycle command of the session, and its start hook, *)
(* makes a suspended run active before it judges anything else; the rest of  *)
(* a stage command follows as a step of its own.                             *)
Resume(p) ==
    /\ Ready(p)
    /\ MayResume
    /\ Locked(p, "active", attempt, outcome, Idle)

MaySuspend == status = "active"

(* suspendWorkflowRun: a resumable session exit. *)
Suspend(p) ==
    /\ Ready(p)
    /\ MaySuspend
    /\ Locked(p, "suspended", attempt, outcome, Idle)

(* startStageLocked: a new attempt of a stage whose dependencies succeeded. *)
StartStage(p, s) ==
    /\ Ready(p)
    /\ status = "active"
    /\ MayStart(s)
    /\ Locked(p, status,
              [attempt EXCEPT ![s] = NewAttempt(s)],
              [outcome EXCEPT ![s] = "open"],
              Sending([stage |-> s, attempt |-> NewAttempt(s), outcome |-> "open"],
                      "idle", "abandoned"))

(* finishStageLocked on the open stage. *)
FinishStage(p, s, o) ==
    /\ Ready(p)
    /\ status = "active"
    /\ MayFinish(s)
    /\ Locked(p, status, attempt, [outcome EXCEPT ![s] = o],
              Sending(ClosedEvent(s, o), "idle", "abandoned"))

(* Starting the stage that is already open, or finishing a finished stage    *)
(* with its own outcome, changes nothing and delivers the same event again.  *)
Replay(p, s) ==
    /\ Ready(p)
    /\ pending = None
    /\ status = "active"
    /\ IsOpen(s) \/ (NothingOpen /\ outcome[s] \in StageOutcome)
    /\ Become(p, Sending(OccurrenceEvent(s), "idle", "abandoned"))
    /\ UNCHANGED <<file, pending, sent, successful, kills>>

(* Close the open stage as abandoned; `next` follows the delivery. *)
LockedAbandon(p, newStatus, next, o) ==
    \E s \in Stage :
        /\ IsOpen(s)
        /\ Locked(p, newStatus, attempt, [outcome EXCEPT ![s] = "abandoned"],
                  Sending(ClosedEvent(s, "abandoned"), next, o))

(* Mutant: only a suspended run is ever claimed.                             *)
ClaimsNothingAgain == FALSE

ClaimedBefore == status = "abandoning"

(* claimExpiredWorkflowRun: the sweep of some later route takes a suspended  *)
(* run, or one whose claimant never came back, and goes on to finish it.     *)
(* A claim that also closes a stage writes twice under the lock, the stage   *)
(* first; a kill between the two is KilledWithinClaim.                       *)
Claim(p) ==
    /\ Ready(p)
    /\ \/ status = "suspended" /\ LockedAbandon(p, "abandoning", "complete", "abandoned")
       \/ /\ (status = "suspended" /\ NothingOpen) \/ ClaimedBefore
          /\ Locked(p, "abandoning", attempt, outcome, Going("complete", "abandoned"))

(* finishWorkflowSession for a session that cannot come back: the open stage *)
(* is closed without resuming the run, and the run is finished.              *)
EndSession(p) ==
    /\ Ready(p)
    /\ \/ status \in Live /\ LockedAbandon(p, status, "complete", "abandoned")
       \/ /\ (status \in Live /\ NothingOpen) \/ status = "abandoning"
          /\ Become(p, Going("complete", "abandoned"))
          /\ UNCHANGED <<file, pending, sent, successful, kills>>

--------------------------------------------------------------------------------
(* Steps outside the lock. *)

(* deliverCaptureEvent for a stage event. *)
SendStageEvent(p) ==
    /\ At(p, "send")
    /\ sent' = IF cmd[p].event.outcome = "open" THEN sent ELSE sent \union {cmd[p].event}
    /\ Become(p, Going(cmd[p].after, cmd[p].outcome))
    /\ UNCHANGED <<file, pending, successful, kills>>

(* finish-run is invoked with an outcome of the caller's choice. *)
FinishRun(p, o) ==
    /\ Ready(p)
    /\ Become(p, Going("complete", o))
    /\ UNCHANGED <<file, pending, sent, successful, kills>>

StagesComplete == NothingOpen /\ AllSucceeded

MayComplete == status \in Finishable

(* completeWorkflowRun and assertCapturedStages: one unlocked read decides   *)
(* whether the finish goes on.  Only success asks for completed stages.      *)
Complete(p) ==
    /\ At(p, "complete")
    /\ MayComplete
    /\ cmd[p].outcome = "success" => StagesComplete
    /\ Become(p, Going(IF NothingOpen THEN "report" ELSE "abandon", cmd[p].outcome))
    /\ UNCHANGED <<file, pending, sent, successful, kills>>

(* ... or is refused: there is no run, its stages are not complete, a        *)
(* required skill was not seen, a gate is not met.  A session end and a      *)
(* sweep require no skill, and no gate refuses an abandonment.               *)
RefuseFinish(p) ==
    /\ At(p, "complete")
    /\ MayComplete => cmd[p].outcome # "abandoned"
    /\ Become(p, Idle)
    /\ UNCHANGED <<file, pending, sent, successful, kills>>

(* abandonOpenWorkflowStage judges the file again under the lock.  It may    *)
(* find nothing to close, or fail: the lock is held by another command for   *)
(* too long, or the write fails.  The run is finished all the same.          *)
AbandonOpen(p) ==
    /\ At(p, "abandon")
    /\ \/ status \in Live /\ LockedAbandon(p, status, "report", cmd[p].outcome)
       \/ /\ Become(p, Going("report", cmd[p].outcome))
          /\ UNCHANGED <<file, pending, sent, successful, kills>>

(* The workflow.run.finished event is delivered while the run still exists. *)
Report(p) ==
    /\ At(p, "report")
    /\ successful' = (successful \/ cmd[p].outcome = "success")
    /\ Become(p, Going("finalize", cmd[p].outcome))
    /\ UNCHANGED <<file, pending, sent, kills>>

(* finalizeWorkflowRun removes the file without taking the lock. *)
Finalize(p) ==
    /\ At(p, "finalize")
    /\ status' = "gone"
    /\ Become(p, Idle)
    /\ UNCHANGED <<attempt, outcome, pending, sent, successful, kills>>

(* The host kills a command; what it had not done yet does not happen.  A    *)
(* lock it held is taken over once it is stale (StageLock).                  *)
Killed(p) ==
    /\ ~Ready(p)
    /\ kills < MaxKills
    /\ kills' = kills + 1
    /\ Become(p, Idle)
    /\ pending' = IF Holds(p) THEN None ELSE pending
    /\ UNCHANGED <<file, sent, successful>>

(* A sweep killed between the two writes of a claim: the run still waits,    *)
(* with its stage abandoned and nobody told.                                 *)
KilledWithinClaim(p) ==
    /\ Holds(p)
    /\ pending.status = "abandoning" /\ pending.outcome # outcome
    /\ kills < MaxKills
    /\ kills' = kills + 1
    /\ status' = "suspended"
    /\ attempt' = pending.attempt
    /\ outcome' = pending.outcome
    /\ pending' = None
    /\ Become(p, Idle)
    /\ UNCHANGED <<sent, successful>>

StageStep(p) ==
    \E s \in Stage :
        \/ StartStage(p, s)
        \/ Replay(p, s)
        \/ \E o \in StageOutcome : FinishStage(p, s, o)

FinishStep(p) ==
    \/ Commit(p) \/ SendStageEvent(p) \/ Complete(p) \/ RefuseFinish(p)
    \/ AbandonOpen(p) \/ Report(p) \/ Finalize(p)

Next ==
    \E p \in Proc :
        \/ Resume(p) \/ Suspend(p) \/ StageStep(p)
        \/ Claim(p) \/ EndSession(p) \/ FinishStep(p)
        \/ Killed(p) \/ KilledWithinClaim(p)
        \/ \E o \in StageOutcome : FinishRun(p, o)

Spec == Init /\ [][Next]_vars

(* A command that runs gets on, and the user keeps routing: every route      *)
(* sweeps, and again and again a sweep gets the lock.                        *)
FairSpec ==
    /\ Spec
    /\ \A p \in Proc : WF_vars(FinishStep(p))
    /\ SF_vars(\E p \in Proc : Claim(p))

--------------------------------------------------------------------------------
(* The persisted progress is always one activeStageRun accepts: it rejects a *)
(* file with two open occurrences for good, so no interleaving of commands   *)
(* may ever produce one.                                                     *)
AtMostOneOpen == \A s, t \in Stage : IsOpen(s) /\ IsOpen(t) => s = t

(* Work on a stage happens only on top of finished work: while a stage is    *)
(* open, the latest attempt of each of its dependencies is a success, also   *)
(* when dependencies are run again later.                                    *)
OpenStageHasBasis ==
    \A s \in Stage : IsOpen(s) => \A d \in After[s] : outcome[d] = "success"

(* The server is never told two stories about one occurrence: whichever of   *)
(* stage finish, session end, run finish and expiry closes it first, every   *)
(* finished event of that stage and attempt carries the same outcome.        *)
OneStoryPerOccurrence ==
    \A e, f \in sent :
        /\ e.stage = f.stage
        /\ e.attempt = f.attempt
        => e.outcome = f.outcome

(* A closed occurrence is final: its outcome changes only by a new attempt,  *)
(* and attempts only count up.                                               *)
OccurrencesAreFinal ==
    [][\A s \in Stage :
          /\ attempt'[s] \in {attempt[s], attempt[s] + 1}
          /\ outcome[s] \in ClosedOutcome /\ attempt'[s] = attempt[s]
             => outcome'[s] = outcome[s]]_vars

(* A run an expiry sweep has claimed is finished, never resumed. *)
ClaimIsOneWay == [][status = "abandoning" => status' \in {"abandoning", "gone"}]_vars

(* A claimed run is eventually removed, also when its claimant is killed.    *)
ClaimedRunEnds == (status = "abandoning") ~> (status = "gone")

(* A run recorded as successful ended with every declared stage successful:  *)
(* nothing was open or unfinished in the ledger when it was removed.         *)
SuccessIsComplete == status = "gone" /\ successful => AllSucceeded

(* A run that was removed does not come back. *)
EndedStaysEnded == [][status = "gone" => status' = "gone"]_vars
================================================================================
