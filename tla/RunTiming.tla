-------------------------------- MODULE RunTiming --------------------------------
(***************************************************************************)
(* The clock of one run: how long it worked, how long it waited, and when  *)
(* the expiry sweep may end it (workflow-run-state.mjs: resumeLocked,      *)
(* suspendWorkflowRun, parkWorkflowRun, reactivateLocked, expiryDue,       *)
(* claimExpiredWorkflowRun, completeWorkflowRun; expired-runs.mjs).  Of    *)
(* the other runs only those matter that a sweep lists before this one: it *)
(* takes them first, and it takes MAX_EXPIRED_RUNS_PER_SWEEP runs at most, *)
(* those it fails on included.                                             *)
(*                                                                         *)
(* A run waits in two ways.  A resumable session exit suspends it in its   *)
(* session's slot.  A delivered draft parks it in a directory of its own   *)
(* until the user accepts it; from then on it carries an `acceptance`      *)
(* record with the moment the user was first asked.  Every transition is   *)
(* one locked step; the interleaving is the subject of StageRun.           *)
(***************************************************************************)
EXTENDS Integers

CONSTANTS
    SessionTtl,      \* SUSPENDED_RUN_TTL_MS, in ticks
    AcceptanceTtl,   \* ACCEPTANCE_TTL_DAYS, in ticks
    Horizon,         \* bound: the last tick at which a user does anything
    MaxParks,        \* bound: how often the run is moved to its directory
    SweepLimit,      \* MAX_EXPIRED_RUNS_PER_SWEEP
    Stuck,           \* due runs listed before this one on which every sweep fails
    MaxAhead,        \* bound: other due runs listed before this one at one time
    Never            \* a time stamp that is not set

LastTick == Horizon + SessionTtl + AcceptanceTtl

ASSUME TimingAssumption ==
    /\ SessionTtl \in Nat \ {0}
    /\ AcceptanceTtl \in Nat \ {0}
    /\ Horizon \in Nat
    /\ MaxParks \in Nat
    /\ SweepLimit \in Nat
    /\ Stuck \in Nat
    /\ MaxAhead \in Nat
    /\ Never \notin Int

VARIABLES
    now,             \* the clock
    home,            \* where the run's file is: "slot", "parked" or "gone"
    status,          \* the run's status field
    suspendedAt,     \* its suspendedAt field, or Never
    suspendedMs,     \* its suspendedMs field
    parkedAt,        \* acceptance.parkedAt, or Never without an acceptance record
    openedAt,        \* startedAt of the open stage, or Never
    duration,        \* durationMs of the finished event, or Never
    ahead,           \* due runs listed before this one that a sweep can end
    worked,          \* history: ticks the run was active
    firstAsked,      \* history: when the draft was first delivered, or Never
    parks            \* history: how often the run was moved to its directory

run == <<home, status, suspendedAt, suspendedMs, parkedAt, openedAt, duration>>
timingVars == <<now, run, worked, firstAsked, parks, ahead>>

Time == 0..LastTick
MaybeTime == Time \union {Never}

TimingTypeOK ==
    /\ now \in Time
    /\ home \in {"slot", "parked", "gone"}
    /\ status \in {"active", "suspended", "abandoning"}
    /\ suspendedAt \in MaybeTime
    /\ suspendedMs \in Nat
    /\ parkedAt \in MaybeTime
    /\ openedAt \in MaybeTime
    /\ duration \in MaybeTime
    /\ worked \in Time
    /\ firstAsked \in MaybeTime
    /\ parks \in 0..MaxParks
    /\ ahead \in 0..MaxAhead

TimingInit ==
    /\ now = 0
    /\ home = "slot"
    /\ status = "active"
    /\ suspendedAt = Never
    /\ suspendedMs = 0
    /\ parkedAt = Never
    /\ openedAt = Never
    /\ duration = Never
    /\ worked = 0
    /\ firstAsked = Never
    /\ parks = 0
    /\ ahead = 0

--------------------------------------------------------------------------------
NonNegative(n) == IF n < 0 THEN 0 ELSE n
ByUser == now <= Horizon

(* Mutant: a resume counts from the start of the run.                        *)
WaitedFromStart == suspendedMs + NonNegative(now)

(* Time spent suspended is added up when the run becomes active again.       *)
WaitedUntilNow == suspendedMs + NonNegative(now - suspendedAt)

WaitStart == IF parkedAt = Never THEN now ELSE parkedAt

(* Mutant: an acceptance waits no longer than a session.                     *)
SessionTtlOnly == SessionTtl

TtlOfSlot == IF parkedAt = Never THEN SessionTtl ELSE AcceptanceTtl

--------------------------------------------------------------------------------
ClockTick ==
    /\ now < LastTick
    /\ now' = now + 1
    /\ worked' = IF home = "slot" /\ status = "active" THEN worked + 1 ELSE worked
    /\ UNCHANGED <<run, firstAsked, parks, ahead>>

StartStage ==
    /\ ByUser /\ home = "slot" /\ status = "active" /\ openedAt = Never
    /\ openedAt' = now
    /\ UNCHANGED <<now, home, status, suspendedAt, suspendedMs, parkedAt, duration,
                   worked, firstAsked, parks, ahead>>

FinishStage ==
    /\ ByUser /\ home = "slot" /\ status = "active" /\ openedAt # Never
    /\ openedAt' = Never
    /\ UNCHANGED <<now, home, status, suspendedAt, suspendedMs, parkedAt, duration,
                   worked, firstAsked, parks, ahead>>

(* suspendWorkflowRun *)
Suspend ==
    /\ ByUser /\ home = "slot" /\ status = "active"
    /\ status' = "suspended"
    /\ suspendedAt' = now
    /\ UNCHANGED <<now, home, suspendedMs, parkedAt, openedAt, duration,
                   worked, firstAsked, parks, ahead>>

(* resumeLocked, and reactivateLocked for a run that comes back from its     *)
(* directory: both drop suspendedAt and account for the wait.                *)
Resume ==
    /\ ByUser /\ home \in {"slot", "parked"} /\ status = "suspended"
    /\ home' = "slot"
    /\ status' = "active"
    /\ suspendedMs' = WaitedUntilNow
    /\ suspendedAt' = Never
    /\ UNCHANGED <<now, parkedAt, openedAt, duration, worked, firstAsked, parks, ahead>>

(* parkWorkflowRun: an active run when its draft is delivered; a suspended   *)
(* one that has an acceptance record when its session routes another task or *)
(* another session accepts it.                                               *)
Park ==
    /\ ByUser /\ home = "slot" /\ parks < MaxParks
    /\ status = "active" \/ (status = "suspended" /\ parkedAt # Never)
    /\ home' = "parked"
    /\ status' = "suspended"
    /\ parkedAt' = WaitStart
    /\ suspendedAt' = WaitStart
    /\ firstAsked' = IF firstAsked = Never THEN now ELSE firstAsked
    /\ parks' = parks + 1
    /\ UNCHANGED <<now, suspendedMs, openedAt, duration, worked, ahead>>

(* claimExpiredWorkflowRun: due by its own time stamp, and the open stage,   *)
(* which is closed at that time stamp, was not started after it.             *)
Due ==
    /\ status = "suspended"
    /\ IF home = "parked"
       THEN suspendedAt + AcceptanceTtl <= now /\ parkedAt + AcceptanceTtl <= now
       ELSE suspendedAt + TtlOfSlot <= now

(* Mutant: an open stage makes the claim fail.                               *)
NeverClosable == openedAt = Never

Closable == openedAt # Never => openedAt <= suspendedAt

(* Mutant: a failure ends the sweep.                                         *)
StopsAtFailure == Stuck = 0 /\ ahead < SweepLimit

(* A sweep gets to this run with some of its budget left: a failure on       *)
(* another one is reported and the sweep continues, but it counts.           *)
Reached == ahead + Stuck < SweepLimit

Claim ==
    /\ home # "gone"
    /\ Reached
    /\ Due
    /\ Closable
    /\ status' = "abandoning"
    /\ openedAt' = Never
    /\ UNCHANGED <<now, home, suspendedAt, suspendedMs, parkedAt, duration,
                   worked, firstAsked, parks, ahead>>

(* Runs of other sessions come due, and a sweep ends some of them: one at    *)
(* least, if those it fails on leave it any.                                 *)
OthersComeDue ==
    /\ ByUser /\ ahead < MaxAhead
    /\ ahead' = ahead + 1
    /\ UNCHANGED <<now, run, worked, firstAsked, parks>>

EndOthers ==
    /\ Stuck < SweepLimit
    /\ \E n \in 1..SweepLimit : n <= ahead /\ ahead' = ahead - n
    /\ UNCHANGED <<now, run, worked, firstAsked, parks>>

(* The run ends; durationMs is what lies between its start and `at`, minus   *)
(* the suspensions accounted for so far.                                     *)
EndAt(at) ==
    /\ home' = "gone"
    /\ duration' = NonNegative(at - suspendedMs)
    /\ UNCHANGED <<now, status, suspendedAt, suspendedMs, parkedAt, openedAt,
                   worked, firstAsked, parks, ahead>>

(* The sweep finishes what it claimed, at the suspension time. *)
FinishClaimed == home # "gone" /\ status = "abandoning" /\ EndAt(suspendedAt)

(* finish-run and spec accept --finish end an active run. *)
FinishActive == ByUser /\ home = "slot" /\ status = "active" /\ EndAt(now)

(* A session end, or spec abandon, ends a run that is waiting. *)
FinishWaiting == ByUser /\ home # "gone" /\ status = "suspended" /\ EndAt(now)

UserStep ==
    StartStage \/ FinishStage \/ Suspend \/ Resume \/ Park \/ FinishActive \/ FinishWaiting

Sweep == EndOthers \/ Claim \/ FinishClaimed

TimingNext == ClockTick \/ UserStep \/ OthersComeDue \/ Sweep

TimingSpec == TimingInit /\ [][TimingNext]_timingVars

(* Time passes, and somebody keeps routing: every route sweeps, every sweep  *)
(* ends what its budget allows, and one that gets to this run succeeds.      *)
TimingFairSpec == TimingSpec /\ WF_timingVars(ClockTick) /\ WF_timingVars(Sweep)

--------------------------------------------------------------------------------
(* The books of an active run that was parked at most once are exact: the    *)
(* run's age minus the suspensions added up so far is the time it worked,    *)
(* whatever mix of session exits and acceptance waits lies behind it.        *)
BooksAreExact ==
    home = "slot" /\ status = "active" /\ parks <= 1 => now - suspendedMs = worked

Waiting == status = "suspended" /\ home # "gone"
WaitingOnce == Waiting /\ parks <= 1

(* A run in its directory waits from the moment the user was first asked:    *)
(* parking it again never resets its TTL.                                    *)
WaitIsNotReset == home = "parked" => parkedAt = firstAsked /\ suspendedAt = firstAsked

(* A run that awaits acceptance is given the whole acceptance TTL before a   *)
(* sweep takes it, wherever it waits.                                        *)
AcceptanceIsGivenTime ==
    [][status = "suspended" /\ status' = "abandoning" /\ firstAsked # Never
         => now >= firstAsked + AcceptanceTtl]_timingVars

(* A run that was parked at most once does not keep waiting: it is taken up  *)
(* again, parked again, ended by its user, or it expires, behind any number  *)
(* of runs that come due and behind fewer runs that every sweep fails on     *)
(* than one sweep takes.  With as many it is never reached                   *)
(* (timing_starved): they use up every sweep's budget (expired-runs.mjs:69). *)
WaitEnds == WaitingOnce ~> ~WaitingOnce

(* A waiting run nobody comes back to is abandoned by some later sweep.      *)
AbandonedRunExpires == Waiting ~> ~Waiting
================================================================================
