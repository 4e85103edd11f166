------------------------------ MODULE RunFileProofs ------------------------------
(***************************************************************************)
(* Proofs about the run-state file: its clock (RunTiming) and its lock     *)
(* (StageLock).                                                            *)
(*                                                                         *)
(* The clock, for every pair of TTLs, horizon and number of parks, and any *)
(* number of other runs a sweep takes first: the clock fields of a run     *)
(* stay in range, its books are exact until it is parked a second time,    *)
(* parking again never resets the wait, and no sweep takes a run from a    *)
(* user who still has time to accept it.                                   *)
(*                                                                         *)
(* The lock, for any number of commands, kills and retries and any length  *)
(* of the transitions: until a transition outlives its file or two waiters *)
(* have condemned one, a file that is removed as stale is that of a killed *)
(* command, nobody else's lock is removed, and transitions run one at a    *)
(* time.  Two commands that are never slower than the stale age cannot get *)
(* there, so they exclude each other however often one of them is killed.  *)
(***************************************************************************)
EXTENDS RunTiming, StageLock, TLAPS

--------------------------------------------------------------------------------
(* The clock of a run: RunTiming.                                            *)

(* The stamps of a run are moments that have passed.                         *)
StampsArePast ==
    /\ suspendedAt # Never => suspendedAt <= now
    /\ firstAsked # Never => firstAsked <= now
    /\ worked <= now

(* A run has an acceptance record exactly when it was parked before, and the *)
(* record keeps the first moment.                                            *)
RecordOfFirstPark ==
    /\ parkedAt = firstAsked
    /\ parkedAt = Never <=> parks = 0

(* While its file exists, a run that is not active has a suspension stamp,   *)
(* which is the acceptance stamp in its directory and no earlier than it in  *)
(* a slot.                                                                   *)
StampOfWait ==
    /\ status # "active" => suspendedAt # Never
    /\ home = "parked" =>
           /\ status # "active"
           /\ parkedAt # Never
           /\ suspendedAt = parkedAt
    /\ home = "slot" /\ status = "suspended" /\ parkedAt # Never => parkedAt <= suspendedAt

(* What a run has worked is what lies before its wait, minus earlier waits.  *)
BooksOfWait ==
    home # "gone" /\ status = "suspended" /\ parks <= 1 => suspendedAt - suspendedMs = worked

TimingInv ==
    /\ TimingTypeOK
    /\ StampsArePast
    /\ RecordOfFirstPark
    /\ StampOfWait
    /\ BooksOfWait
    /\ BooksAreExact

(* Clamping yields a natural number, and leaves one alone. *)
LEMMA Clamped ==
    ASSUME NEW n \in Int
    PROVE  NonNegative(n) \in Nat /\ NonNegative(n) >= n /\ (n >= 0 => NonNegative(n) = n)
  BY DEF NonNegative

(* Constants as the steps use them. *)
LEMMA LastTickIsNat == LastTick \in Nat /\ Horizon <= LastTick
  BY TimingAssumption DEF LastTick

LEMMA InitTiming == TimingInit => TimingInv
  BY TimingAssumption, LastTickIsNat
  DEF TimingInit, TimingInv, TimingTypeOK, Time, MaybeTime, StampsArePast, RecordOfFirstPark,
      StampOfWait, BooksOfWait, BooksAreExact

LEMMA TickTiming == TimingInv /\ ClockTick => TimingInv'
  BY TimingAssumption, LastTickIsNat
  DEF ClockTick, TimingInv, TimingTypeOK, Time, MaybeTime, StampsArePast, RecordOfFirstPark,
      StampOfWait, BooksOfWait, BooksAreExact, run

LEMMA StageTiming == TimingInv /\ (StartStage \/ FinishStage) => TimingInv'
  BY TimingAssumption, LastTickIsNat
  DEF StartStage, FinishStage, ByUser, TimingInv, TimingTypeOK, Time, MaybeTime, StampsArePast,
      RecordOfFirstPark, StampOfWait, BooksOfWait, BooksAreExact

LEMMA SuspendTiming == TimingInv /\ Suspend => TimingInv'
  BY TimingAssumption, LastTickIsNat
  DEF Suspend, ByUser, TimingInv, TimingTypeOK, Time, MaybeTime, StampsArePast,
      RecordOfFirstPark, StampOfWait, BooksOfWait, BooksAreExact

(* Becoming active adds what lies between the stamp of the wait and now.     *)
LEMMA ResumeTiming == TimingInv /\ Resume => TimingInv'
<1> SUFFICES ASSUME TimingInv, Resume PROVE TimingInv'
  OBVIOUS
<1>1. suspendedAt \in Int /\ suspendedAt <= now /\ now \in Int /\ suspendedMs \in Nat
  BY TimingAssumption, LastTickIsNat
  DEF Resume, TimingInv, TimingTypeOK, Time, MaybeTime, StampsArePast, StampOfWait
<1>2. NonNegative(now - suspendedAt) = now - suspendedAt
  BY <1>1, Clamped
<1>3. suspendedMs' = suspendedMs + (now - suspendedAt)
  BY <1>2 DEF Resume, WaitedUntilNow
<1> QED
  BY <1>1, <1>3, TimingAssumption, LastTickIsNat
  DEF Resume, ByUser, TimingInv, TimingTypeOK, Time, MaybeTime, StampsArePast,
      RecordOfFirstPark, StampOfWait, BooksOfWait, BooksAreExact

LEMMA ParkTiming == TimingInv /\ Park => TimingInv'
  BY TimingAssumption, LastTickIsNat
  DEF Park, WaitStart, ByUser, TimingInv, TimingTypeOK, Time, MaybeTime, StampsArePast,
      RecordOfFirstPark, StampOfWait, BooksOfWait, BooksAreExact

LEMMA ClaimTiming == TimingInv /\ Claim => TimingInv'
  BY TimingAssumption, LastTickIsNat
  DEF Claim, Due, TimingInv, TimingTypeOK, Time, MaybeTime, StampsArePast,
      RecordOfFirstPark, StampOfWait, BooksOfWait, BooksAreExact

(* A run ends at a moment that has passed, so its duration is in range too.  *)
LEMMA EndTiming ==
    ASSUME NEW at \in Time, at <= now, TimingInv, EndAt(at)
    PROVE  TimingInv'
<1>1. at - suspendedMs \in Int /\ at - suspendedMs <= LastTick
  BY LastTickIsNat DEF TimingInv, TimingTypeOK, Time
<1>2. NonNegative(at - suspendedMs) \in Time
  BY <1>1, LastTickIsNat DEF NonNegative, Time
<1> QED
  BY <1>2, TimingAssumption, LastTickIsNat
  DEF EndAt, TimingInv, TimingTypeOK, Time, MaybeTime, StampsArePast,
      RecordOfFirstPark, StampOfWait, BooksOfWait, BooksAreExact

LEMMA FinishTiming ==
    TimingInv /\ (FinishClaimed \/ FinishActive \/ FinishWaiting) => TimingInv'
<1> SUFFICES ASSUME TimingInv, FinishClaimed \/ FinishActive \/ FinishWaiting
             PROVE  TimingInv'
  OBVIOUS
<1>1. CASE FinishClaimed
  <2>1. suspendedAt \in Time /\ suspendedAt <= now
    BY <1>1 DEF FinishClaimed, TimingInv, TimingTypeOK, MaybeTime, StampsArePast, StampOfWait
  <2> QED
    BY <1>1, <2>1, EndTiming DEF FinishClaimed
<1>2. CASE FinishActive \/ FinishWaiting
  <2>1. now \in Time /\ now <= now
    BY LastTickIsNat DEF TimingInv, TimingTypeOK, Time
  <2> QED
    BY <1>2, <2>1, EndTiming DEF FinishActive, FinishWaiting
<1> QED
  BY <1>1, <1>2

(* What happens to other runs leaves the clock of this one alone.            *)
LEMMA OthersTiming == TimingInv /\ (OthersComeDue \/ EndOthers) => TimingInv'
<1> SUFFICES ASSUME TimingInv, OthersComeDue \/ EndOthers PROVE TimingInv'
  OBVIOUS
<1>1. ahead' \in 0..MaxAhead
  BY TimingAssumption DEF OthersComeDue, EndOthers, TimingInv, TimingTypeOK
<1>2. UNCHANGED <<now, run, worked, firstAsked, parks>>
  BY DEF OthersComeDue, EndOthers
<1> QED
  BY <1>1, <1>2
  DEF run, TimingInv, TimingTypeOK, Time, MaybeTime, StampsArePast,
      RecordOfFirstPark, StampOfWait, BooksOfWait, BooksAreExact

LEMMA StutterTiming == TimingInv /\ UNCHANGED timingVars => TimingInv'
  BY DEF timingVars, run, TimingInv, TimingTypeOK, Time, MaybeTime, StampsArePast,
     RecordOfFirstPark, StampOfWait, BooksOfWait, BooksAreExact

(* The clock invariant: the stamps are past, the acceptance record is the    *)
(* first one, and the books balance in every state, not only when active.    *)
THEOREM TimingInvariant == TimingSpec => []TimingInv
<1>1. TimingInv /\ [TimingNext]_timingVars => TimingInv'
  BY TickTiming, StageTiming, SuspendTiming, ResumeTiming, ParkTiming, ClaimTiming,
     OthersTiming, FinishTiming, StutterTiming
  DEF TimingNext, UserStep, Sweep
<1> QED
  BY <1>1, InitTiming, PTL DEF TimingSpec

(* Every clock field stays in its range; in particular the duration of a     *)
(* finished run is never negative, although suspensions may be over-counted. *)
THEOREM TimingTypeCorrect == TimingSpec => []TimingTypeOK
  BY TimingInvariant, PTL DEF TimingInv

(* Until a run is parked a second time its suspensions are exactly its age   *)
(* minus the time it worked.                                                 *)
THEOREM BooksStayExact == TimingSpec => []BooksAreExact
  BY TimingInvariant, PTL DEF TimingInv

(* Parking again never resets the moment the user was first asked.           *)
THEOREM WaitKeepsItsStart == TimingSpec => []WaitIsNotReset
<1>1. TimingInv => WaitIsNotReset
  BY DEF TimingInv, RecordOfFirstPark, StampOfWait, WaitIsNotReset
<1> QED
  BY <1>1, TimingInvariant, PTL

(* A run that awaits acceptance is never taken before its acceptance TTL.    *)
THEOREM AcceptanceHasItsTime == TimingSpec => AcceptanceIsGivenTime
<1>1. TimingInv /\ Claim => (firstAsked # Never => now >= firstAsked + AcceptanceTtl)
  BY TimingAssumption, LastTickIsNat
  DEF Claim, Due, TtlOfSlot, TimingInv, TimingTypeOK, Time, MaybeTime, RecordOfFirstPark, StampOfWait
<1>2. [TimingNext]_timingVars /\ status = "suspended" /\ status' = "abandoning" => Claim
  BY DEF TimingNext, UserStep, Sweep, ClockTick, StartStage, FinishStage, Suspend, Resume, Park,
     OthersComeDue, EndOthers, FinishClaimed, FinishActive, FinishWaiting, EndAt, timingVars, run
<1>3. TimingInv /\ [TimingNext]_timingVars
      => [status = "suspended" /\ status' = "abandoning" /\ firstAsked # Never
            => now >= firstAsked + AcceptanceTtl]_timingVars
  BY <1>1, <1>2
<1> QED
  BY <1>3, TimingInvariant, PTL DEF TimingSpec, AcceptanceIsGivenTime

--------------------------------------------------------------------------------
(* The lock of the file: StageLock.                                          *)

(* One waiter at most stands between finding a stale file and removing it,   *)
(* and the file it will remove is that of a killed command.                  *)
StealsFromTheDead ==
    \A p \in Proc :
        pc[p] = "steal" =>
            /\ \A q \in Proc : pc[q] = "steal" => q = p
            /\ owner \in Proc
            /\ pc[owner] = "crashed"

(* Whoever is inside created the file, and a file whose creator has left was *)
(* left by a kill.                                                           *)
FileOfInside ==
    /\ \A p \in Proc : Inside(p) => owner = p
    /\ owner # Nobody => Inside(owner) \/ pc[owner] = "crashed"

(* The file is no older than the time its creator has been inside, which is  *)
(* not longer than the stale age; that time is counted from zero.            *)
FileOfInsideIsFresh ==
    \A p \in Proc :
        /\ Inside(p) => age <= held[p] /\ held[p] <= Stale
        /\ ~Inside(p) => held[p] = 0

(* What a process is about to overwrite is what it read. *)
ReadIsFresh == \A p \in Proc : pc[p] = "write" => seen[p] = ledger

LockInv ==
    /\ TypeOK
    /\ ~Broken =>
           /\ StealsFromTheDead
           /\ FileOfInside
           /\ FileOfInsideIsFresh
           /\ ReadIsFresh
           /\ NoLostUpdate

(* Names that stand for a set or a plain test, always expanded. *)
USE DEF InsideSteps, WaitSteps, EndSteps, Inside, Goto, FileAbsent, IsStale, Broken, history

(* The variables keep their types whatever happens.                          *)
LEMMA TypeStep ==
    ASSUME TypeOK, [Next]_vars
    PROVE  TypeOK'
  <1> USE LockAssumption DEF TypeOK
  <1>1. ASSUME NEW p \in Proc, Begin(p) \/ OpenExclusive(p) \/ Release(p) \/ Refuse(p)
        PROVE  TypeOK'
    BY <1>1 DEF Begin, OpenExclusive, Release, Refuse
  <1>2. ASSUME NEW p \in Proc, Stat(p) \/ RemoveStale(p) \/ Wake(p)
        PROVE  TypeOK'
    <2>1. doubled' \in BOOLEAN
      BY <1>2, Zenon DEF Stat, RemoveStale, Wake
    <2>2. QED
      BY <1>2, <2>1 DEF Stat, RemoveStale, Wake, NextAttempt
  <1>3. ASSUME NEW p \in Proc, ReadState(p) \/ WriteState(p)
        PROVE  TypeOK'
    BY <1>3 DEF ReadState, WriteState
  <1>4. ASSUME NEW p \in Proc, Crash(p)
        PROVE  TypeOK'
    BY <1>4 DEF Crash
  <1>5. ASSUME Tick
        PROVE  TypeOK'
    <2>1. outlived' \in BOOLEAN
      BY <1>5, Zenon DEF Tick
    <2>2. QED
      BY <1>5, <2>1 DEF Tick
  <1>6. CASE UNCHANGED vars
    BY <1>6 DEF vars
  <1>7. QED
    BY <1>1, <1>2, <1>3, <1>4, <1>5, <1>6 DEF Next, Step, Acquire, Transition

(* The initial state satisfies the inductive invariant. *)
LEMMA LockInvInit == Init => LockInv
  <1>1. Init => outlived \in BOOLEAN /\ doubled \in BOOLEAN
    BY Zenon DEF Init
  <1>2. QED
    BY <1>1, LockAssumption
       DEF Init, LockInv, TypeOK, StealsFromTheDead, FileOfInside, FileOfInsideIsFresh,
           ReadIsFresh, NoLostUpdate

(* Every step of the lock protocol preserves the inductive invariant. *)
LEMMA LockInvStep ==
    ASSUME LockInv, [Next]_vars
    PROVE  LockInv'
  <1>1. TypeOK /\ TypeOK'
    BY TypeStep DEF LockInv
  <1>2. Broken => Broken'
    BY <1>1 DEF TypeOK, vars, Next, Step, Acquire, Transition, Begin, OpenExclusive, Stat, RemoveStale, Wake,
            ReadState, WriteState, Refuse, Release, Crash, Tick
  <1> SUFFICES ASSUME ~Broken, ~Broken'
               PROVE  /\ StealsFromTheDead'
                      /\ FileOfInside'
                      /\ FileOfInsideIsFresh'
                      /\ ReadIsFresh'
                      /\ NoLostUpdate'
    BY <1>1, <1>2 DEF LockInv
  <1> USE LockAssumption, <1>1
      DEF LockInv, TypeOK, StealsFromTheDead, FileOfInside, FileOfInsideIsFresh, ReadIsFresh,
          NoLostUpdate
  <1>3. ASSUME NEW p \in Proc, Begin(p) \/ Wake(p)
        PROVE  LockInv'
    BY <1>3 DEF Begin, Wake, NextAttempt
  <1>4. ASSUME NEW p \in Proc, OpenExclusive(p)
        PROVE  LockInv'
    <2>1. CASE owner = Nobody
      <3>1. \A q \in Proc : ~Inside(q) /\ pc[q] # "steal"
        BY <2>1
      <3>2. owner' = p /\ age' = 0 /\ pc' = [pc EXCEPT ![p] = "read"]
        BY <1>4, <2>1 DEF OpenExclusive
      <3>3. held[p] = 0 /\ held' = held
        BY <1>4 DEF OpenExclusive
      <3>4. QED
        BY <1>4, <3>1, <3>2, <3>3 DEF OpenExclusive
    <2>2. CASE owner # Nobody
      BY <1>4, <2>2 DEF OpenExclusive
    <2>3. QED
      BY <2>1, <2>2
  <1>5. ASSUME NEW p \in Proc, Stat(p)
        PROVE  LockInv'
    <2>1. CASE pc'[p] = "steal"
      <3>1. owner \in Proc /\ age > Stale /\ pc' = [pc EXCEPT ![p] = "steal"]
        BY <1>5, <2>1 DEF Stat, NextAttempt
      <3>2. ~Inside(owner)
        BY <3>1
      <3>3. \A q \in Proc \ {p} : pc[q] # "steal"
        BY <1>5, <2>1 DEF Stat, OtherCondemned
      <3>4. QED
        BY <1>5, <3>1, <3>2, <3>3 DEF Stat
    <2>2. CASE pc'[p] # "steal"
      BY <1>5, <2>2 DEF Stat, NextAttempt
    <2>3. QED
      BY <2>1, <2>2
  <1>6. ASSUME NEW p \in Proc, RemoveStale(p)
        PROVE  LockInv'
    <2>1. \A q \in Proc : ~Inside(q)
      BY <1>6 DEF RemoveStale
    <2>2. QED
      BY <1>6, <2>1 DEF RemoveStale, NextAttempt
  <1>7. ASSUME NEW p \in Proc, ReadState(p) \/ WriteState(p) \/ Refuse(p)
        PROVE  LockInv'
    BY <1>7 DEF ReadState, WriteState, Refuse
  <1>8. ASSUME NEW p \in Proc, Release(p)
        PROVE  LockInv'
    BY <1>8 DEF Release
  <1>9. ASSUME NEW p \in Proc, Crash(p)
        PROVE  LockInv'
    BY <1>9 DEF Crash
  <1>10. ASSUME Tick
         PROVE  LockInv'
    <2>1. ASSUME NEW p \in Proc, Inside(p)
          PROVE  held'[p] = held[p] + 1 /\ held'[p] <= Stale /\ age' <= age + 1
      <3>1. ~(held'[p] > Stale)
        BY <1>10, <2>1 DEF Tick
      <3>2. held'[p] \in Int /\ Stale \in Int /\ age \in Int
        OBVIOUS
      <3>3. QED
        BY <1>10, <2>1, <3>1, <3>2 DEF Tick
    <2>2. UNCHANGED <<owner, pc, ledger, seen, wrote>>
      BY <1>10 DEF Tick
    <2>3. FileOfInsideIsFresh'
      <3>1. ASSUME NEW p \in Proc, Inside(p)
            PROVE  age' <= held'[p] /\ held'[p] <= Stale
        <4>1. age <= held[p] /\ age \in Int /\ held[p] \in Int /\ age' \in Int
          BY <3>1
        <4>2. QED
          BY <2>1, <3>1, <4>1
      <3>2. ASSUME NEW p \in Proc, ~Inside(p)
            PROVE  held'[p] = 0
        BY <1>10, <3>2 DEF Tick
      <3>3. QED
        BY <2>2, <3>1, <3>2
    <2>4. QED
      BY <2>2, <2>3
  <1>11. CASE UNCHANGED vars
    BY <1>11 DEF vars
  <1>12. QED
    BY <1>3, <1>4, <1>5, <1>6, <1>7, <1>8, <1>9, <1>10, <1>11
       DEF Next, Step, Acquire, Transition

(* The inductive invariant holds for every number of commands, kills and     *)
(* retries and every length of a transition: until the lock is broken, only  *)
(* the file of a killed command is removed as stale                          *)
(* (workflow-run-state.mjs acquireStageLock, withStageStateLock).            *)
THEOREM LockInvariant == Spec => []LockInv
  <1>1. LockInv /\ [Next]_vars => LockInv'
    BY LockInvStep
  <1>2. QED
    BY <1>1, LockInvInit, PTL DEF Spec

(* The type invariant, with no assumption about kills or prompt transitions. *)
THEOREM TypeCorrect == Spec => []TypeOK
  <1>1. LockInv => TypeOK
    BY DEF LockInv
  <1>2. QED
    BY <1>1, LockInvariant, PTL

(* A step that does not break the lock is one of the abstract mutual         *)
(* exclusion, or a stutter.                                                  *)
LEMMA StepOfMutex ==
    ASSUME LockInv, ~Broken, [Next]_vars
    PROVE  [Mutex!MutexNext]_(Mutex!mutexVars)
  <1> DEFINE in == {p \in Proc : Inside(p)}
  <1> USE DEF LockInv, TypeOK, FileOfInside, ReadIsFresh, Mutex!MutexNext, Mutex!mutexVars,
              Mutex!Enter, Mutex!Update, Mutex!Leave
  <1>1. ASSUME NEW p \in Proc, Begin(p) \/ Stat(p) \/ RemoveStale(p) \/ Wake(p)
                               \/ ReadState(p) \/ Refuse(p)
        PROVE  in' = in /\ ledger' = ledger
    BY <1>1 DEF Begin, Stat, RemoveStale, Wake, ReadState, Refuse, NextAttempt
  <1>2. ASSUME NEW p \in Proc, OpenExclusive(p)
        PROVE  [Mutex!MutexNext]_(Mutex!mutexVars)
    <2>1. CASE owner = Nobody
      <3>1. in = {}
        BY <2>1, LockAssumption
      <3>2. in' = {p} /\ ledger' = ledger
        BY <1>2, <2>1, <3>1 DEF OpenExclusive
      <3>3. QED
        BY <3>1, <3>2
    <2>2. CASE owner # Nobody
      BY <1>2, <2>2 DEF OpenExclusive
    <2>3. QED
      BY <2>1, <2>2
  <1>3. ASSUME NEW p \in Proc, WriteState(p)
        PROVE  [Mutex!MutexNext]_(Mutex!mutexVars)
    <2>1. in = {p} /\ in' = in
      BY <1>3 DEF WriteState
    <2>2. ledger' = ledger \union {p}
      BY <1>3 DEF WriteState
    <2>3. QED
      BY <2>1, <2>2
  <1>4. ASSUME NEW p \in Proc, Release(p)
        PROVE  [Mutex!MutexNext]_(Mutex!mutexVars)
    <2>1. in = {p} /\ in' = {} /\ ledger' = ledger
      BY <1>4 DEF Release
    <2>2. QED
      BY <2>1
  <1>5. ASSUME NEW p \in Proc, Crash(p)
        PROVE  [Mutex!MutexNext]_(Mutex!mutexVars)
    <2>1. CASE Inside(p)
      <3>1. in = {p} /\ in' = {} /\ ledger' = ledger
        BY <1>5, <2>1 DEF Crash
      <3>2. QED
        BY <3>1
    <2>2. CASE ~Inside(p)
      <3>1. in' = in /\ ledger' = ledger
        BY <1>5, <2>2 DEF Crash
      <3>2. QED
        BY <3>1
    <2>3. QED
      BY <2>1, <2>2
  <1>6. CASE Tick
    BY <1>6 DEF Tick
  <1>7. CASE UNCHANGED vars
    BY <1>7 DEF vars
  <1>8. QED
    BY <1>1, <1>2, <1>3, <1>4, <1>5, <1>6, <1>7
       DEF Next, Step, Acquire, Transition

(* The lock implements the mutual exclusion its callers rely on, across      *)
(* kills and takeovers, until a transition outlives its file or two waiters  *)
(* have condemned one: no assumption on how many, how slow or how often      *)
(* killed the commands are.                                                  *)
THEOREM LockExcludesUntilBroken == Spec => MutexUntilBroken
  <1>1. Init => Mutex!MutexInit
    BY DEF Init, Mutex!MutexInit
  <1>2. LockInv /\ [Next]_vars => [Mutex!MutexNext \/ Broken']_(Mutex!mutexVars)
    <2>1. Broken /\ LockInv /\ [Next]_vars => Broken'
      BY DEF LockInv, TypeOK, vars, Next, Step, Acquire, Transition, Begin, OpenExclusive, Stat,
             RemoveStale, Wake, ReadState, WriteState, Refuse, Release, Crash, Tick
    <2>2. QED
      BY <2>1, StepOfMutex
  <1>3. QED
    BY <1>1, <1>2, LockInvariant, PTL DEF Spec, MutexUntilBroken

(* Two commands whose transitions end before their file is stale exclude     *)
(* each other and lose no update however often they are killed: nobody       *)
(* outlives its file, and who condemns a file is the only one left.          *)
Prompt == MaxHold <= Stale

PairInv == LockInv /\ ~Broken

LEMMA PairStep ==
    ASSUME Prompt, NEW a, NEW b, Proc = {a, b}, PairInv, [Next]_vars
    PROVE  PairInv'
  <1>1. LockInv'
    BY LockInvStep DEF PairInv
  <1>2. ~outlived'
    <2>1. MaxHold \in Nat /\ Stale \in Nat /\ held' \in [Proc -> 0..MaxHold]
      BY <1>1, LockAssumption DEF LockInv, TypeOK
    <2>2. \A p \in Proc : ~(held'[p] > Stale)
      BY <2>1 DEF Prompt
    <2>3. QED
      BY <2>2 DEF PairInv, vars, Next, Step, Acquire, Transition, Begin, OpenExclusive, Stat,
             RemoveStale, Wake, ReadState, WriteState, Refuse, Release, Crash, Tick
  <1>3. ~doubled'
    <2>1. ASSUME NEW p \in Proc, Stat(p), doubled'
          PROVE  FALSE
      <3>1. pc'[p] = "steal" /\ pc[p] = "stat"
        BY <2>1 DEF PairInv, Stat
      <3>2. PICK q \in Proc \ {p} : pc[q] = "steal"
        BY <2>1 DEF PairInv, Stat, OtherCondemned
      <3>3. owner \in Proc /\ pc[owner] = "crashed"
        BY <3>2 DEF PairInv, LockInv, StealsFromTheDead
      <3>4. QED
        BY <3>1, <3>2, <3>3
    <2>2. QED
      BY <2>1 DEF PairInv, vars, Next, Step, Acquire, Transition, Begin, OpenExclusive,
             RemoveStale, Wake, ReadState, WriteState, Refuse, Release, Crash, Tick
  <1>4. QED
    BY <1>1, <1>2, <1>3 DEF PairInv

(* Two prompt commands are excluded without exception, kills and takeovers   *)
(* of stale files included.                                                  *)
THEOREM PairExcludes ==
    ASSUME Prompt, NEW a, NEW b, Proc = {a, b}
    PROVE  Spec => MutualExclusion
  <1>1. Init => PairInv /\ Mutex!MutexInit
    BY LockInvInit DEF PairInv, Init, Mutex!MutexInit
  <1>2. PairInv /\ [Next]_vars => PairInv'
    BY PairStep
  <1>3. PairInv /\ [Next]_vars => [Mutex!MutexNext]_(Mutex!mutexVars)
    BY StepOfMutex DEF PairInv
  <1>4. QED
    BY <1>1, <1>2, <1>3, PTL DEF Spec, MutualExclusion, Mutex!MutexSpec
================================================================================
