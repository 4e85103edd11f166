---------------------------- MODULE StageRunProofs ----------------------------
(***************************************************************************)
(* The stage ledger is sound for any number of stages, dependencies,       *)
(* attempts and concurrent commands, whoever is killed: what the lock      *)
(* holder is about to write is always a legal successor of the file it     *)
(* read, and every finished event in flight fits the file.                 *)
(***************************************************************************)
EXTENDS StageRun, TLAPS

Attempts == [Stage -> 0..MaxAttempt]
Outcomes == [Stage -> ClosedOutcome \union {"none", "open"}]

(* One file on its own: what activeStageRun accepts, and a basis for work. *)
FileOK(at, oc) ==
    /\ \A s, t \in Stage : oc[s] = "open" /\ oc[t] = "open" => s = t
    /\ \A s \in Stage : oc[s] = "open" => \A d \in After[s] : oc[d] = "success"
    /\ \A s \in Stage : oc[s] # "none" => at[s] > 0

(* A file that may replace the present one. *)
Succeeds(at, oc) ==
    \A s \in Stage :
        /\ at[s] \in {attempt[s], attempt[s] + 1}
        /\ outcome[s] \in ClosedOutcome /\ at[s] = attempt[s] => oc[s] = outcome[s]

(* A finished event that is delivered or on its way. *)
Told(e) ==
    /\ e \in Event
    /\ e.outcome # "open"
    /\ e \in sent \/ \E p \in Proc : cmd[p].event = e

(* An event is about the latest occurrence as it was closed, or an earlier one. *)
Fits(e, at, oc) ==
    /\ e.attempt <= at[e.stage]
    /\ e.attempt = at[e.stage] => oc[e.stage] = e.outcome

(* An event that repeats how the latest occurrence of its stage was closed. *)
Latest(e) == e.attempt = attempt[e.stage] /\ e.outcome = outcome[e.stage]

Agree(e, f) == e.stage = f.stage /\ e.attempt = f.attempt => e.outcome = f.outcome

(* A command about to deliver has an event to deliver. *)
HasEvent(c) == c.pc = "send" => c.event # None
EveryHasEvent == \A p \in Proc : HasEvent(cmd[p])
SentAreClosed == \A e \in sent : e.outcome # "open"

EventsFit == \A e \in Event : Told(e) => Fits(e, attempt, outcome)
EventsAgree == \A e, f \in Event : Told(e) /\ Told(f) => Agree(e, f)

(* A step after which nothing is told but what was, or what repeats the file. *)
TellsNothingNew ==
    \A e \in Event : Told(e)' => Told(e) \/ (pending = None /\ Latest(e))

NothingTold == \A e \in Event : Told(e)' => Told(e)

(* The event that follows a write is new: nothing told contradicts it. *)
NewStory(at, oc, next) ==
    \A e \in Event :
        e = next.event /\ e.outcome # "open" =>
            Fits(e, at, oc) /\ \A f \in Event : Told(f) => Agree(e, f)

PendingOK ==
    pending # None =>
        /\ FileOK(pending.attempt, pending.outcome)
        /\ Succeeds(pending.attempt, pending.outcome)
        /\ NewStory(pending.attempt, pending.outcome, pending.next)
        /\ HasEvent(pending.next)
        /\ status = "abandoning" => pending.status = "abandoning" /\ pending.outcome = outcome

LedgerInv ==
    /\ TypeOK
    /\ FileOK(attempt, outcome)
    /\ EveryHasEvent
    /\ SentAreClosed
    /\ EventsFit
    /\ EventsAgree
    /\ PendingOK

(* The initial state satisfies the invariant. *)
LEMMA LedgerInit == ASSUME Init PROVE LedgerInv
  <1> USE StageAssumption DEF Init
  <1>1. TypeOK
    <2>1. Idle \in Command
      BY DEF Idle, Command, ClosedOutcome
    <2>2. status \in Finishable \union {"gone"}
      BY DEF Finishable, Live
    <2>3. kills \in 0..MaxKills
      BY StageAssumption
    <2>4. attempt \in [Stage -> 0..MaxAttempt]
      OBVIOUS
    <2>5. outcome \in [Stage -> ClosedOutcome \union {"none", "open"}]
      OBVIOUS
    <2>6. cmd \in [Proc -> Command]
      BY <2>1
    <2>7. successful \in BOOLEAN /\ sent \in SUBSET Event /\ pending \in Write \union {None}
      OBVIOUS
    <2>8. QED
      BY <2>2, <2>3, <2>4, <2>5, <2>6, <2>7 DEF TypeOK
  <1>2. FileOK(attempt, outcome)
    BY DEF FileOK
  <1>3. EveryHasEvent /\ SentAreClosed
    BY DEF EveryHasEvent, SentAreClosed, HasEvent, Idle
  <1>4. \A e \in Event : ~Told(e)
    BY DEF Told, Idle
  <1>5. QED
    BY <1>1, <1>2, <1>3, <1>4 DEF LedgerInv, EventsFit, EventsAgree, PendingOK

(* What the invariant says of the file's types, unfolded once.               *)
LEMMA FileTypes ==
    ASSUME LedgerInv
    PROVE  /\ status \in Finishable \union {"gone"}
           /\ attempt \in Attempts
           /\ outcome \in Outcomes
           /\ \A p \in Proc : cmd[p] \in Command
           /\ \A s \in Stage : attempt[s] \in Nat
           /\ EveryHasEvent
           /\ SentAreClosed
  BY StageAssumption DEF LedgerInv, TypeOK, Attempts, Outcomes

(* Preparing a write keeps the invariant when what is prepared is a legal    *)
(* successor of the file and its event is new.                               *)
LEMMA PrepareKeepsInv ==
    ASSUME LedgerInv,
           NEW p \in Proc, NEW st \in Finishable, NEW at \in Attempts,
           NEW oc \in Outcomes, NEW next \in Command,
           Locked(p, st, at, oc, next),
           FileOK(at, oc), Succeeds(at, oc), NewStory(at, oc, next), HasEvent(next),
           status = "abandoning" => st = "abandoning" /\ oc = outcome
    PROVE  LedgerInv'
  <1> DEFINE w == [by |-> p, status |-> st, attempt |-> at, outcome |-> oc, next |-> next]
  <1>1. w \in Write
    BY DEF Write, Attempts, Outcomes
  <1>2. pending' = w /\ UNCHANGED <<status, attempt, outcome, cmd, sent, successful, kills>>
    BY DEF Locked, file
  <1>3. TypeOK'
    BY <1>1, <1>2 DEF LedgerInv, TypeOK
  <1>4. \A e : Told(e)' <=> Told(e)
    BY <1>2 DEF Told
  <1>5. PendingOK'
    <2>1. FileOK(w.attempt, w.outcome) /\ HasEvent(w.next)
      OBVIOUS
    <2>2. Succeeds(w.attempt, w.outcome)'
      BY <1>2 DEF Succeeds
    <2>3. NewStory(w.attempt, w.outcome, w.next)'
      BY <1>2, <1>4 DEF NewStory
    <2>4. QED
      BY <1>2, <2>1, <2>2, <2>3 DEF PendingOK
  <1>6. QED
    BY <1>2, <1>3, <1>4, <1>5 DEF LedgerInv, EveryHasEvent, SentAreClosed, FileOK, HasEvent, EventsFit, EventsAgree

(* A step that leaves the file and the prepared write alone, and brings no   *)
(* finished event but one that repeats the file, keeps the invariant.        *)
LEMMA CommandKeepsInv ==
    ASSUME LedgerInv, TypeOK',
           UNCHANGED <<attempt, outcome, pending>>,
           status' = status \/ status' = "gone",
           EveryHasEvent', SentAreClosed', TellsNothingNew
    PROVE  LedgerInv'
  <1>1. FileOK(attempt, outcome)'
    BY DEF LedgerInv, FileOK
  <1>2. EventsFit' /\ EventsAgree'
    <2>1. EventsFit'
      BY FileTypes DEF LedgerInv, TellsNothingNew, EventsFit, Fits, Latest, Attempts, Event
    <2>2. ASSUME NEW e \in Event, NEW f \in Event, Told(e)', Told(f)'
          PROVE  Agree(e, f)
      <3>1. CASE Told(e) /\ Told(f)
        BY <3>1 DEF LedgerInv, EventsAgree
      <3>2. CASE Latest(e) \/ Latest(f)
        <4>1. Fits(e, attempt, outcome) /\ Fits(f, attempt, outcome)
          BY <2>1, <2>2 DEF EventsFit, Fits
        <4>2. QED
          BY <3>2, <4>1 DEF Latest, Fits, Agree
      <3>3. QED
        BY <2>2, <3>1, <3>2 DEF TellsNothingNew
    <2>3. QED
      BY <2>1, <2>2 DEF EventsAgree, Agree
  <1>3. PendingOK'
    <2>1. CASE pending = None
      BY <2>1 DEF PendingOK
    <2>2. CASE pending # None
      <3>1. FileOK(pending.attempt, pending.outcome)' /\ HasEvent(pending.next)'
        BY <2>2 DEF LedgerInv, PendingOK, FileOK, HasEvent
      <3>2. Succeeds(pending.attempt, pending.outcome)'
        BY <2>2 DEF LedgerInv, PendingOK, Succeeds
      <3>3. NewStory(pending.attempt, pending.outcome, pending.next)'
        BY <2>2 DEF LedgerInv, PendingOK, NewStory, TellsNothingNew
      <3>4. (status = "abandoning" => pending.status = "abandoning" /\ pending.outcome = outcome)'
        BY <2>2 DEF LedgerInv, PendingOK
      <3>5. QED
        BY <3>1, <3>2, <3>3, <3>4 DEF PendingOK
    <2>3. QED
      BY <2>1, <2>2
  <1>4. QED
    BY <1>1, <1>2, <1>3 DEF LedgerInv, EveryHasEvent, SentAreClosed, HasEvent

(* Closing the open stage with any outcome is a legal successor, and the     *)
(* event it owes is new: nobody has been told how this occurrence ended.     *)
LEMMA ClosingSucceeds ==
    ASSUME LedgerInv, NEW s \in Stage, IsOpen(s), NEW o \in ClosedOutcome,
           NEW oc, oc = [outcome EXCEPT ![s] = o],
           NEW next, next.event = ClosedEvent(s, o)
    PROVE  /\ oc \in Outcomes
           /\ FileOK(attempt, oc)
           /\ Succeeds(attempt, oc)
           /\ NewStory(attempt, oc, next)
           /\ ClosedEvent(s, o) \in Event
  <1> USE FileTypes DEF IsOpen
  <1>1. o # "open" /\ o # "none" /\ "open" \notin ClosedOutcome
    BY StageAssumption DEF ClosedOutcome
  <1>2. oc \in Outcomes
    BY DEF Outcomes
  <1>3. FileOK(attempt, oc)
    BY <1>1 DEF LedgerInv, FileOK, Outcomes
  <1>4. Succeeds(attempt, oc)
    BY <1>1 DEF Succeeds, Outcomes
  <1>5. ClosedEvent(s, o) \in Event
    BY DEF LedgerInv, FileOK, ClosedEvent, Event, Attempts
  <1>6. NewStory(attempt, oc, next)
    <2> SUFFICES ASSUME NEW e \in Event, e = ClosedEvent(s, o)
                 PROVE  Fits(e, attempt, oc) /\ \A f \in Event : Told(f) => Agree(e, f)
      BY DEF NewStory
    <2>1. e.stage = s /\ e.attempt = attempt[s] /\ e.outcome = o
      BY DEF ClosedEvent
    <2>2. Fits(e, attempt, oc)
      BY <2>1 DEF Fits, Outcomes, Attempts
    <2>3. ASSUME NEW f \in Event, Told(f), f.stage = s, f.attempt = attempt[s]
          PROVE  FALSE
      <3>1. outcome[s] = f.outcome
        BY <2>3 DEF LedgerInv, EventsFit, Fits
      <3>2. QED
        BY <2>3, <3>1 DEF Told
    <2>4. QED
      BY <2>1, <2>2, <2>3 DEF Agree
  <1>7. QED
    BY <1>2, <1>3, <1>4, <1>5, <1>6

(* An unchanged file is a legal successor of itself. *)
LEMMA SameFileSucceeds ==
    ASSUME LedgerInv, NEW next, next.event = None
    PROVE  /\ FileOK(attempt, outcome)
           /\ Succeeds(attempt, outcome)
           /\ NewStory(attempt, outcome, next)
  BY FileTypes, StageAssumption DEF LedgerInv, Succeeds, NewStory

(* Closing a stage under the lock keeps the invariant. *)
LEMMA LockedAbandonKeepsInv ==
    ASSUME LedgerInv, NEW p \in Proc, NEW st \in Finishable,
           status # "abandoning",
           NEW step \in {"complete", "report"}, NEW o \in ClosedOutcome,
           LockedAbandon(p, st, step, o)
    PROVE  LedgerInv'
  <1>1. PICK s \in Stage :
          /\ IsOpen(s)
          /\ Locked(p, st, attempt, [outcome EXCEPT ![s] = "abandoned"],
                    Sending(ClosedEvent(s, "abandoned"), step, o))
    BY DEF LockedAbandon
  <1> DEFINE oc == [outcome EXCEPT ![s] = "abandoned"]
             next == Sending(ClosedEvent(s, "abandoned"), step, o)
  <1>2. next.event = ClosedEvent(s, "abandoned") /\ next.pc = "send"
    BY DEF Sending
  <1>3. "abandoned" \in ClosedOutcome
    BY DEF ClosedOutcome
  <1> HIDE DEF next
  <1>4. /\ oc \in Outcomes /\ FileOK(attempt, oc) /\ Succeeds(attempt, oc)
        /\ NewStory(attempt, oc, next) /\ ClosedEvent(s, "abandoned") \in Event
    BY <1>1, <1>2, <1>3, ClosingSucceeds
  <1>5. next \in Command /\ HasEvent(next)
    BY <1>4, StageAssumption DEF next, Sending, Command, HasEvent
  <1>6. QED
    BY <1>1, <1>4, <1>5, FileTypes, PrepareKeepsInv DEF next

(* Committing what was prepared keeps the invariant. *)
LEMMA CommitKeepsInv ==
    ASSUME LedgerInv, NEW p \in Proc, Commit(p)
    PROVE  LedgerInv'
  <1> USE FileTypes
  <1>1. /\ pending # None /\ pending \in Write
        /\ status' = pending.status /\ attempt' = pending.attempt
        /\ outcome' = pending.outcome /\ pending' = None
        /\ cmd' = [cmd EXCEPT ![p] = pending.next]
        /\ sent' = sent /\ successful' = successful /\ kills' = kills
    BY DEF Commit, Holds, Become, LedgerInv, TypeOK
  <1>2. /\ FileOK(attempt', outcome') /\ Succeeds(attempt', outcome')
        /\ NewStory(attempt', outcome', pending.next) /\ HasEvent(pending.next)
    BY <1>1 DEF LedgerInv, PendingOK
  <1>3. /\ pending.next \in Command /\ pending.status \in Finishable
        /\ pending.attempt \in Attempts /\ pending.outcome \in Outcomes
    BY <1>1 DEF Write, Attempts, Outcomes
  <1>4. TypeOK'
    BY <1>1, <1>3 DEF LedgerInv, TypeOK, Attempts, Outcomes
  <1>5. EveryHasEvent' /\ SentAreClosed'
    BY <1>1, <1>2 DEF LedgerInv, EveryHasEvent, SentAreClosed, HasEvent
  <1>6. ASSUME NEW e \in Event, Told(e)'
        PROVE  Told(e) \/ e = pending.next.event
    BY <1>1, <1>6 DEF Told
  <1>7. ASSUME NEW e \in Event, Told(e)'
        PROVE  Fits(e, attempt', outcome')
    <2>1. CASE Told(e)
      <3>1. Fits(e, attempt, outcome) /\ e.stage \in Stage /\ e.attempt \in Nat
        BY <2>1, StageAssumption DEF LedgerInv, EventsFit, Event
      <3>2. e.outcome \in ClosedOutcome
        BY <2>1 DEF Told, Event
      <3>3. QED
        BY <1>2, <1>3, <1>1, <3>1, <3>2 DEF Fits, Succeeds, Attempts
    <2>2. CASE e = pending.next.event
      BY <1>2, <1>7, <2>2 DEF NewStory, Told
    <2>3. QED
      BY <1>6, <1>7, <2>1, <2>2
  <1>8. ASSUME NEW e \in Event, NEW f \in Event, Told(e)', Told(f)'
        PROVE  Agree(e, f)
    <2>1. CASE Told(e) /\ Told(f)
      BY <2>1 DEF LedgerInv, EventsAgree
    <2>2. CASE e = pending.next.event /\ Told(f)
      BY <1>2, <1>8, <2>2 DEF NewStory, Told
    <2>3. CASE f = pending.next.event /\ Told(e)
      BY <1>2, <1>8, <2>3 DEF NewStory, Told, Agree
    <2>4. CASE e = f
      BY <2>4 DEF Agree
    <2>5. QED
      BY <1>6, <1>8, <2>1, <2>2, <2>3, <2>4
  <1>9. FileOK(attempt, outcome)'
    BY <1>2 DEF FileOK
  <1>10. QED
    BY <1>1, <1>4, <1>5, <1>7, <1>8, <1>9
       DEF LedgerInv, EveryHasEvent, SentAreClosed, HasEvent, EventsFit, EventsAgree, PendingOK, Fits, Agree

(* A claim cut short after its first write closes a stage and tells nobody. *)
LEMMA KilledWithinClaimKeepsInv ==
    ASSUME LedgerInv, NEW p \in Proc, KilledWithinClaim(p)
    PROVE  LedgerInv'
  <1> USE FileTypes
  <1>1. /\ pending # None /\ pending \in Write
        /\ status' = "suspended" /\ attempt' = pending.attempt
        /\ outcome' = pending.outcome /\ pending' = None
        /\ cmd' = [cmd EXCEPT ![p] = Idle]
        /\ sent' = sent /\ successful' = successful /\ kills' \in 0..MaxKills
    BY StageAssumption DEF KilledWithinClaim, Holds, Become, LedgerInv, TypeOK
  <1>2. FileOK(attempt', outcome') /\ Succeeds(attempt', outcome')
    BY <1>1 DEF LedgerInv, PendingOK
  <1>3. pending.attempt \in Attempts /\ pending.outcome \in Outcomes
    BY <1>1 DEF Write, Attempts, Outcomes
  <1>4. Idle \in Command /\ HasEvent(Idle) /\ Idle.event = None
    BY DEF Idle, Command, HasEvent, ClosedOutcome
  <1>5. TypeOK'
    BY <1>1, <1>3, <1>4 DEF LedgerInv, TypeOK, Attempts, Outcomes, Finishable, Live
  <1>6. EveryHasEvent' /\ SentAreClosed'
    BY <1>1, <1>4 DEF LedgerInv, EveryHasEvent, SentAreClosed, HasEvent
  <1>7. NothingTold
    BY <1>1, <1>4, StageAssumption DEF LedgerInv, TypeOK, NothingTold, Told
  <1>8. ASSUME NEW e \in Event, Told(e)
        PROVE  Fits(e, attempt', outcome')
    <2>1. Fits(e, attempt, outcome) /\ e.stage \in Stage /\ e.attempt \in Nat
      BY <1>8, StageAssumption DEF LedgerInv, EventsFit, Event
    <2>2. e.outcome \in ClosedOutcome
      BY <1>8 DEF Told, Event
    <2>3. QED
      BY <1>1, <1>2, <1>3, <2>1, <2>2 DEF Fits, Succeeds, Attempts
  <1>9. EventsFit' /\ EventsAgree'
    BY <1>7, <1>8 DEF LedgerInv, NothingTold, EventsFit, EventsAgree, Fits, Agree
  <1>10. FileOK(attempt, outcome)'
    BY <1>2 DEF FileOK
  <1>11. QED
    BY <1>1, <1>5, <1>6, <1>9, <1>10 DEF LedgerInv, PendingOK

(* The usual case: the step tells nothing new. *)
LEMMA NothingToldKeepsInv ==
    ASSUME LedgerInv, TypeOK', UNCHANGED <<attempt, outcome, pending>>,
           status' = status \/ status' = "gone",
           EveryHasEvent', SentAreClosed', NothingTold
    PROVE  LedgerInv'
  <1>1. TellsNothingNew
    <2>1. ASSUME NEW e \in Event, Told(e)'
          PROVE  Told(e)
      BY <2>1 DEF NothingTold
    <2>2. QED
      BY <2>1 DEF TellsNothingNew
  <1>2. QED
    BY <1>1, CommandKeepsInv

(* A step outside the lock that gives one command something else to do. *)
LEMMA GoingKeepsInv ==
    ASSUME LedgerInv, NEW p \in Proc, NEW c \in Command, c.event = None, HasEvent(c),
           Become(p, c), UNCHANGED <<file, sent, kills>>,
           successful' \in BOOLEAN,
           pending' = pending
    PROVE  LedgerInv'
  <1>1. TypeOK'
    BY DEF LedgerInv, TypeOK, Become, file
  <1>2. EveryHasEvent' /\ SentAreClosed'
    BY DEF LedgerInv, TypeOK, EveryHasEvent, SentAreClosed, HasEvent, Become
  <1>3. NothingTold
    BY StageAssumption DEF LedgerInv, TypeOK, NothingTold, Told, Become
  <1>4. QED
    BY <1>1, <1>2, <1>3, NothingToldKeepsInv DEF file

(* The commands a command may turn into outside the lock. *)
LEMMA GoingIsCommand ==
    ASSUME NEW step \in {"complete", "abandon", "report", "finalize", "idle"},
           NEW o \in ClosedOutcome
    PROVE  /\ Going(step, o) \in Command
           /\ Going(step, o).event = None
           /\ HasEvent(Going(step, o))
           /\ Idle \in Command /\ Idle.event = None /\ HasEvent(Idle)
  BY DEF Going, Idle, Command, HasEvent, ClosedOutcome

(* Every step of every command preserves the invariant. *)
LEMMA LedgerStep == ASSUME LedgerInv, [Next]_vars PROVE LedgerInv'
  <1> USE FileTypes
  <1> DEFINE o0 == "abandoned"
  <1>0. o0 \in ClosedOutcome /\ StageOutcome \subseteq ClosedOutcome
    BY DEF ClosedOutcome
  <1>1. ASSUME NEW p \in Proc, Resume(p)
        PROVE  LedgerInv'
    BY <1>1, SameFileSucceeds, PrepareKeepsInv, GoingIsCommand, <1>0
       DEF Resume, MayResume, Finishable, Live
  <1>2. ASSUME NEW p \in Proc, Suspend(p)
        PROVE  LedgerInv'
    BY <1>2, SameFileSucceeds, PrepareKeepsInv, GoingIsCommand, <1>0
       DEF Suspend, MaySuspend, Finishable, Live
  <1>3. ASSUME NEW p \in Proc, NEW s \in Stage, StartStage(p, s)
        PROVE  LedgerInv'
    <2> DEFINE at == [attempt EXCEPT ![s] = NewAttempt(s)]
               oc == [outcome EXCEPT ![s] = "open"]
               ev == [stage |-> s, attempt |-> NewAttempt(s), outcome |-> "open"]
               next == Sending(ev, "idle", "abandoned")
    <2>1. at \in Attempts /\ oc \in Outcomes /\ ev \in Event
      BY <1>3, StageAssumption DEF StartStage, MayStart, NewAttempt, Attempts, Outcomes, Event
    <2>2. FileOK(at, oc)
      BY <1>3, StageAssumption DEF StartStage, MayStart, NewAttempt, NothingOpen, IsOpen,
         DependenciesMet, LedgerInv, FileOK, Attempts, Outcomes
    <2>3. Succeeds(at, oc)
      BY <1>3 DEF Succeeds, NewAttempt, Attempts, Outcomes
    <2>4. next \in Command /\ HasEvent(next) /\ next.event = ev
      BY <2>1, StageAssumption DEF Sending, Command, HasEvent, ClosedOutcome
    <2>5. NewStory(at, oc, next)
      BY <2>4 DEF NewStory
    <2>6. Locked(p, status, at, oc, next) /\ status \in Finishable /\ status # "abandoning"
      BY <1>3 DEF StartStage, Finishable, Live
    <2> HIDE DEF at, oc, next
    <2>7. QED
      BY <2>1, <2>2, <2>3, <2>4, <2>5, <2>6, PrepareKeepsInv
  <1>4. ASSUME NEW p \in Proc, NEW s \in Stage, NEW o \in StageOutcome, FinishStage(p, s, o)
        PROVE  LedgerInv'
    <2> DEFINE oc == [outcome EXCEPT ![s] = o]
               next == Sending(ClosedEvent(s, o), "idle", "abandoned")
    <2>1. next.event = ClosedEvent(s, o)
      BY DEF Sending
    <2>2. /\ oc \in Outcomes /\ FileOK(attempt, oc) /\ Succeeds(attempt, oc)
          /\ NewStory(attempt, oc, next) /\ ClosedEvent(s, o) \in Event
      BY <1>0, <1>4, <2>1, ClosingSucceeds DEF FinishStage, MayFinish
    <2>3. next \in Command /\ HasEvent(next)
      BY <2>2, StageAssumption DEF Sending, Command, HasEvent, ClosedOutcome
    <2>4. Locked(p, status, attempt, oc, next) /\ status \in Finishable /\ status # "abandoning"
      BY <1>4 DEF FinishStage, Finishable, Live
    <2> HIDE DEF oc, next
    <2>5. QED
      BY <2>2, <2>3, <2>4, PrepareKeepsInv
  <1>5. ASSUME NEW p \in Proc, NEW s \in Stage, Replay(p, s)
        PROVE  LedgerInv'
    <2> DEFINE ev == OccurrenceEvent(s)
               c == Sending(ev, "idle", "abandoned")
    <2>1. outcome[s] # "none" /\ outcome[s] \in ClosedOutcome \union {"open"}
      BY <1>0, <1>5, StageAssumption DEF Replay, IsOpen, ClosedOutcome
    <2>2. ev \in Event /\ (ev.outcome # "open" => Latest(ev))
      BY <2>1 DEF OccurrenceEvent, Event, LedgerInv, FileOK, Attempts, Latest
    <2>3. c \in Command /\ HasEvent(c) /\ c.event = ev
      BY <1>0, <2>2, StageAssumption DEF Sending, Command, HasEvent
    <2>4. /\ pending = None /\ pending' = pending
          /\ cmd' = [cmd EXCEPT ![p] = c]
          /\ status' = status /\ attempt' = attempt /\ outcome' = outcome
          /\ sent' = sent /\ successful' = successful /\ kills' = kills
      BY <1>5 DEF Replay, Become, file
    <2> HIDE DEF c, ev
    <2>5. TypeOK'
      BY <2>3, <2>4 DEF LedgerInv, TypeOK
    <2>6. EveryHasEvent' /\ SentAreClosed'
      BY <2>3, <2>4 DEF LedgerInv, TypeOK, EveryHasEvent, SentAreClosed, HasEvent
    <2>7. \A e \in Event : Told(e)' => Told(e) \/ e = ev
      BY <2>3, <2>4 DEF LedgerInv, TypeOK, Told
    <2>8. TellsNothingNew
      <3>1. ASSUME NEW e \in Event, Told(e)', e = ev
            PROVE  Latest(e)
        BY <2>2, <3>1 DEF Told
      <3>2. QED
        BY <2>4, <2>7, <3>1, Zenon DEF TellsNothingNew
    <2>9. QED
      BY <2>4, <2>5, <2>6, <2>8, CommandKeepsInv
  <1>6. ASSUME NEW p \in Proc, Claim(p)
        PROVE  LedgerInv'
    <2>1. CASE status = "suspended" /\ LockedAbandon(p, "abandoning", "complete", "abandoned")
      BY <1>0, <2>1, LockedAbandonKeepsInv DEF Finishable, Live
    <2>2. CASE Locked(p, "abandoning", attempt, outcome, Going("complete", "abandoned"))
      BY <1>0, <2>2, SameFileSucceeds, PrepareKeepsInv, GoingIsCommand DEF Finishable
    <2>3. QED
      BY <1>6, <2>1, <2>2 DEF Claim
  <1>7. ASSUME NEW p \in Proc, EndSession(p)
        PROVE  LedgerInv'
    <2>1. CASE status \in Live /\ LockedAbandon(p, status, "complete", "abandoned")
      BY <1>0, <2>1, LockedAbandonKeepsInv DEF Finishable, Live
    <2>2. CASE Become(p, Going("complete", "abandoned"))
               /\ UNCHANGED <<file, pending, sent, successful, kills>>
      <3>1. successful' \in BOOLEAN
        BY <2>2 DEF LedgerInv, TypeOK
      <3>2. QED
        BY <1>0, <2>2, <3>1, GoingKeepsInv, GoingIsCommand DEF file
    <2>3. QED
      BY <1>7, <2>1, <2>2 DEF EndSession
  <1>8. ASSUME NEW p \in Proc, Commit(p)
        PROVE  LedgerInv'
    BY <1>8, CommitKeepsInv
  <1>9. ASSUME NEW p \in Proc, SendStageEvent(p)
        PROVE  LedgerInv'
    <2> DEFINE c == Going(cmd[p].after, cmd[p].outcome)
    <2>1. /\ cmd[p] \in Command /\ cmd[p].event \in Event
          /\ cmd[p].outcome \in ClosedOutcome /\ cmd[p].after \in {"idle", "complete", "report"}
      BY <1>9 DEF SendStageEvent, At, LedgerInv, EveryHasEvent, HasEvent, Command
    <2>2. c \in Command /\ HasEvent(c) /\ c.event = None
      BY <2>1, GoingIsCommand
    <2>3. /\ sent' = IF cmd[p].event.outcome = "open" THEN sent
                     ELSE sent \union {cmd[p].event}
          /\ cmd' = [cmd EXCEPT ![p] = c]
          /\ status' = status /\ attempt' = attempt /\ outcome' = outcome
          /\ pending' = pending /\ successful' = successful /\ kills' = kills
      BY <1>9 DEF SendStageEvent, Become, file
    <2> HIDE DEF c
    <2>4. TypeOK'
      BY <2>1, <2>2, <2>3 DEF LedgerInv, TypeOK
    <2>5. EveryHasEvent' /\ SentAreClosed'
      BY <2>2, <2>3 DEF LedgerInv, TypeOK, EveryHasEvent, SentAreClosed, HasEvent
    <2>6. NothingTold
      BY <2>2, <2>3, StageAssumption DEF LedgerInv, TypeOK, NothingTold, Told
    <2>7. QED
      BY <2>3, <2>4, <2>5, <2>6, NothingToldKeepsInv
  <1>10. ASSUME NEW p \in Proc, NEW o \in StageOutcome, FinishRun(p, o)
         PROVE  LedgerInv'
    <2>1. successful' \in BOOLEAN
      BY <1>10 DEF FinishRun, LedgerInv, TypeOK
    <2>2. QED
      BY <1>0, <1>10, <2>1, GoingKeepsInv, GoingIsCommand DEF FinishRun
  <1>11. ASSUME NEW p \in Proc, Complete(p) \/ RefuseFinish(p)
         PROVE  LedgerInv'
    <2>1. successful' \in BOOLEAN /\ cmd[p].outcome \in ClosedOutcome
      BY <1>11 DEF Complete, RefuseFinish, LedgerInv, TypeOK, Command
    <2>2. QED
      BY <1>0, <1>11, <2>1, GoingKeepsInv, GoingIsCommand DEF Complete, RefuseFinish
  <1>12. ASSUME NEW p \in Proc, AbandonOpen(p)
         PROVE  LedgerInv'
    <2>1. successful' \in BOOLEAN /\ cmd[p].outcome \in ClosedOutcome
      BY <1>12 DEF AbandonOpen, LockedAbandon, Locked, LedgerInv, TypeOK, Command
    <2>2. CASE status \in Live /\ LockedAbandon(p, status, "report", cmd[p].outcome)
      BY <2>1, <2>2, LockedAbandonKeepsInv DEF Finishable, Live
    <2>3. CASE Become(p, Going("report", cmd[p].outcome))
               /\ UNCHANGED <<file, pending, sent, successful, kills>>
      BY <2>1, <2>3, GoingKeepsInv, GoingIsCommand DEF file
    <2>4. QED
      BY <1>12, <2>2, <2>3 DEF AbandonOpen
  <1>13. ASSUME NEW p \in Proc, Report(p)
         PROVE  LedgerInv'
    <2>1. successful' \in BOOLEAN /\ cmd[p].outcome \in ClosedOutcome
      BY <1>13 DEF Report, LedgerInv, TypeOK, Command
    <2>2. QED
      BY <1>13, <2>1, GoingKeepsInv, GoingIsCommand DEF Report
  <1>14. ASSUME NEW p \in Proc, Finalize(p)
         PROVE  LedgerInv'
    <2>1. /\ status' = "gone" /\ cmd' = [cmd EXCEPT ![p] = Idle]
          /\ attempt' = attempt /\ outcome' = outcome /\ pending' = pending
          /\ sent' = sent /\ successful' = successful /\ kills' = kills
      BY <1>14 DEF Finalize, Become
    <2>2. Idle \in Command /\ HasEvent(Idle) /\ Idle.event = None
      BY <1>0, GoingIsCommand
    <2>3. TypeOK'
      BY <2>1, <2>2 DEF LedgerInv, TypeOK
    <2>4. EveryHasEvent' /\ SentAreClosed'
      BY <2>1, <2>2 DEF LedgerInv, TypeOK, EveryHasEvent, SentAreClosed, HasEvent
    <2>5. NothingTold
      BY <2>1, <2>2, StageAssumption DEF LedgerInv, TypeOK, NothingTold, Told
    <2>6. UNCHANGED <<attempt, outcome, pending>>
      BY <2>1
    <2>7. status' = status \/ status' = "gone"
      BY <2>1
    <2>8. QED
      BY ONLY LedgerInv, <2>3, <2>4, <2>5, <2>6, <2>7, NothingToldKeepsInv
  <1>15. ASSUME NEW p \in Proc, Killed(p)
         PROVE  LedgerInv'
    <2>1. /\ cmd' = [cmd EXCEPT ![p] = Idle] /\ pending' \in {pending, None}
          /\ status' = status /\ attempt' = attempt /\ outcome' = outcome
          /\ sent' = sent /\ successful' = successful /\ kills' \in 0..MaxKills
      BY <1>15, StageAssumption DEF Killed, Become, file, LedgerInv, TypeOK
    <2>2. Idle \in Command /\ HasEvent(Idle) /\ Idle.event = None
      BY <1>0, GoingIsCommand
    <2>3. TypeOK'
      BY <2>1, <2>2 DEF LedgerInv, TypeOK
    <2>4. EveryHasEvent' /\ SentAreClosed'
      BY <2>1, <2>2 DEF LedgerInv, TypeOK, EveryHasEvent, SentAreClosed, HasEvent
    <2>5. NothingTold
      BY <2>1, <2>2, StageAssumption DEF LedgerInv, TypeOK, NothingTold, Told
    <2>6. CASE pending' = pending
      BY <2>1, <2>3, <2>4, <2>5, <2>6, NothingToldKeepsInv
    <2>7. CASE pending' = None
      <3>1. FileOK(attempt, outcome)' /\ PendingOK'
        BY <2>1, <2>7 DEF LedgerInv, FileOK, PendingOK
      <3>2. EventsFit' /\ EventsAgree'
        BY <2>1, <2>5 DEF LedgerInv, NothingTold, EventsFit, EventsAgree, Fits, Agree
      <3>3. QED
        BY <2>3, <2>4, <3>1, <3>2 DEF LedgerInv
    <2>8. QED
      BY <2>1, <2>6, <2>7
  <1>16. ASSUME NEW p \in Proc, KilledWithinClaim(p)
         PROVE  LedgerInv'
    BY <1>16, KilledWithinClaimKeepsInv
  <1>17. CASE UNCHANGED vars
    <2>1. /\ attempt' = attempt /\ outcome' = outcome /\ pending' = pending
          /\ status' = status /\ cmd' = cmd /\ sent' = sent
          /\ successful' = successful /\ kills' = kills
      BY <1>17 DEF vars
    <2>2. TypeOK'
      BY <2>1 DEF LedgerInv, TypeOK
    <2>3. NothingTold
      BY <2>1 DEF NothingTold, Told
    <2>4. EveryHasEvent' /\ SentAreClosed'
      BY <2>1 DEF EveryHasEvent, SentAreClosed, HasEvent
    <2>5. QED
      BY <2>1, <2>2, <2>3, <2>4, NothingToldKeepsInv
  <1>18. QED
    BY <1>1, <1>2, <1>3, <1>4, <1>5, <1>6, <1>7, <1>8, <1>9, <1>10, <1>11, <1>12,
       <1>13, <1>14, <1>15, <1>16, <1>17 DEF Next, StageStep, FinishStep

(* The file changes in two ways only: a prepared write replaces it, wholly   *)
(* or up to its claim, or it is removed.                                     *)
LEMMA FileSteps ==
    ASSUME [Next]_vars
    PROVE  \/ /\ attempt' = attempt /\ outcome' = outcome
              /\ status' = status \/ status' = "gone"
           \/ /\ pending # None
              /\ status' = pending.status \/ (status' = "suspended" /\ pending.outcome # outcome)
              /\ attempt' = pending.attempt /\ outcome' = pending.outcome
  <1>1. ASSUME NEW p \in Proc, Commit(p)
        PROVE  /\ pending # None /\ status' = pending.status
               /\ attempt' = pending.attempt /\ outcome' = pending.outcome
    BY <1>1 DEF Commit, Holds
  <1>2. ASSUME NEW p \in Proc,
               \/ Resume(p) \/ Suspend(p) \/ StageStep(p) \/ Claim(p) \/ EndSession(p)
               \/ SendStageEvent(p) \/ Complete(p) \/ RefuseFinish(p) \/ AbandonOpen(p)
               \/ Report(p) \/ Killed(p) \/ \E o \in StageOutcome : FinishRun(p, o)
        PROVE  UNCHANGED file
    BY <1>2 DEF Resume, Suspend, StageStep, StartStage, FinishStage, Replay, Claim, EndSession,
       SendStageEvent, Complete, RefuseFinish, AbandonOpen, Report, Killed, FinishRun,
       LockedAbandon, Locked
  <1>3. ASSUME NEW p \in Proc, Finalize(p)
        PROVE  status' = "gone" /\ attempt' = attempt /\ outcome' = outcome
    BY <1>3 DEF Finalize
  <1>4. ASSUME NEW p \in Proc, KilledWithinClaim(p)
        PROVE  /\ pending # None /\ status' = "suspended" /\ pending.outcome # outcome
               /\ attempt' = pending.attempt /\ outcome' = pending.outcome
    BY <1>4 DEF KilledWithinClaim, Holds
  <1>5. CASE UNCHANGED vars
    BY <1>5 DEF vars
  <1>6. QED
    BY <1>1, <1>2, <1>3, <1>4, <1>5 DEF Next, FinishStep, file

(* The invariant always holds. *)
THEOREM LedgerInvariant == Spec => []LedgerInv
  <1>1. Init => LedgerInv
    BY LedgerInit
  <1>2. LedgerInv /\ [Next]_vars => LedgerInv'
    BY LedgerStep
  <1>3. QED
    BY <1>1, <1>2, PTL DEF Spec

(* Every field of the run file keeps its range (workflow-run-state.mjs).     *)
THEOREM TypeCorrect == Spec => []TypeOK
  <1>1. LedgerInv => TypeOK
    BY DEF LedgerInv
  <1>2. QED
    BY <1>1, LedgerInvariant, PTL

(* activeStageRun never rejects a file the program wrote for two open stages. *)
THEOREM OneOpenStage == Spec => []AtMostOneOpen
  <1>1. LedgerInv => AtMostOneOpen
    BY DEF LedgerInv, FileOK, AtMostOneOpen, IsOpen
  <1>2. QED
    BY <1>1, LedgerInvariant, PTL

(* While a stage is open its dependencies stay successful.                   *)
THEOREM OpenStagesHaveBasis == Spec => []OpenStageHasBasis
  <1>1. LedgerInv => OpenStageHasBasis
    BY DEF LedgerInv, FileOK, OpenStageHasBasis, IsOpen
  <1>2. QED
    BY <1>1, LedgerInvariant, PTL

(* No two finished events disagree on how one occurrence ended, whichever    *)
(* commands raced to close it and whichever were killed.                     *)
THEOREM OneStory == Spec => []OneStoryPerOccurrence
  <1>1. ASSUME LedgerInv, NEW e \in sent, NEW f \in sent,
               e.stage = f.stage, e.attempt = f.attempt
        PROVE  e.outcome = f.outcome
    <2>1. Told(e) /\ Told(f) /\ e \in Event /\ f \in Event
      BY <1>1 DEF LedgerInv, TypeOK, SentAreClosed, Told
    <2>2. QED
      BY <1>1, <2>1 DEF LedgerInv, EventsAgree, Agree
  <1>2. LedgerInv => OneStoryPerOccurrence
    BY <1>1 DEF OneStoryPerOccurrence
  <1>3. QED
    BY <1>2, LedgerInvariant, PTL

(* A closed occurrence never changes its outcome, and attempts count up.     *)
THEOREM OccurrencesStayFinal == Spec => OccurrencesAreFinal
  <1>1. ASSUME LedgerInv, [Next]_vars, NEW s \in Stage
        PROVE  /\ attempt'[s] \in {attempt[s], attempt[s] + 1}
               /\ outcome[s] \in ClosedOutcome /\ attempt'[s] = attempt[s]
                  => outcome'[s] = outcome[s]
    <2>1. CASE attempt' = attempt /\ outcome' = outcome
      BY <2>1
    <2>2. CASE pending # None /\ attempt' = pending.attempt /\ outcome' = pending.outcome
      BY <1>1, <2>2 DEF LedgerInv, PendingOK, Succeeds
    <2>3. QED
      BY <1>1, <2>1, <2>2, FileSteps
  <1>2. LedgerInv /\ [Next]_vars =>
          [\A s \in Stage :
              /\ attempt'[s] \in {attempt[s], attempt[s] + 1}
              /\ outcome[s] \in ClosedOutcome /\ attempt'[s] = attempt[s]
                 => outcome'[s] = outcome[s]]_vars
    BY <1>1
  <1>3. QED
    BY <1>2, LedgerInvariant, PTL DEF Spec, OccurrencesAreFinal

(* A run claimed for expiry is never resumed: any command that holds the     *)
(* lock meanwhile writes the claim back.                                     *)
THEOREM ClaimStays == Spec => ClaimIsOneWay
  <1>1. ASSUME LedgerInv, [Next]_vars, status = "abandoning"
        PROVE  status' \in {"abandoning", "gone"}
    BY <1>1, FileSteps DEF LedgerInv, PendingOK
  <1>2. QED
    BY <1>1, LedgerInvariant, PTL DEF Spec, ClaimIsOneWay
================================================================================
