----------------------------- MODULE RunLedgerProofs -----------------------------
(***************************************************************************)
(* However parks, acceptances, sweeps, routes and endings interleave and   *)
(* whatever was killed on the way, for any number of sessions and runs: a  *)
(* run's finished event carries the session that routed it, and a run that *)
(* no kill has cut in half has one file when all commands are done.        *)
(***************************************************************************)
EXTENDS RunLedger, TLAPS, FiniteSetTheorems

MaybeFile == File \union {NoFile}

(* A file names the session that routed its run; nothing is claimed of NoFile. *)
Known(f) == f # NoFile => f \in File /\ startedBy[f.run] = OriginOf(f)

FilesKnown ==
    /\ slot \in [Session -> MaybeFile]
    /\ \A s \in Session : Known(slot[s])
    /\ dir \in [Run -> SUBSET File]
    /\ \A r \in Run : \A f \in dir[r] : Known(f) /\ f.acceptance

(* A command past its choice has a file in mind, and one past its judgment   *)
(* another.                                                                  *)
Aimed == {"leaving", "reactivate", "arriving", "complete", "deliver", "remove", "drop"}
Judged == {"deliver", "remove"}
InMind(s) ==
    /\ pc[s] \in Aimed => chosen[s] # NoFile
    /\ pc[s] \in Judged => judged[s] # NoFile

CommandsKnown ==
    /\ pc \in [Session -> Steps]
    /\ why \in [Session -> Reasons]
    /\ place \in [Session -> Place]
    /\ chosen \in [Session -> MaybeFile]
    /\ judged \in [Session -> MaybeFile]
    /\ \A s \in Session : Known(chosen[s]) /\ Known(judged[s])
    /\ \A s \in Session : InMind(s)

HistoryKnown ==
    /\ startedBy \in [Run -> Session \union {NoFile}]
    /\ finished \subseteq Run \X Session
    /\ FinishedUnderOrigin
    /\ given \subseteq Run
    /\ torn \subseteq Run
    /\ kills \in 0..MaxKills

OriginInv == FilesKnown /\ CommandsKnown /\ HistoryKnown

--------------------------------------------------------------------------------
(* The session a file names is a session. *)
LEMMA OriginIsSession == \A f \in File : OriginOf(f) \in Session
  BY DEF File, OriginOf

(* A readable directory holds the file it is read as. *)
LEMMA ParkedIsThere ==
    ASSUME NEW r \in Run, Readable(r)
    PROVE  Parked(r) \in dir[r]
<1>1. dir[r] # {}
  BY FS_EmptySet DEF Readable
<1> QED
  BY <1>1 DEF Parked

(* What is known of a file stays known while nothing new is routed. *)
LEMMA KnownStays ==
    ASSUME startedBy' = startedBy
    PROVE  \A f : Known(f) <=> Known(f)'
  BY DEF Known, OriginOf

(* A command that turns to a known file is a known command. *)
LEMMA ChooseKnown ==
    ASSUME CommandsKnown, UNCHANGED startedBy,
           NEW s \in Session, NEW step \in Steps \ Judged, NEW reason \in Reasons,
           NEW p \in Place, NEW f \in MaybeFile, Known(f), step \in Aimed => f # NoFile,
           Choose(s, step, reason, p, f)
    PROVE  CommandsKnown'
<1>1. \A t \in Session : Known(chosen'[t]) /\ Known(judged'[t])
  BY DEF CommandsKnown, Choose, Known, MaybeFile
<1>2. \A t \in Session : Known(chosen[t])' /\ Known(judged[t])'
  BY <1>1 DEF Known, OriginOf
<1>3. \A t \in Session : InMind(t)'
  BY DEF CommandsKnown, Choose, Goto, InMind
<1> QED
  BY <1>2, <1>3 DEF CommandsKnown, Choose, Goto, MaybeFile

LEMMA EndKnown ==
    ASSUME CommandsKnown, UNCHANGED startedBy, NEW s \in Session, End(s)
    PROVE  CommandsKnown'
  BY ChooseKnown DEF End, Steps, Reasons, Place, MaybeFile, Known, Aimed, Judged

LEMMA GotoKnown ==
    ASSUME CommandsKnown, UNCHANGED startedBy,
           NEW s \in Session, NEW step \in Steps,
           step \in Aimed => chosen[s] # NoFile, step \in Judged => judged[s] # NoFile,
           Goto(s, step), Stay
    PROVE  CommandsKnown'
<1>1. \A t \in Session : InMind(t)'
  BY DEF CommandsKnown, Goto, Stay, InMind
<1> QED
  BY <1>1 DEF CommandsKnown, Goto, Stay, Known, OriginOf

LEMMA FilesStay == FilesKnown /\ UNCHANGED <<files, startedBy>> => FilesKnown'
  BY DEF FilesKnown, files, Known, OriginOf

LEMMA HistoryStays == HistoryKnown /\ UNCHANGED history => HistoryKnown'
  BY DEF HistoryKnown, history, FinishedUnderOrigin

(* Emptying a slot or a directory, or giving a slot a known file. *)
LEMMA SlotKnown ==
    ASSUME FilesKnown, UNCHANGED <<dir, startedBy>>,
           NEW t \in Session, NEW f \in MaybeFile, Known(f),
           slot' = [slot EXCEPT ![t] = f]
    PROVE  FilesKnown'
  BY DEF FilesKnown, Known, OriginOf, MaybeFile

LEMMA DirKnown ==
    ASSUME FilesKnown, UNCHANGED <<slot, startedBy>>,
           NEW r \in Run, NEW F \in SUBSET File, \A f \in F : Known(f) /\ f.acceptance,
           dir' = [dir EXCEPT ![r] = F]
    PROVE  FilesKnown'
  BY DEF FilesKnown, Known, OriginOf, MaybeFile

LEMMA TerminateKnown ==
    ASSUME FilesKnown, UNCHANGED startedBy, NEW t \in Session, NEW r \in Run, Terminate(t, r)
    PROVE  FilesKnown'
  BY DEF FilesKnown, Terminate, Known, OriginOf, MaybeFile

(* A new status leaves what a file names alone. *)
LEMMA StatusKnown ==
    ASSUME NEW f \in File, NEW st \in Status, Known(f)
    PROVE  /\ [f EXCEPT !.status = st] \in File
           /\ Known([f EXCEPT !.status = st])
           /\ [f EXCEPT !.status = st].acceptance = f.acceptance
<1>1. /\ [f EXCEPT !.status = st] \in File
      /\ [f EXCEPT !.status = st].acceptance = f.acceptance
      /\ [f EXCEPT !.status = st].run = f.run
      /\ [f EXCEPT !.status = st].origin = f.origin
      /\ [f EXCEPT !.status = st].by = f.by
  BY DEF File
<1>2. f # NoFile
  BY LedgerAssumption
<1> QED
  BY <1>1, <1>2 DEF Known, OriginOf

(* Parking a file keeps its origin, and so does taking a parked one up. *)
LEMMA ParkedKnown ==
    ASSUME NEW f \in File, Known(f)
    PROVE  /\ ParkedFile(f) \in File
           /\ ParkedFile(f).acceptance
           /\ Known(ParkedFile(f))
           /\ ParkedFile(f).run = f.run
<1>1. f # NoFile /\ OriginOf(f) \in Session
  BY LedgerAssumption, OriginIsSession
<1>2. /\ ParkedFile(f) \in File
      /\ ParkedFile(f).acceptance
      /\ ParkedFile(f).origin = OriginOf(f)
      /\ ParkedFile(f).run = f.run
  BY <1>1 DEF ParkedFile, File, Status
<1> QED
  BY <1>1, <1>2 DEF Known, OriginOf

LEMMA TakenUpKnown ==
    ASSUME NEW f \in File, NEW s \in Session, Known(f), f.acceptance
    PROVE  TakenUp(f, s) \in File /\ Known(TakenUp(f, s))
<1>1. f # NoFile
  BY LedgerAssumption
<1>2. /\ TakenUp(f, s) \in File
      /\ TakenUp(f, s).acceptance
      /\ TakenUp(f, s).origin = f.origin
      /\ TakenUp(f, s).run = f.run
  BY DEF TakenUp, File, Status
<1> QED
  BY <1>1, <1>2 DEF Known, OriginOf

--------------------------------------------------------------------------------
LEMMA InitKnown == Init => OriginInv
  BY LedgerAssumption
  DEF Init, OriginInv, FilesKnown, CommandsKnown, HistoryKnown, FinishedUnderOrigin,
      Known, MaybeFile, Place, Steps, Reasons, InMind, Aimed, Judged

(* A park keeps the origin an acceptance record has, and names the session   *)
(* of a run that has none.                                                   *)
LEMMA LeaveKnown ==
    ASSUME OriginInv, NEW s \in Session, NEW t \in Session,
           NEW reason \in {"draft", "route", "accept"}, Leave(s, t, reason)
    PROVE  OriginInv'
<1> DEFINE f == ParkedFile(slot[t])
           F == {g \in dir[f.run] : g.by # f.by} \union {f}
<1>1. slot[t] \in File /\ Known(slot[t])
  BY DEF OriginInv, FilesKnown, MaybeFile, Leave, IsLive
<1>2. f \in File /\ f.acceptance /\ Known(f)
  BY <1>1, ParkedKnown
<1>3. /\ dir' = [dir EXCEPT ![f.run] = F]
      /\ Choose(s, "leaving", reason, t, f)
      /\ UNCHANGED <<slot, history>>
  BY DEF Leave
<1> HIDE DEF f
<1>5. f.run \in Run /\ F \in SUBSET File /\ \A g \in F : Known(g) /\ g.acceptance
  BY <1>2 DEF OriginInv, FilesKnown, File
<1>6. FilesKnown'
  BY <1>3, <1>5, DirKnown DEF OriginInv, history
<1>7. CommandsKnown'
  BY <1>2, <1>3, ChooseKnown, LedgerAssumption
  DEF OriginInv, history, Steps, Reasons, Place, MaybeFile, Judged
<1> QED
  BY <1>3, <1>6, <1>7, HistoryStays DEF OriginInv

--------------------------------------------------------------------------------
(* One lemma per action. *)

(* A command that only turns to a known file leaves all else known. *)
LEMMA TurnKnown ==
    ASSUME OriginInv, UNCHANGED <<files, history>>, CommandsKnown'
    PROVE  OriginInv'
  BY FilesStay, HistoryStays DEF OriginInv, history

LEMMA LeftKnown ==
    ASSUME OriginInv, NEW s \in Session, Left(s)
    PROVE  OriginInv'
<1>1. chosen[s] \in File /\ Known(chosen[s]) /\ chosen[s].run \in Place
  BY DEF OriginInv, CommandsKnown, InMind, Aimed, Left, MaybeFile, File, Place
<1>2. CommandsKnown'
  <2>1. CASE End(s)
    BY <2>1, EndKnown DEF OriginInv, Left, history
  <2>2. CASE Choose(s, "route", "route", s, NoFile)
    BY <2>2, ChooseKnown
    DEF OriginInv, Left, history, Steps, Reasons, Place, MaybeFile, Known, Aimed, Judged
  <2>3. CASE Choose(s, "reactivate", "accept", chosen[s].run, chosen[s])
    BY <1>1, <2>3, ChooseKnown, LedgerAssumption
    DEF OriginInv, Left, history, Steps, Reasons, MaybeFile, Aimed, Judged
  <2> QED
    BY <2>1, <2>2, <2>3 DEF Left
<1>3. FilesKnown'
  BY DEF OriginInv, Left, FilesKnown, history, Known, OriginOf, MaybeFile
<1> QED
  BY <1>2, <1>3, HistoryStays DEF OriginInv, Left

LEMMA ReactivateKnown ==
    ASSUME OriginInv, NEW s \in Session, Reactivate(s)
    PROVE  OriginInv'
<1>1. CASE End(s) /\ UNCHANGED slot
  BY <1>1, EndKnown, TurnKnown DEF OriginInv, Reactivate, history, files
<1>2. ASSUME NEW f \in StillParked(s),
             slot' = [slot EXCEPT ![s] = TakenUp(f, s)],
             Choose(s, "arriving", "accept", f.run, f)
      PROVE  OriginInv'
  <2>1. chosen[s].run \in Run
    BY DEF OriginInv, CommandsKnown, InMind, Aimed, Reactivate, MaybeFile, File
  <2>2. f \in File /\ Known(f) /\ f.acceptance /\ f.run \in Place
    BY <2>1 DEF StillParked, OriginInv, FilesKnown, File, Place
  <2>3. FilesKnown'
    BY <1>2, <2>2, TakenUpKnown, SlotKnown DEF Reactivate, OriginInv, history, MaybeFile
  <2>4. CommandsKnown'
    BY <1>2, <2>2, ChooseKnown, LedgerAssumption
    DEF Reactivate, OriginInv, history, Steps, Reasons, MaybeFile, Judged
  <2> QED
    BY <2>3, <2>4, HistoryStays DEF OriginInv, Reactivate
<1> QED
  BY <1>1, <1>2 DEF Reactivate

LEMMA ArrivedKnown ==
    ASSUME OriginInv, NEW s \in Session, Arrived(s)
    PROVE  OriginInv'
<1>1. FilesKnown'
  BY DEF OriginInv, Arrived, FilesKnown, history, Known, OriginOf, MaybeFile
<1>2. CommandsKnown'
  BY EndKnown DEF OriginInv, Arrived, history
<1> QED
  BY <1>1, <1>2, HistoryStays DEF OriginInv, Arrived

LEMMA AcceptKnown ==
    ASSUME OriginInv, NEW s \in Session, Accept(s)
    PROVE  OriginInv'
<1>1. ASSUME NEW r \in Run, Readable(r),
             Choose(s, "reactivate", "accept", r, Parked(r)), UNCHANGED <<files, history>>
      PROVE  OriginInv'
  <2>1. Parked(r) \in File /\ Known(Parked(r))
    BY <1>1, ParkedIsThere DEF OriginInv, FilesKnown
  <2> HIDE DEF Parked
  <2>2. CommandsKnown'
    BY <1>1, <2>1, ChooseKnown, LedgerAssumption
    DEF OriginInv, history, Steps, Reasons, Place, MaybeFile, Judged
  <2> QED
    BY <1>1, <2>2, TurnKnown
<1>2. ASSUME NEW t \in Session, Leave(s, t, "accept")
      PROVE  OriginInv'
  BY <1>2, LeaveKnown
<1> QED
  BY <1>1, <1>2 DEF Accept

(* A session goes, or comes back: the status of its file is another. *)
LEMMA PresenceKnown ==
    ASSUME OriginInv, NEW s \in Session, Suspend(s) \/ Resume(s)
    PROVE  OriginInv'
<1>1. PICK st \in Status : slot' = [slot EXCEPT ![s].status = st]
  BY DEF Suspend, Resume, Status
<1>2. slot[s] \in File /\ Known(slot[s])
  BY DEF OriginInv, FilesKnown, MaybeFile, Suspend, Resume, IsActive, IsLive
<1>3. slot' = [slot EXCEPT ![s] = [slot[s] EXCEPT !.status = st]]
  BY <1>1 DEF OriginInv, FilesKnown
<1>4. UNCHANGED <<dir, command, history>>
  BY DEF Suspend, Resume
<1>5. FilesKnown'
  BY <1>2, <1>3, <1>4, StatusKnown, SlotKnown DEF OriginInv, MaybeFile, history
<1>6. CommandsKnown'
  BY <1>4 DEF OriginInv, CommandsKnown, command, history, Known, OriginOf, InMind
<1> QED
  BY <1>4, <1>5, <1>6, HistoryStays DEF OriginInv

LEMMA RouteKnown ==
    ASSUME OriginInv, NEW s \in Session, Route(s)
    PROVE  OriginInv'
<1>1. CASE Leave(s, s, "route")
  BY <1>1, LeaveKnown
<1>2. CASE Choose(s, "route", "route", s, NoFile) /\ UNCHANGED <<files, history>>
  BY <1>2, ChooseKnown, TurnKnown
  DEF OriginInv, history, Steps, Reasons, Place, MaybeFile, Known, Aimed, Judged
<1> QED
  BY <1>1, <1>2 DEF Route

LEMMA CheckSlotKnown ==
    ASSUME OriginInv, NEW s \in Session, CheckSlot(s)
    PROVE  OriginInv'
<1>1. CASE End(s)
  BY <1>1, EndKnown, TurnKnown DEF OriginInv, CheckSlot, history
<1>2. CASE Goto(s, "start") /\ Stay
  BY <1>2, GotoKnown, TurnKnown DEF OriginInv, CheckSlot, history, Steps, Aimed, Judged
<1> QED
  BY <1>1, <1>2 DEF CheckSlot

(* A run is routed once: no file and no event knows it before. *)
LEMMA StartKnown ==
    ASSUME OriginInv, NEW s \in Session, Start(s)
    PROVE  OriginInv'
<1>1. PICK r \in Run :
        /\ startedBy[r] = NoFile
        /\ startedBy' = [startedBy EXCEPT ![r] = s]
        /\ slot' = [slot EXCEPT ![s] = [run |-> r, by |-> s, origin |-> s,
                                        status |-> "active", acceptance |-> FALSE]]
  BY DEF Start
<1> DEFINE new == [run |-> r, by |-> s, origin |-> s, status |-> "active", acceptance |-> FALSE]
<1>2. NoFile \notin Session /\ NoFile \notin File
  BY LedgerAssumption
<1>3. new \in File /\ new.run = r /\ OriginOf(new) = s
  BY DEF File, Status, OriginOf
<1>4. startedBy \in [Run -> Session \union {NoFile}] /\ startedBy'[r] = s
  BY <1>1 DEF OriginInv, HistoryKnown
<1>5. Known(new)'
  BY <1>3, <1>4 DEF Known, OriginOf
<1>6. ASSUME NEW f \in MaybeFile, Known(f)
      PROVE  Known(f)'
  <2>1. CASE f = NoFile
    BY <2>1 DEF Known
  <2>2. CASE f \in File
    <3>1. f # NoFile /\ f.run \in Run /\ startedBy[f.run] = OriginOf(f) /\ OriginOf(f) \in Session
      BY <1>2, <1>6, <2>2, OriginIsSession DEF Known, File
    <3>2. startedBy'[f.run] = OriginOf(f)
      BY <1>1, <1>2, <1>4, <3>1
    <3> QED
      BY <2>2, <3>2 DEF Known, OriginOf
  <2> QED
    BY <2>1, <2>2 DEF MaybeFile
<1> HIDE DEF new
<1>7. FilesKnown'
  <2>1. slot' = [slot EXCEPT ![s] = new] /\ dir' = dir
    BY <1>1 DEF Start, new
  <2>2. /\ slot \in [Session -> MaybeFile] /\ dir \in [Run -> SUBSET File]
        /\ \A t \in Session : Known(slot[t])
        /\ \A q \in Run : \A f \in dir[q] : Known(f) /\ f.acceptance
    BY DEF OriginInv, FilesKnown
  <2>3. slot' \in [Session -> MaybeFile]
    BY <1>3, <2>1, <2>2 DEF MaybeFile
  <2>4. ASSUME NEW t \in Session PROVE Known(slot[t])'
    <3>1. CASE t = s
      <4>1. slot'[t] = new
        BY <2>1, <2>2, <3>1
      <4> QED
        BY <1>5, <4>1 DEF Known, OriginOf, new
    <3>2. CASE t # s
      <4>1. slot'[t] = slot[t] /\ slot[t] \in MaybeFile /\ Known(slot[t])
        BY <2>1, <2>2, <3>2
      <4>2. slot[t] # NoFile =>
              slot[t] \in File /\ startedBy'[slot[t].run] = OriginOf(slot[t])
        <5> DEFINE f == slot[t]
        <5>1. f \in MaybeFile /\ Known(f)
          BY <4>1
        <5> QED
          BY <4>1, <1>6 DEF Known, OriginOf
      <4> QED
        BY <4>1, <4>2 DEF Known, OriginOf
    <3> QED
      BY <3>1, <3>2
  <2>5. ASSUME NEW q \in Run, NEW f \in dir[q] PROVE Known(f)' /\ f.acceptance
    BY <1>6, <2>2 DEF MaybeFile
  <2> QED
    BY <2>1, <2>2, <2>3, <2>4, <2>5 DEF FilesKnown
<1>8. CommandsKnown'
  <2>1. /\ pc' = [pc EXCEPT ![s] = "sweep"]
        /\ UNCHANGED <<why, place, chosen, judged>>
    BY DEF Start, Goto, Stay
  <2>2. ASSUME NEW t \in Session
        PROVE  Known(chosen[t])' /\ Known(judged[t])' /\ InMind(t)'
    <3>1. /\ chosen[t] \in MaybeFile /\ Known(chosen[t])
          /\ judged[t] \in MaybeFile /\ Known(judged[t])
      BY DEF OriginInv, CommandsKnown
    <3>2. /\ chosen[t] # NoFile =>
                chosen[t] \in File /\ startedBy'[chosen[t].run] = OriginOf(chosen[t])
          /\ judged[t] # NoFile =>
                judged[t] \in File /\ startedBy'[judged[t].run] = OriginOf(judged[t])
      BY <3>1, <1>6 DEF Known, OriginOf
    <3>3. InMind(t)'
      BY <2>1 DEF OriginInv, CommandsKnown, InMind, Aimed, Judged
    <3> QED
      BY <2>1, <3>2, <3>3 DEF Known, OriginOf
  <2> QED
    BY <2>1, <2>2 DEF OriginInv, CommandsKnown, Steps
<1>9. HistoryKnown'
  BY <1>1, <1>2 DEF OriginInv, HistoryKnown, FinishedUnderOrigin, Start
<1> QED
  BY <1>7, <1>8, <1>9 DEF OriginInv

(* A claim changes the status of a file, and the sweep has that file in mind. *)
LEMMA ClaimSlotKnown ==
    ASSUME OriginInv, NEW s \in Session, NEW t \in Session, ClaimSlot(s, t)
    PROVE  OriginInv'
<1> DEFINE f == [slot[t] EXCEPT !.status = "abandoning"]
<1>1. slot[t] \in File /\ Known(slot[t])
  BY DEF OriginInv, FilesKnown, MaybeFile, ClaimSlot
<1>2. f \in File /\ Known(f)
  BY <1>1, StatusKnown DEF Status
<1>3. slot' = [slot EXCEPT ![t] = f] /\ slot'[t] = f
  BY DEF ClaimSlot, OriginInv, FilesKnown
<1>4. Choose(s, "complete", "sweep", t, f) /\ UNCHANGED <<dir, history>>
  BY <1>3 DEF ClaimSlot
<1> HIDE DEF f
<1>5. FilesKnown'
  BY <1>2, <1>3, <1>4, SlotKnown DEF OriginInv, MaybeFile, history
<1>6. CommandsKnown'
  BY <1>2, <1>4, ChooseKnown, LedgerAssumption
  DEF OriginInv, history, Steps, Reasons, Place, MaybeFile, Judged
<1> QED
  BY <1>4, <1>5, <1>6, HistoryStays DEF OriginInv

LEMMA ClaimDirKnown ==
    ASSUME OriginInv, NEW s \in Session, NEW r \in Run, ClaimDir(s, r)
    PROVE  OriginInv'
<1> DEFINE f == [Parked(r) EXCEPT !.status = "abandoning"]
<1>1. Parked(r) \in File /\ Known(Parked(r)) /\ Parked(r).acceptance
  BY ParkedIsThere DEF OriginInv, FilesKnown, ClaimDir
<1>2. f \in File /\ Known(f) /\ f.acceptance
  BY <1>1, StatusKnown DEF Status
<1>3. /\ dir' = [dir EXCEPT ![r] = {f}]
      /\ Choose(s, "complete", "sweep", r, f)
      /\ UNCHANGED <<slot, history>>
  BY DEF ClaimDir
<1> HIDE DEF f
<1>5. FilesKnown'
  BY <1>2, <1>3, DirKnown DEF OriginInv, history
<1>6. CommandsKnown'
  BY <1>2, <1>3, ChooseKnown, LedgerAssumption
  DEF OriginInv, history, Steps, Reasons, Place, MaybeFile, Judged
<1> QED
  BY <1>3, <1>5, <1>6, HistoryStays DEF OriginInv

LEMMA SweepKnown ==
    ASSUME OriginInv, NEW s \in Session, Sweep(s)
    PROVE  OriginInv'
<1>1. CASE End(s) /\ UNCHANGED <<files, history>>
  BY <1>1, EndKnown, TurnKnown DEF OriginInv, history
<1> QED
  BY <1>1, ClaimSlotKnown, ClaimDirKnown DEF Sweep

(* A command chooses the run it is to end, where that run is now. *)
LEMMA ChoosesToEnd ==
    ASSUME OriginInv, NEW s \in Session, Finish(s) \/ FinishAccepted(s)
    PROVE  OriginInv'
<1>1. PICK reason \in {"finish", "accepted"} :
        /\ slot[s] # NoFile
        /\ Choose(s, "complete", reason, s, slot[s])
        /\ UNCHANGED <<files, history>>
  BY DEF Finish, FinishAccepted, IsActive
<1>2. slot[s] \in MaybeFile /\ Known(slot[s])
  BY DEF OriginInv, FilesKnown
<1>3. CommandsKnown'
  BY <1>1, <1>2, ChooseKnown DEF OriginInv, history, Steps, Reasons, Place, Judged
<1> QED
  BY <1>1, <1>3, TurnKnown

LEMMA AbandonKnown ==
    ASSUME OriginInv, NEW s \in Session, Abandon(s)
    PROVE  OriginInv'
<1>1. PICK p \in Place, f \in File : Known(f) /\ Choose(s, "complete", "abandon", p, f)
  <2>1. CASE IsActive(s) /\ Choose(s, "complete", "abandon", s, slot[s])
    <3>1. slot[s] \in File /\ Known(slot[s]) /\ s \in Place
      BY <2>1 DEF OriginInv, FilesKnown, MaybeFile, IsActive, Place
    <3> QED
      BY <2>1, <3>1
  <2>2. ASSUME NEW r \in Run, Readable(r),
               Choose(s, "complete", "abandon", r, Parked(r))
        PROVE  \E p \in Place, f \in File :
                  Known(f) /\ Choose(s, "complete", "abandon", p, f)
    <3>1. Parked(r) \in File /\ Known(Parked(r)) /\ r \in Place
      BY <2>2, ParkedIsThere DEF OriginInv, FilesKnown, Place
    <3> QED
      BY <2>2, <3>1
  <2> QED
    BY <2>1, <2>2 DEF Abandon
<1>2. UNCHANGED <<files, startedBy, finished, torn, kills>>
  BY DEF Abandon
<1>3. CommandsKnown'
  BY <1>1, <1>2, ChooseKnown, LedgerAssumption DEF OriginInv, Steps, Reasons, MaybeFile, Judged
<1>4. chosen'[s] \in File
  BY <1>1 DEF OriginInv, CommandsKnown, Choose
<1>5. given' \subseteq Run
  BY <1>4 DEF Abandon, OriginInv, HistoryKnown, File
<1>6. HistoryKnown'
  BY <1>2, <1>5 DEF OriginInv, HistoryKnown, FinishedUnderOrigin
<1> QED
  BY <1>2, <1>3, <1>6, FilesStay DEF OriginInv

(* What a finish is judged on is a known file. *)
LEMMA CompleteKnown ==
    ASSUME OriginInv, NEW s \in Session, Complete(s)
    PROVE  OriginInv'
<1>1. PICK f \in Found(s) : judged' = [judged EXCEPT ![s] = f]
  BY DEF Complete
<1>2. f \in File /\ Known(f)
  <2>1. CASE place[s] \in Session
    BY <2>1 DEF Found, OriginInv, FilesKnown, MaybeFile
  <2>2. CASE place[s] \notin Session
    <3>1. place[s] \in Run
      BY <2>2 DEF OriginInv, CommandsKnown, Place
    <3> QED
      BY <2>2, <3>1 DEF Found, OriginInv, FilesKnown
  <2> QED
    BY <2>1, <2>2
<1>3. /\ pc[s] = "complete" /\ pc' = [pc EXCEPT ![s] = "deliver"]
      /\ UNCHANGED <<files, why, place, chosen, history>>
  BY DEF Complete, Goto
<1>4. \A t \in Session : Known(chosen'[t]) /\ Known(judged'[t])
  BY <1>1, <1>2, <1>3 DEF OriginInv, CommandsKnown
<1>5. \A t \in Session : Known(chosen[t])' /\ Known(judged[t])'
  BY <1>3, <1>4 DEF Known, OriginOf, history
<1>6. \A t \in Session : InMind(t)'
  BY <1>1, <1>2, <1>3, LedgerAssumption
  DEF OriginInv, CommandsKnown, InMind, Aimed, Judged
<1>7. CommandsKnown'
  BY <1>1, <1>2, <1>3, <1>5, <1>6 DEF OriginInv, CommandsKnown, Steps, MaybeFile
<1> QED
  BY <1>3, <1>7, TurnKnown

LEMMA NothingToFinishKnown ==
    ASSUME OriginInv, NEW s \in Session, NothingToFinish(s)
    PROVE  OriginInv'
<1>1. CASE End(s)
  BY <1>1, EndKnown, TurnKnown DEF OriginInv, NothingToFinish, history
<1>2. ASSUME NEW step \in {"drop", "sweep"}, Goto(s, step), Stay
      PROVE  OriginInv'
  <2>1. chosen[s] # NoFile
    BY DEF OriginInv, CommandsKnown, InMind, Aimed, NothingToFinish
  <2>2. CommandsKnown'
    BY <1>2, <2>1, GotoKnown DEF OriginInv, NothingToFinish, history, Steps, Judged
  <2> QED
    BY <2>2, TurnKnown DEF NothingToFinish
<1> QED
  BY <1>1, <1>2 DEF NothingToFinish

(* The event of a known file carries the session that routed its run. *)
LEMMA DeliverKnown ==
    ASSUME OriginInv, NEW s \in Session, Deliver(s)
    PROVE  OriginInv'
<1>1. /\ judged[s] \in File
      /\ chosen[s] # NoFile
      /\ startedBy[judged[s].run] = OriginOf(judged[s])
  BY DEF OriginInv, CommandsKnown, InMind, Aimed, Judged, Deliver, MaybeFile, Known
<1>2. judged[s].run \in Run /\ OriginOf(judged[s]) \in Session
  BY <1>1, OriginIsSession DEF File
<1>3. CommandsKnown'
  BY <1>1, GotoKnown DEF OriginInv, Deliver, Steps, Aimed, Judged, InMind, MaybeFile,
     CommandsKnown
<1>4. finished' \subseteq Run \X Session /\ FinishedUnderOrigin'
  BY <1>1, <1>2 DEF OriginInv, HistoryKnown, FinishedUnderOrigin, Deliver
<1> QED
  BY <1>3, <1>4, FilesStay DEF OriginInv, HistoryKnown, Deliver

LEMMA EndedKnown ==
    ASSUME CommandsKnown, UNCHANGED startedBy, NEW s \in Session, Ended(s)
    PROVE  CommandsKnown'
<1>1. CASE Choose(s, "sweep", "route", s, NoFile)
  BY <1>1, ChooseKnown DEF Steps, Reasons, Place, MaybeFile, Known, Aimed, Judged
<1> QED
  BY <1>1, EndKnown DEF Ended

LEMMA RemoveKnown ==
    ASSUME OriginInv, NEW s \in Session, Remove(s)
    PROVE  OriginInv'
<1>1. judged[s].by \in Session /\ judged[s].run \in Run
  BY DEF OriginInv, CommandsKnown, InMind, Judged, Remove, MaybeFile, File
<1>2. UNCHANGED files \/ Terminate(judged[s].by, judged[s].run)
  BY DEF Remove
<1>3. Ended(s) /\ UNCHANGED history
  BY DEF Remove
<1>4. FilesKnown'
  BY <1>1, <1>2, <1>3, FilesStay, TerminateKnown DEF OriginInv, history
<1>5. CommandsKnown'
  BY <1>3, EndedKnown DEF OriginInv, history
<1> QED
  BY <1>3, <1>4, <1>5, HistoryStays DEF OriginInv

LEMMA DropKnown ==
    ASSUME OriginInv, NEW s \in Session, Drop(s)
    PROVE  OriginInv'
<1>1. chosen[s].by \in Session /\ chosen[s].run \in Run
  BY DEF OriginInv, CommandsKnown, InMind, Aimed, Drop, MaybeFile, File
<1>2. FilesKnown'
  BY <1>1, TerminateKnown DEF OriginInv, Drop, history
<1>3. CommandsKnown'
  BY EndedKnown DEF OriginInv, Drop, history
<1> QED
  BY <1>2, <1>3, HistoryStays DEF OriginInv, Drop

LEMMA KilledKnown ==
    ASSUME OriginInv, NEW s \in Session, Killed(s)
    PROVE  OriginInv'
<1>1. pc[s] \in {"leaving", "arriving"} => chosen[s].run \in Run
  BY DEF OriginInv, CommandsKnown, InMind, Aimed, MaybeFile, File
<1>2. torn' \subseteq Run /\ kills' \in 0..MaxKills
  BY <1>1, LedgerAssumption DEF OriginInv, HistoryKnown, Killed
<1>3. CommandsKnown'
  BY EndKnown DEF OriginInv, Killed
<1>4. HistoryKnown'
  BY <1>2 DEF OriginInv, HistoryKnown, FinishedUnderOrigin, Killed
<1> QED
  BY <1>3, <1>4, FilesStay DEF OriginInv, Killed

--------------------------------------------------------------------------------
LEMMA StepKnown == OriginInv /\ [Next]_vars => OriginInv'
<1> SUFFICES ASSUME OriginInv, [Next]_vars
             PROVE  OriginInv'
  OBVIOUS
<1>1. CASE UNCHANGED vars
  <2>1. UNCHANGED <<files, history>> /\ UNCHANGED command
    BY <1>1 DEF vars
  <2>2. CommandsKnown'
    BY <2>1 DEF OriginInv, CommandsKnown, command, history, Known, OriginOf, InMind
  <2> QED
    BY <2>1, <2>2, TurnKnown
<1>2. ASSUME NEW s \in Session, Move(s)
      PROVE  OriginInv'
  BY <1>2, LeftKnown, ReactivateKnown, ArrivedKnown, AcceptKnown, LeaveKnown
  DEF Move, DeliverDraft
<1>3. ASSUME NEW s \in Session, Routing(s)
      PROVE  OriginInv'
  BY <1>3, RouteKnown, CheckSlotKnown, StartKnown, SweepKnown DEF Routing
<1>4. ASSUME NEW s \in Session, Ending(s)
      PROVE  OriginInv'
  BY <1>4, ChoosesToEnd, AbandonKnown, CompleteKnown, NothingToFinishKnown, DeliverKnown,
     RemoveKnown, DropKnown DEF Ending
<1> QED
  BY <1>1, <1>2, <1>3, <1>4, PresenceKnown, KilledKnown DEF Next

(* Every file, wherever a run has been, names the session that routed its    *)
(* run, and so does every file a command has in mind.                        *)
THEOREM OriginInvariant == Spec => []OriginInv
  BY InitKnown, StepKnown, PTL DEF Spec

(* Whoever ends a run, its finished event carries the session that routed it *)
(* (parkWorkflowRun and reactivateLocked keep originalSessionId).            *)
THEOREM OriginIsKept == Spec => []FinishedUnderOrigin
<1>1. OriginInv => FinishedUnderOrigin
  BY DEF OriginInv, HistoryKnown
<1> QED
  BY <1>1, OriginInvariant, PTL

(* The variables keep their types. *)
THEOREM TypeCorrect == Spec => []TypeOK
<1>1. OriginInv => TypeOK
  BY DEF OriginInv, FilesKnown, CommandsKnown, HistoryKnown, TypeOK, MaybeFile
<1> QED
  BY <1>1, OriginInvariant, PTL

--------------------------------------------------------------------------------
(* Where the files of a run are.                                             *)

(* A command is moving run r out of slot t; a command is moving r into u;    *)
(* r is in slot t to stay.                                                   *)
Leaving(t, r) == \E s \in Session : pc[s] = "leaving" /\ place[s] = t /\ chosen[s].run = r
Arriving(u, r) == pc[u] = "arriving" /\ chosen[u].run = r
Stays(t, r) == Holds(t, r) /\ ~Leaving(t, r)

(* A run stays in one place: a slot, or its directory unless it is being     *)
(* moved out of it, and then only the slot it is moved to still counts.      *)
HomeOf(r) ==
    /\ \A t, u \in Session : Stays(t, r) /\ Stays(u, r) => t = u
    /\ \A f, g \in dir[r] : f = g
    /\ dir[r] # {} => (\E u \in Session : Arriving(u, r)) \/ \A t \in Session : ~Stays(t, r)
    /\ \A u \in Session : Arriving(u, r) =>
         /\ dir[r] # {} => Holds(u, r)
         /\ \A t \in Session \ {u} : ~Stays(t, r)

(* A slot is locked by one move, and a directory holds its own run.          *)
Locks == \A s, u \in Session : pc[s] = "leaving" /\ pc[u] = "arriving" => place[s] # u
OwnDir == \A r \in Run : \A f \in dir[r] : f.run = r

HomeInv == Locks /\ OwnDir /\ \A r \in Run \ torn : HomeOf(r)

Moving == {"leaving", "arriving"}

--------------------------------------------------------------------------------
(* A step after which fewer copies of a run stay where they are.           *)
LEMMA Fewer ==
    ASSUME NEW r \in Run, HomeOf(r),
           \A t \in Session : Stays(t, r)' => Stays(t, r),
           \A f, g \in dir'[r] : f = g,
           dir'[r] # {} => dir[r] # {},
           \A u \in Session : Arriving(u, r)' => Arriving(u, r) /\ (dir'[r] # {} => Holds(u, r)'),
           \A u \in Session : dir'[r] # {} /\ Arriving(u, r) => Arriving(u, r)'
    PROVE  HomeOf(r)'
<1>1. \A t, u \in Session : Stays(t, r)' /\ Stays(u, r)' => t = u
  BY DEF HomeOf
<1>2. dir'[r] # {} => (\E u \in Session : Arriving(u, r)') \/ \A t \in Session : ~Stays(t, r)'
  BY DEF HomeOf
<1>3. \A u \in Session : Arriving(u, r)' =>
        /\ dir'[r] # {} => Holds(u, r)'
        /\ \A t \in Session \ {u} : ~Stays(t, r)'
  BY DEF HomeOf
<1> QED
  BY <1>1, <1>2, <1>3 DEF HomeOf

(* Only s does something, and it neither ends nor begins a move of r.      *)
Alone(s) ==
    \A d \in Session \ {s} : pc'[d] = pc[d] /\ place'[d] = place[d] /\ chosen'[d] = chosen[d]
Apart(s, r) ==
    /\ Alone(s)
    /\ pc[s] \in Moving => chosen[s].run # r
    /\ pc'[s] \in Moving => chosen'[s].run # r

LEMMA ApartMovesNothing ==
    ASSUME NEW s \in Session, NEW r \in Run, Apart(s, r)
    PROVE  /\ \A t \in Session : Leaving(t, r)' <=> Leaving(t, r)
           /\ \A u \in Session : Arriving(u, r)' <=> Arriving(u, r)
<1>1. \A t \in Session : Leaving(t, r)' <=> Leaving(t, r)
  BY DEF Apart, Alone, Leaving, Moving
<1>2. \A u \in Session : Arriving(u, r)' <=> Arriving(u, r)
  BY DEF Apart, Alone, Arriving, Moving
<1> QED
  BY <1>1, <1>2

(* Files of r go, or are written anew where they are.                      *)
Loses(r) ==
    /\ \A t \in Session : Holds(t, r)' => Holds(t, r)
    /\ dir'[r] = {} \/ (\A u \in Session : Arriving(u, r) /\ Holds(u, r) => Holds(u, r)')
    /\ dir'[r] # {} => dir[r] # {}
    /\ \A f, g \in dir'[r] : f = g

LEMMA ApartLoses ==
    ASSUME NEW s \in Session, NEW r \in Run, Apart(s, r), HomeOf(r), Loses(r)
    PROVE  HomeOf(r)'
<1>1. \A t \in Session : Stays(t, r)' => Stays(t, r)
  BY ApartMovesNothing DEF Stays, Loses
<1>2. \A u \in Session : Arriving(u, r)' => Arriving(u, r) /\ (dir'[r] # {} => Holds(u, r)')
  BY ApartMovesNothing DEF HomeOf, Loses
<1>3. \A u \in Session : dir'[r] # {} /\ Arriving(u, r) => Arriving(u, r)'
  BY ApartMovesNothing
<1> QED
  BY <1>1, <1>2, <1>3, Fewer DEF Loses

LEMMA SameFilesLose ==
    ASSUME UNCHANGED files, NEW r \in Run, HomeOf(r)
    PROVE  Loses(r)
  BY DEF files, HomeOf, Loses, Holds

(* A step of a command that is in no move and begins none.                 *)
Aside(s) == Alone(s) /\ pc[s] \notin Moving /\ pc'[s] \notin Moving

LEMMA AsideKeepsLocks ==
    ASSUME NEW s \in Session, Aside(s), Locks
    PROVE  Locks'
<1>1. \A d \in Session : pc'[d] \in Moving => pc[d] = pc'[d] /\ place'[d] = place[d]
  BY DEF Aside, Alone
<1> QED
  BY <1>1 DEF Locks, Moving

(* It is enough that every run loses and directories keep their own.       *)
LEMMA AsideStep ==
    ASSUME NEW s \in Session, Aside(s), HomeInv, OwnDir', torn \subseteq torn',
           \A r \in Run \ torn : Loses(r)
    PROVE  HomeInv'
<1>1. Locks'
  BY AsideKeepsLocks DEF HomeInv
<1>2. ASSUME NEW r \in Run \ torn' PROVE HomeOf(r)'
  <2>1. Apart(s, r) /\ HomeOf(r) /\ Loses(r)
    BY DEF Aside, Apart, HomeInv
  <2> QED BY <2>1, ApartLoses
<1> QED
  BY <1>1, <1>2 DEF HomeInv

LEMMA AsideSameFiles ==
    ASSUME NEW s \in Session, Aside(s), HomeInv, UNCHANGED files, torn \subseteq torn'
    PROVE  HomeInv'
<1>1. OwnDir'
  BY DEF HomeInv, OwnDir, files
<1>2. \A r \in Run \ torn : Loses(r)
  BY SameFilesLose DEF HomeInv
<1> QED
  BY <1>1, <1>2, AsideStep

--------------------------------------------------------------------------------
(* Nobody but the command itself changes what it has in mind.              *)
LEMMA ChooseAlone ==
    ASSUME CommandsKnown, NEW s \in Session, NEW step \in Steps, NEW reason, NEW p, NEW f,
           Choose(s, step, reason, p, f)
    PROVE  Alone(s) /\ pc'[s] = step /\ place'[s] = p /\ chosen'[s] = f
  BY DEF CommandsKnown, Choose, Goto, Alone

LEMMA GotoAlone ==
    ASSUME CommandsKnown, NEW s \in Session, NEW step \in Steps, Goto(s, step),
           UNCHANGED <<place, chosen>>
    PROVE  Alone(s) /\ pc'[s] = step
  BY DEF CommandsKnown, Goto, Alone

LEMMA ChooseAside ==
    ASSUME CommandsKnown, NEW s \in Session, NEW step \in Steps \ Moving,
           NEW reason, NEW p, NEW f, Choose(s, step, reason, p, f), pc[s] \notin Moving
    PROVE  Aside(s)
  BY ChooseAlone DEF Aside

LEMMA GotoAside ==
    ASSUME CommandsKnown, NEW s \in Session, NEW step \in Steps \ Moving, Goto(s, step),
           UNCHANGED <<place, chosen>>, pc[s] \notin Moving
    PROVE  Aside(s)
  BY GotoAlone DEF Aside

LEMMA EndAside ==
    ASSUME CommandsKnown, NEW s \in Session, End(s), pc[s] \notin Moving
    PROVE  Aside(s)
  BY ChooseAside DEF End, Steps, Moving

LEMMA EndedAside ==
    ASSUME CommandsKnown, NEW s \in Session, Ended(s), pc[s] \notin Moving
    PROVE  Aside(s)
  BY EndAside, ChooseAside DEF Ended, Steps, Moving

--------------------------------------------------------------------------------
(* Steps that touch no file. *)
LEMMA QuietAccept ==
    ASSUME OriginInv, HomeInv, NEW s \in Session, pc[s] = "idle", UNCHANGED <<files, history>>,
           NEW r \in Run, Choose(s, "reactivate", "accept", r, Parked(r))
    PROVE  HomeInv'
  BY ChooseAside, AsideSameFiles DEF OriginInv, Steps, Moving, history

LEMMA QuietRoute ==
    ASSUME OriginInv, HomeInv, NEW s \in Session, pc[s] = "idle", UNCHANGED <<files, history>>,
           Choose(s, "route", "route", s, NoFile)
    PROVE  HomeInv'
  BY ChooseAside, AsideSameFiles DEF OriginInv, Steps, Moving, history

LEMMA QuietCheckSlot ==
    ASSUME OriginInv, HomeInv, NEW s \in Session, CheckSlot(s)
    PROVE  HomeInv'
<1>1. Aside(s)
  BY EndAside, GotoAside DEF CheckSlot, Stay, OriginInv, Steps, Moving
<1> QED
  BY <1>1, AsideSameFiles DEF CheckSlot, history

LEMMA QuietSweep ==
    ASSUME OriginInv, HomeInv, NEW s \in Session, pc[s] = "sweep", End(s),
           UNCHANGED <<files, history>>
    PROVE  HomeInv'
  BY EndAside, AsideSameFiles DEF OriginInv, Moving, history

LEMMA QuietChoice ==
    ASSUME OriginInv, HomeInv, NEW s \in Session, Finish(s) \/ FinishAccepted(s) \/ Abandon(s)
    PROVE  HomeInv'
<1>1. PICK reason, p, f : Choose(s, "complete", reason, p, f)
  BY DEF Finish, FinishAccepted, Abandon
<1>2. pc[s] = "idle" /\ UNCHANGED files /\ torn' = torn
  BY DEF Finish, FinishAccepted, Abandon, history
<1>3. Aside(s)
  BY <1>1, <1>2, ChooseAside DEF OriginInv, Steps, Moving
<1> QED
  BY <1>2, <1>3, AsideSameFiles

LEMMA QuietEnding ==
    ASSUME OriginInv, HomeInv, NEW s \in Session,
           Complete(s) \/ NothingToFinish(s) \/ Deliver(s)
    PROVE  HomeInv'
<1>1. Aside(s)
  <2>1. CASE Complete(s)
    BY <2>1, GotoAside DEF Complete, OriginInv, Steps, Moving
  <2>2. CASE NothingToFinish(s)
    BY <2>2, GotoAside, EndAside DEF NothingToFinish, Stay, OriginInv, Steps, Moving
  <2>3. CASE Deliver(s)
    BY <2>3, GotoAside DEF Deliver, Stay, OriginInv, Steps, Moving
  <2> QED
    BY <2>1, <2>2, <2>3
<1>2. UNCHANGED files /\ torn' = torn
  BY DEF Complete, NothingToFinish, Deliver, history
<1> QED
  BY <1>1, <1>2, AsideSameFiles

--------------------------------------------------------------------------------
(* Steps that write or remove a file where it is. *)

(* A file with another status is a file of the same run.                   *)
LEMMA StatusHolds ==
    ASSUME FilesKnown, NEW t \in Session, slot[t] # NoFile, NEW st \in Status,
           slot' = [slot EXCEPT ![t].status = st]
    PROVE  \A u \in Session, r \in Run : Holds(u, r)' <=> Holds(u, r)
<1>1. slot[t] \in File
  BY DEF FilesKnown, MaybeFile
<1> DEFINE f == [slot[t] EXCEPT !.status = st]
<1>2. f.run = slot[t].run /\ f \in File
  BY <1>1 DEF File
<1>3. f # NoFile
  BY <1>2, LedgerAssumption
<1>4. slot' = [slot EXCEPT ![t] = f]
  BY DEF FilesKnown
<1> HIDE DEF f
<1>5. \A u \in Session : slot'[u] = IF u = t THEN f ELSE slot[u]
  BY <1>4 DEF FilesKnown
<1> QED
  BY <1>2, <1>3, <1>5 DEF Holds

LEMMA StatusHome ==
    ASSUME OriginInv, HomeInv, NEW s \in Session, Aside(s), NEW t \in Session,
           slot[t] # NoFile, NEW st \in Status, slot' = [slot EXCEPT ![t].status = st],
           UNCHANGED <<dir, torn>>
    PROVE  HomeInv'
<1>1. OwnDir'
  BY DEF HomeInv, OwnDir
<1>2. \A r \in Run \ torn : Loses(r)
  BY StatusHolds DEF OriginInv, HomeInv, HomeOf, Loses
<1> QED
  BY <1>1, <1>2, AsideStep

LEMMA PresenceHome ==
    ASSUME OriginInv, HomeInv, NEW s \in Session, Suspend(s) \/ Resume(s)
    PROVE  HomeInv'
<1>1. PICK st \in Status : slot' = [slot EXCEPT ![s].status = st]
  BY DEF Suspend, Resume, Status
<1>2. slot[s] # NoFile /\ UNCHANGED <<dir, torn>>
  BY DEF Suspend, Resume, IsActive, IsLive, history
<1>3. Aside(s)
  BY DEF Suspend, Resume, command, Aside, Alone, Moving
<1> QED
  BY <1>1, <1>2, <1>3, StatusHome

LEMMA ClaimSlotHome ==
    ASSUME OriginInv, HomeInv, NEW s \in Session, pc[s] = "sweep", NEW t \in Session,
           ClaimSlot(s, t)
    PROVE  HomeInv'
<1>1. Aside(s)
  BY ChooseAside DEF ClaimSlot, OriginInv, Steps, Moving
<1> QED
  BY <1>1, StatusHome DEF ClaimSlot, Status, history

LEMMA ClaimDirHome ==
    ASSUME OriginInv, HomeInv, NEW s \in Session, pc[s] = "sweep", NEW r \in Run,
           ClaimDir(s, r)
    PROVE  HomeInv'
<1> DEFINE f == [Parked(r) EXCEPT !.status = "abandoning"]
<1>1. Parked(r) \in dir[r] /\ Parked(r) \in File /\ Parked(r).run = r
  BY ParkedIsThere DEF ClaimDir, OriginInv, FilesKnown, HomeInv, OwnDir
<1>2. f.run = r
  BY <1>1 DEF File
<1>3. dir' = [dir EXCEPT ![r] = {f}] /\ UNCHANGED <<slot, torn>>
  BY DEF ClaimDir, history
<1>4. Aside(s)
  BY ChooseAside DEF ClaimDir, OriginInv, Steps, Moving
<1> HIDE DEF f
<1>5. \A q \in Run : dir'[q] = IF q = r THEN {f} ELSE dir[q]
  BY <1>3 DEF OriginInv, FilesKnown
<1>6. OwnDir'
  BY <1>2, <1>5 DEF HomeInv, OwnDir
<1>7. \A q \in Run \ torn : Loses(q)
  BY <1>1, <1>3, <1>5 DEF HomeInv, HomeOf, Loses, Holds
<1> QED
  BY <1>3, <1>4, <1>6, <1>7, AsideStep

(* terminateRun only takes away.                                           *)
LEMMA TerminateHome ==
    ASSUME OriginInv, HomeInv, NEW s \in Session, Aside(s), NEW t \in Session, NEW r \in Run,
           Terminate(t, r), torn' = torn
    PROVE  HomeInv'
<1>1. \A q \in Run : dir'[q] = IF q = r THEN {} ELSE dir[q]
  BY DEF Terminate, OriginInv, FilesKnown
<1>2. \A u \in Session : slot'[u] = IF u = t /\ Holds(t, r) THEN NoFile ELSE slot[u]
  BY DEF Terminate, OriginInv, FilesKnown
<1>3. OwnDir'
  BY <1>1 DEF HomeInv, OwnDir
<1>4. ASSUME NEW q \in Run \ torn PROVE Loses(q)
  <2>1. \A u \in Session : Holds(u, q)' => Holds(u, q)
    BY <1>2 DEF Holds
  <2>2. q # r => \A u \in Session : Holds(u, q) => Holds(u, q)'
    BY <1>2 DEF Holds
  <2>3. HomeOf(q)
    BY DEF HomeInv
  <2> QED
    BY <1>1, <2>1, <2>2, <2>3 DEF HomeOf, Loses
<1> QED
  BY <1>3, <1>4, AsideStep

LEMMA RemoveHome ==
    ASSUME OriginInv, HomeInv, NEW s \in Session, Remove(s)
    PROVE  HomeInv'
<1>1. judged[s].by \in Session /\ judged[s].run \in Run
  BY DEF OriginInv, CommandsKnown, InMind, Judged, Remove, MaybeFile, File
<1>2. UNCHANGED files \/ Terminate(judged[s].by, judged[s].run)
  BY DEF Remove
<1>3. Aside(s) /\ torn' = torn
  BY EndedAside DEF Remove, OriginInv, Moving, history
<1> QED
  BY <1>1, <1>2, <1>3, TerminateHome, AsideSameFiles

LEMMA DropHome ==
    ASSUME OriginInv, HomeInv, NEW s \in Session, Drop(s)
    PROVE  HomeInv'
<1>1. chosen[s].by \in Session /\ chosen[s].run \in Run
  BY DEF OriginInv, CommandsKnown, InMind, Aimed, Drop, MaybeFile, File
<1>2. Aside(s) /\ torn' = torn
  BY EndedAside DEF Drop, OriginInv, Moving, history
<1> QED
  BY <1>1, <1>2, TerminateHome DEF Drop

(* A run that was never routed is nowhere.                                 *)
LEMMA NotRoutedYet ==
    ASSUME OriginInv, OwnDir, NEW r \in Run, startedBy[r] = NoFile
    PROVE  /\ dir[r] = {}
           /\ \A t \in Session : ~Holds(t, r) /\ ~Arriving(t, r)
<1>1. \A f \in File : Known(f) => f.run # r
  BY OriginIsSession, LedgerAssumption DEF Known
<1>2. dir[r] = {}
  BY <1>1 DEF OriginInv, FilesKnown, OwnDir
<1>3. \A t \in Session : ~Holds(t, r)
  BY <1>1 DEF OriginInv, FilesKnown, MaybeFile, Holds
<1>4. \A t \in Session : ~Arriving(t, r)
  BY <1>1 DEF OriginInv, CommandsKnown, MaybeFile, InMind, Aimed, Arriving
<1> QED
  BY <1>2, <1>3, <1>4

LEMMA StartHome ==
    ASSUME OriginInv, HomeInv, NEW s \in Session, Start(s)
    PROVE  HomeInv'
<1>1. PICK r \in Run :
        /\ startedBy[r] = NoFile
        /\ slot' = [slot EXCEPT ![s] = [run |-> r, by |-> s, origin |-> s,
                                        status |-> "active", acceptance |-> FALSE]]
  BY DEF Start
<1> DEFINE new == [run |-> r, by |-> s, origin |-> s, status |-> "active", acceptance |-> FALSE]
<1>2. new \in File /\ new.run = r
  BY DEF File, Status
<1>3. \A u \in Session : slot'[u] = IF u = s THEN new ELSE slot[u]
  BY <1>1 DEF OriginInv, FilesKnown
<1> HIDE DEF new
<1>4. pc[s] = "start" /\ UNCHANGED <<dir, torn>> /\ Aside(s)
  BY GotoAside DEF Start, Stay, OriginInv, Steps, Moving
<1>5. /\ dir[r] = {}
      /\ \A t \in Session : ~Holds(t, r) /\ ~Arriving(t, r)
  BY <1>1, NotRoutedYet DEF HomeInv
<1>6. ASSUME NEW q \in Run \ torn PROVE HomeOf(q)'
  <2>1. Apart(s, q) /\ HomeOf(q)
    BY <1>4 DEF Aside, Apart, HomeInv
  <2>2. CASE q = r
    <3>1. \A t \in Session : Stays(t, r)' => t = s
      BY <1>3, <1>5 DEF Stays, Holds
    <3>2. dir'[r] = {} /\ \A u \in Session : ~Arriving(u, r)'
      BY <1>4, <1>5, <2>1, <2>2, ApartMovesNothing
    <3> QED
      BY <2>2, <3>1, <3>2 DEF HomeOf
  <2>3. CASE q # r
    <3>1. \A t \in Session : Holds(t, q)' => Holds(t, q)
      BY <1>2, <1>3, <2>3 DEF Holds
    <3>2. \A u \in Session : Arriving(u, q) /\ Holds(u, q) => Holds(u, q)'
      BY <1>3, <1>4 DEF Holds, Arriving
    <3>3. Loses(q)
      BY <1>4, <2>1, <3>1, <3>2 DEF Loses, HomeOf
    <3> QED
      BY <2>1, <3>3, ApartLoses
  <2> QED
    BY <2>2, <2>3
<1>7. Locks' /\ OwnDir'
  BY <1>4, AsideKeepsLocks DEF HomeInv, OwnDir
<1> QED
  BY <1>4, <1>6, <1>7 DEF HomeInv

--------------------------------------------------------------------------------
(* Moves. *)

(* The lock of a slot is free only if its run is there to stay, and nowhere  *)
(* else.                                                                     *)
LEMMA NothingElsewhere ==
    ASSUME NEW t \in Session, NEW r \in Run, Holds(t, r), SlotFree(t), HomeOf(r)
    PROVE  /\ dir[r] = {}
           /\ \A u \in Session : ~Arriving(u, r) /\ (Stays(u, r) => u = t)
<1>1. Stays(t, r)
  BY DEF Stays, Leaving, SlotFree
<1>2. \A u \in Session : Arriving(u, r) => u # t
  BY DEF Arriving, SlotFree
<1> QED
  BY <1>1, <1>2 DEF HomeOf

LEMMA LeaveHome ==
    ASSUME OriginInv, HomeInv, NEW s \in Session, pc[s] = "idle", NEW t \in Session,
           NEW reason, Leave(s, t, reason)
    PROVE  HomeInv'
<1> DEFINE f == ParkedFile(slot[t])
           r == slot[t].run
<1>1. slot[t] \in File /\ Known(slot[t]) /\ slot[t] # NoFile
  BY DEF OriginInv, FilesKnown, MaybeFile, Leave, IsLive
<1>2. f.run = r /\ r \in Run
  BY <1>1 DEF ParkedFile, File
<1>3. /\ dir' = [dir EXCEPT ![f.run] = {g \in dir[f.run] : g.by # f.by} \union {f}]
      /\ Choose(s, "leaving", reason, t, f)
      /\ SlotFree(t)
      /\ UNCHANGED <<slot, torn>>
  BY DEF Leave, history
<1>4. Holds(t, r)
  BY <1>1 DEF Holds
<1> HIDE DEF f, r
<1>5. \A q \in Run : dir'[q] = IF q = r THEN {g \in dir[r] : g.by # f.by} \union {f} ELSE dir[q]
  BY <1>2, <1>3 DEF OriginInv, FilesKnown
<1>6. Alone(s) /\ pc'[s] = "leaving" /\ place'[s] = t /\ chosen'[s].run = r
  BY <1>2, <1>3, ChooseAlone DEF OriginInv, Steps
<1>7. Locks'
  BY <1>3, <1>6 DEF HomeInv, Locks, Alone, SlotFree
<1>8. OwnDir'
  BY <1>2, <1>5 DEF HomeInv, OwnDir
<1>9. ASSUME NEW q \in Run \ torn PROVE HomeOf(q)'
  <2>1. HomeOf(q)
    BY DEF HomeInv
  <2>2. CASE q = r
    <3>1. /\ dir[q] = {}
          /\ \A u \in Session : ~Arriving(u, q) /\ (Stays(u, q) => u = t)
      BY <1>3, <1>4, <2>1, <2>2, NothingElsewhere
    <3>2. dir'[q] = {f}
      BY <1>2, <1>5, <2>2, <3>1
    <3>3. Leaving(t, q)'
      BY <1>6, <2>2 DEF Leaving
    <3>4. \A u \in Session : Leaving(u, q) => Leaving(u, q)'
      BY <1>6 DEF Leaving, Alone
    <3>5. \A u \in Session : ~Stays(u, q)'
      BY <1>3, <3>1, <3>3, <3>4 DEF Stays, Holds
    <3>6. \A u \in Session : ~Arriving(u, q)'
      BY <1>6, <3>1 DEF Arriving, Alone
    <3> QED
      BY <2>2, <3>2, <3>5, <3>6 DEF HomeOf
  <2>3. CASE q # r
    <3>1. Apart(s, q)
      BY <1>6, <2>3 DEF Apart, Moving
    <3>2. Loses(q)
      BY <1>3, <1>5, <2>1, <2>3 DEF Loses, HomeOf, Holds
    <3> QED
      BY <2>1, <3>1, <3>2, ApartLoses
  <2> QED
    BY <2>2, <2>3
<1> QED
  BY <1>3, <1>7, <1>8, <1>9 DEF HomeInv

(* The slot of a finished park was not the one somebody moves a run into.  *)
LEMMA LeftHome ==
    ASSUME OriginInv, HomeInv, NEW s \in Session, Left(s)
    PROVE  HomeInv'
<1>1. PICK step, reason, p, f :
        step \in {"route", "reactivate", "idle"} /\ Choose(s, step, reason, p, f)
  BY DEF Left, End
<1>2. /\ pc[s] = "leaving" /\ slot' = [slot EXCEPT ![place[s]] = NoFile]
      /\ UNCHANGED <<dir, torn>>
  BY DEF Left, history
<1>3. Alone(s) /\ pc'[s] \notin Moving
  BY <1>1, ChooseAlone DEF OriginInv, Steps, Moving
<1>4. \A u \in Session : slot'[u] = IF u = place[s] THEN NoFile ELSE slot[u]
  BY <1>2 DEF OriginInv, FilesKnown
<1>5. Locks' /\ OwnDir'
  BY <1>2, <1>3 DEF HomeInv, Locks, OwnDir, Alone, Moving
<1>6. ASSUME NEW q \in Run \ torn PROVE HomeOf(q)'
  <2>1. HomeOf(q)
    BY DEF HomeInv
  <2>2. \A u \in Session : u # place[s] => (Leaving(u, q)' <=> Leaving(u, q))
    BY <1>2, <1>3 DEF Leaving, Alone, Moving
  <2>3. \A u \in Session : Holds(u, q)' => Holds(u, q) /\ u # place[s]
    BY <1>4 DEF Holds
  <2>4. \A u \in Session : Stays(u, q)' => Stays(u, q)
    BY <2>2, <2>3 DEF Stays
  <2>5. \A u \in Session : Arriving(u, q)' <=> Arriving(u, q)
    BY <1>2, <1>3 DEF Arriving, Alone, Moving
  <2>6. \A u \in Session : Arriving(u, q) => u # place[s]
    BY <1>2 DEF HomeInv, Locks, Arriving
  <2>7. \A u \in Session : Arriving(u, q) /\ Holds(u, q) => Holds(u, q)'
    BY <1>4, <2>6 DEF Holds
  <2> QED
    BY <1>2, <2>1, <2>4, <2>5, <2>7, Fewer DEF HomeOf
<1> QED
  BY <1>2, <1>5, <1>6 DEF HomeInv

(* A parked run that is not being taken up is nowhere else.                *)
LEMMA ReactivateHome ==
    ASSUME OriginInv, HomeInv, NEW s \in Session, Reactivate(s)
    PROVE  HomeInv'
<1>1. CASE End(s) /\ UNCHANGED slot
  BY <1>1, EndAside, AsideSameFiles DEF Reactivate, OriginInv, Moving, files, history
<1>2. ASSUME NEW f \in StillParked(s),
             slot' = [slot EXCEPT ![s] = TakenUp(f, s)],
             Choose(s, "arriving", "accept", f.run, f)
      PROVE  HomeInv'
  <2> DEFINE r == chosen[s].run
  <2>1. r \in Run
    BY DEF OriginInv, CommandsKnown, InMind, Aimed, Reactivate, MaybeFile, File
  <2>2. f \in dir[r] /\ f \in File /\ Known(f) /\ f.acceptance /\ f.run = r
    BY <2>1 DEF StillParked, OriginInv, FilesKnown, HomeInv, OwnDir
  <2>3. TakenUp(f, s) # NoFile /\ TakenUp(f, s).run = r
    BY <2>2, TakenUpKnown, LedgerAssumption DEF TakenUp
  <2>4. /\ pc[s] = "reactivate" /\ DirFree(r) /\ SlotFree(s) /\ UNCHANGED <<dir, torn>>
    BY DEF Reactivate, history
  <2>5. Alone(s) /\ pc'[s] = "arriving" /\ chosen'[s].run = r
    BY <1>2, <2>2, ChooseAlone DEF OriginInv, Steps
  <2> HIDE DEF r
  <2>6. \A u \in Session : slot'[u] = IF u = s THEN TakenUp(f, s) ELSE slot[u]
    BY <1>2 DEF OriginInv, FilesKnown
  <2>7. Locks'
    BY <2>4, <2>5 DEF HomeInv, Locks, Alone, SlotFree
  <2>8. OwnDir'
    BY <2>4 DEF HomeInv, OwnDir
  <2>9. ASSUME NEW q \in Run \ torn PROVE HomeOf(q)'
    <3>1. HomeOf(q)
      BY DEF HomeInv
    <3>2. CASE q = r
      <4>1. \A u \in Session : ~Arriving(u, q)
        BY <2>4, <3>2 DEF DirFree, Arriving
      <4>2. \A u \in Session : ~Stays(u, q)
        BY <2>2, <3>1, <3>2, <4>1 DEF HomeOf
      <4>3. \A u \in Session : Leaving(u, q) => Leaving(u, q)'
        BY <2>4, <2>5 DEF Leaving, Alone
      <4>4. \A u \in Session : Stays(u, q)' => u = s
        BY <2>6, <4>2, <4>3 DEF Stays, Holds
      <4>5. \A u \in Session : Arriving(u, q)' => u = s
        BY <2>5, <4>1 DEF Arriving, Alone
      <4>6. Arriving(s, q)' /\ Holds(s, q)'
        BY <2>3, <2>5, <2>6, <3>2 DEF Arriving, Holds
      <4>7. \A g, h \in dir'[q] : g = h
        BY <2>4, <3>1, <3>2 DEF HomeOf
      <4> QED
        BY <3>2, <4>4, <4>5, <4>6, <4>7 DEF HomeOf
    <3>3. CASE q # r
      <4>1. Apart(s, q)
        BY <2>4, <2>5, <3>3 DEF Apart, Moving
      <4>2. \A u \in Session : Holds(u, q)' => Holds(u, q)
        BY <2>3, <2>6, <3>3 DEF Holds
      <4>3. \A u \in Session : Arriving(u, q) /\ Holds(u, q) => Holds(u, q)'
        BY <2>4, <2>6 DEF Holds, Arriving
      <4>4. Loses(q)
        BY <2>4, <3>1, <4>2, <4>3 DEF Loses, HomeOf
      <4> QED
        BY <3>1, <4>1, <4>4, ApartLoses
    <3> QED
      BY <3>2, <3>3
  <2> QED
    BY <2>4, <2>7, <2>8, <2>9 DEF HomeInv
<1> QED
  BY <1>1, <1>2 DEF Reactivate

LEMMA ArrivedHome ==
    ASSUME OriginInv, HomeInv, NEW s \in Session, Arrived(s)
    PROVE  HomeInv'
<1> DEFINE r == chosen[s].run
<1>1. /\ pc[s] = "arriving" /\ dir' = [dir EXCEPT ![r] = {}] /\ UNCHANGED <<slot, torn>>
  BY DEF Arrived, history
<1>2. Alone(s) /\ pc'[s] = "idle"
  BY ChooseAlone DEF Arrived, End, OriginInv, Steps
<1> HIDE DEF r
<1>3. \A q \in Run : dir'[q] = IF q = r THEN {} ELSE dir[q]
  BY <1>1 DEF OriginInv, FilesKnown
<1>4. Locks' /\ OwnDir'
  BY <1>2, <1>3 DEF HomeInv, Locks, OwnDir, Alone
<1>5. ASSUME NEW q \in Run \ torn PROVE HomeOf(q)'
  <2>1. HomeOf(q)
    BY DEF HomeInv
  <2>2. \A u \in Session : Leaving(u, q)' <=> Leaving(u, q)
    BY <1>1, <1>2 DEF Leaving, Alone
  <2>3. \A u \in Session : Holds(u, q)' <=> Holds(u, q)
    BY <1>1 DEF Holds
  <2>4. \A u \in Session : Stays(u, q)' => Stays(u, q)
    BY <2>2, <2>3 DEF Stays
  <2>5. \A u \in Session : Arriving(u, q)' => Arriving(u, q)
    BY <1>2 DEF Arriving, Alone
  <2>6. \A u \in Session : q # r /\ Arriving(u, q) => Arriving(u, q)'
    BY <1>2 DEF Arriving, Alone, r
  <2> QED
    BY <1>3, <2>1, <2>3, <2>4, <2>5, <2>6, Fewer DEF HomeOf
<1> QED
  BY <1>1, <1>4, <1>5 DEF HomeInv

(* A kill in a move tears the run; the others do not notice.               *)
LEMMA KilledHome ==
    ASSUME OriginInv, HomeInv, NEW s \in Session, Killed(s)
    PROVE  HomeInv'
<1>1. UNCHANGED files /\ torn \subseteq torn'
  BY DEF Killed
<1>2. Alone(s) /\ pc'[s] = "idle"
  BY ChooseAlone DEF Killed, End, OriginInv, Steps
<1>3. OwnDir'
  BY <1>1 DEF HomeInv, OwnDir, files
<1>4. Locks'
  BY <1>2 DEF HomeInv, Locks, Alone
<1>5. ASSUME NEW q \in Run \ torn' PROVE HomeOf(q)'
  <2>1. HomeOf(q) /\ Loses(q)
    BY <1>1, SameFilesLose DEF HomeInv
  <2>2. Apart(s, q)
    BY <1>2 DEF Killed, Apart, Moving
  <2> QED
    BY <2>1, <2>2, ApartLoses
<1> QED
  BY <1>3, <1>4, <1>5 DEF HomeInv

--------------------------------------------------------------------------------
LEMMA InitHome == Init => HomeInv
  BY DEF Init, HomeInv, Locks, OwnDir, HomeOf, Stays, Holds, Arriving

LEMMA StepHome == OriginInv /\ HomeInv /\ [Next]_vars => HomeInv'
<1> SUFFICES ASSUME OriginInv, HomeInv, [Next]_vars
             PROVE  HomeInv'
  OBVIOUS
<1>1. CASE UNCHANGED vars
  BY <1>1 DEF vars, files, command, history, HomeInv, Locks, OwnDir, HomeOf, Stays, Leaving,
              Arriving, Holds
<1>2. ASSUME NEW s \in Session, Move(s)
      PROVE  HomeInv'
  BY <1>2, LeftHome, ReactivateHome, ArrivedHome, LeaveHome, QuietAccept
  DEF Move, DeliverDraft, Accept
<1>3. ASSUME NEW s \in Session, Routing(s)
      PROVE  HomeInv'
  BY <1>3, LeaveHome, QuietRoute, QuietCheckSlot, StartHome, ClaimSlotHome, ClaimDirHome,
     QuietSweep DEF Routing, Route, Sweep
<1>4. ASSUME NEW s \in Session, Ending(s)
      PROVE  HomeInv'
  BY <1>4, QuietChoice, QuietEnding, RemoveHome, DropHome DEF Ending
<1> QED
  BY <1>1, <1>2, <1>3, <1>4, PresenceHome, KilledHome DEF Next

(* When no command is on its way, one home is one file.                    *)
LEMMA AtRestOneFile ==
    ASSUME OriginInv, HomeInv, AtRest, NEW r \in Run \ torn
    PROVE  Homes(r) <= 1
<1> DEFINE H == {s \in Session : Holds(s, r)}
<1>1. \A s \in Session : ~Arriving(s, r) /\ ~Leaving(s, r)
  BY DEF AtRest, Arriving, Leaving
<1>2. /\ \A s, t \in H : s = t
      /\ \A f, g \in dir[r] : f = g
      /\ dir[r] # {} => H = {}
  BY <1>1 DEF HomeInv, HomeOf, Stays
<1> HIDE DEF H
<1>3. Cardinality({}) = 0
  BY FS_EmptySet
<1>4. H # {} => Cardinality(H) = 1
  <2> SUFFICES ASSUME H # {} PROVE Cardinality(H) = 1
    OBVIOUS
  <2>1. PICK s : H = {s}
    BY <1>2
  <2> QED BY <2>1, FS_Singleton
<1>5. dir[r] # {} => Cardinality(dir[r]) = 1
  <2> SUFFICES ASSUME dir[r] # {} PROVE Cardinality(dir[r]) = 1
    OBVIOUS
  <2>1. PICK f : dir[r] = {f}
    BY <1>2
  <2> QED BY <2>1, FS_Singleton
<1>6. Homes(r) = Cardinality(H) + Cardinality(dir[r])
  BY DEF Homes, H
<1> QED
  BY <1>2, <1>3, <1>4, <1>5, <1>6

(* However parks, acceptances, sweeps, routes and endings interleave, a run  *)
(* that no kill cut in half has one file at most once all commands are done: *)
(* the two file operations of parkWorkflowRun and of reactivateParkedRun     *)
(* never leave it in two places.                                             *)
THEOREM OneHome == Spec => []OneHomeAtRest
<1>1. OriginInv /\ HomeInv => OneHomeAtRest
  BY AtRestOneFile DEF OneHomeAtRest
<1>2. Init => OriginInv /\ HomeInv
  BY InitKnown, InitHome
<1>3. OriginInv /\ HomeInv /\ [Next]_vars => (OriginInv /\ HomeInv)'
  BY StepKnown, StepHome
<1> QED
  BY <1>1, <1>2, <1>3, PTL DEF Spec
================================================================================
