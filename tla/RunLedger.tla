-------------------------------- MODULE RunLedger --------------------------------
(***************************************************************************)
(* Where runs live, and the commands that move and end them: the router,   *)
(* the delivery of a draft, its acceptance and abandonment, the finish of  *)
(* a run and the expiry sweep (route-task.mjs, spec-acceptance.mjs,        *)
(* finish-run.mjs, expired-runs.mjs over workflow-run-state.mjs).          *)
(*                                                                         *)
(* A run is in the slot of its session, a file named by the session, or    *)
(* parked in a directory of its own, as a file named by the session that   *)
(* parked it.  A move between the two is two file operations under a lock: *)
(* the new copy is written, then the old one removed.  The start of a run, *)
(* the read a finish is judged on and the removal of a run take no lock.   *)
(*                                                                         *)
(* Each session runs one command at a time.  When a run is due for expiry  *)
(* is the subject of RunTiming; here any waiting run may be due.  Stages   *)
(* are the subject of StageRun.                                            *)
(***************************************************************************)
EXTENDS Naturals, FiniteSets

CONSTANTS
    Session,     \* host sessions of one checkout
    Run,         \* runs that may be routed
    NoFile,      \* an empty slot; nothing remembered
    MaxKills     \* bound on the commands the host kills

Status == {"active", "suspended", "abandoning"}
Live == {"active", "suspended"}

(* A run-state file.  by: its sessionId field; origin: the session its       *)
(* acceptance record names, or by without such a record.                     *)
File == [run : Run, by : Session, origin : Session, status : Status, acceptance : BOOLEAN]

(* Where the file a command works on is: the slot of a session, or the       *)
(* directory of a run.                                                       *)
Place == Session \union Run

ASSUME LedgerAssumption ==
    /\ Session \intersect Run = {}
    /\ NoFile \notin File \union Session
    /\ MaxKills \in Nat

VARIABLES
    slot,        \* the file in each session's slot
    dir,         \* the files in each run's directory
    pc,          \* what each session's command does next
    why,         \* why it finishes a run, or where a park leads
    place,       \* where the file it works on was
    chosen,      \* that file, as it was when the command chose it
    judged,      \* the file a finish was judged on
    startedBy,   \* history: the session that routed each run
    finished,    \* history: <<run, session>> of each finished event delivered
    given,       \* history: runs a user asked to abandon
    torn,        \* history: runs a kill left in the middle of a move
    kills        \* commands killed so far

files == <<slot, dir>>
command == <<pc, why, place, chosen, judged>>
history == <<startedBy, finished, given, torn, kills>>
vars == <<files, command, history>>

Steps == {"idle", "leaving", "route", "start", "sweep", "reactivate", "arriving",
          "complete", "deliver", "remove", "drop"}
Reasons == {"finish", "sweep", "accepted", "abandon", "draft", "route", "accept"}

TypeOK ==
    /\ slot \in [Session -> File \union {NoFile}]
    /\ dir \in [Run -> SUBSET File]
    /\ pc \in [Session -> Steps]
    /\ why \in [Session -> Reasons]
    /\ place \in [Session -> Place]
    /\ chosen \in [Session -> File \union {NoFile}]
    /\ judged \in [Session -> File \union {NoFile}]
    /\ startedBy \in [Run -> Session \union {NoFile}]
    /\ finished \subseteq Run \X Session
    /\ given \subseteq Run
    /\ torn \subseteq Run
    /\ kills \in 0..MaxKills

Init ==
    /\ slot = [s \in Session |-> NoFile]
    /\ dir = [r \in Run |-> {}]
    /\ pc = [s \in Session |-> "idle"]
    /\ why = [s \in Session |-> "finish"]
    /\ place = [s \in Session |-> s]
    /\ chosen = [s \in Session |-> NoFile]
    /\ judged = [s \in Session |-> NoFile]
    /\ startedBy = [r \in Run |-> NoFile]
    /\ finished = {}
    /\ given = {}
    /\ torn = {}
    /\ kills = 0

--------------------------------------------------------------------------------
(* Files. *)

Holds(s, r) == slot[s] # NoFile /\ slot[s].run = r
IsLive(s) == slot[s] # NoFile /\ slot[s].status \in Live
IsActive(s) == slot[s] # NoFile /\ slot[s].status = "active"
AwaitsAcceptance(s) == slot[s] # NoFile /\ slot[s].status = "suspended" /\ slot[s].acceptance

(* readParkedRunState: a directory with any other number of files is unreadable. *)
Readable(r) == Cardinality(dir[r]) = 1
Parked(r) == CHOOSE f \in dir[r] : TRUE

(* The slot's lock is held while a run is moved out of it or into it; the    *)
(* directory's lock while its run is moved out.                              *)
SlotFree(t) == \A s \in Session : /\ pc[s] = "leaving" => place[s] # t
                                  /\ pc[s] = "arriving" => s # t
DirFree(r) == \A s \in Session : pc[s] = "arriving" => chosen[s].run # r

Goto(s, step) == pc' = [pc EXCEPT ![s] = step]
Stay == UNCHANGED <<why, place, chosen, judged>>

(* The command s goes to `step`, about the file f at p. *)
Choose(s, step, reason, p, f) ==
    /\ Goto(s, step)
    /\ why' = [why EXCEPT ![s] = reason]
    /\ place' = [place EXCEPT ![s] = p]
    /\ chosen' = [chosen EXCEPT ![s] = f]
    /\ judged' = [judged EXCEPT ![s] = NoFile]

(* What a command forgets when it ends. *)
End(s) == Choose(s, "idle", "finish", s, NoFile)

--------------------------------------------------------------------------------
(* Moving a run. *)

(* Mutant: the acceptance record names the session that parks.               *)
ParkedUnder(f) == f.by

OriginOf(f) == IF f.acceptance THEN f.origin ELSE f.by

ParkedFile(f) ==
    [run |-> f.run, by |-> f.by, origin |-> OriginOf(f), status |-> "suspended",
     acceptance |-> TRUE]

(* The slot's new session is the one that accepts; the origin stays. *)
TakenUp(f, s) ==
    [run |-> f.run, by |-> s, origin |-> f.origin, status |-> "active",
     acceptance |-> f.acceptance]

(* parkWorkflowRun writes the run into its directory ... *)
Leave(s, t, reason) ==
    LET f == ParkedFile(slot[t])
    IN  /\ IsLive(t) /\ SlotFree(t)
        /\ dir' = [dir EXCEPT ![f.run] = {g \in @ : g.by # f.by} \union {f}]
        /\ Choose(s, "leaving", reason, t, f)
        /\ UNCHANGED <<slot, history>>

(* ... then empties the slot. *)
Left(s) ==
    /\ pc[s] = "leaving"
    /\ slot' = [slot EXCEPT ![place[s]] = NoFile]
    /\ \/ why[s] = "route" /\ Choose(s, "route", "route", s, NoFile)
       \/ why[s] = "accept" /\ Choose(s, "reactivate", "accept", chosen[s].run, chosen[s])
       \/ why[s] = "draft" /\ End(s)
    /\ UNCHANGED <<dir, history>>

(* Mutant: the run is taken as it was when the command looked for it.        *)
AsItWasSeen(s) == {chosen[s]}

(* The state is read again under the locks: a claimed run is not taken back. *)
StillParked(s) == {f \in dir[chosen[s].run] : Readable(f.run) /\ f.status \in Live}

(* reactivateParkedRun, with both locks: write the slot ...                  *)
Reactivate(s) ==
    /\ pc[s] = "reactivate"
    /\ DirFree(chosen[s].run) /\ SlotFree(s)
    /\ \/ \E f \in StillParked(s) :
             /\ ~IsLive(s)
             /\ slot' = [slot EXCEPT ![s] = TakenUp(f, s)]
             /\ Choose(s, "arriving", "accept", f.run, f)
       \/ /\ StillParked(s) = {} \/ IsLive(s)
          /\ End(s)
          /\ UNCHANGED slot
    /\ UNCHANGED <<dir, history>>

(* ... and remove the directory. *)
Arrived(s) ==
    /\ pc[s] = "arriving"
    /\ dir' = [dir EXCEPT ![chosen[s].run] = {}]
    /\ End(s)
    /\ UNCHANGED <<slot, history>>

(* finish-run --outcome delivered-draft: the draft awaits its acceptance. *)
DeliverDraft(s) == pc[s] = "idle" /\ IsActive(s) /\ Leave(s, s, "draft")

(* spec accept, unless another run is active here: from the run's directory, *)
(* or by way of it from the slot of another session.  A run suspended in     *)
(* this session's slot is resumed there (Resume).                            *)
Accept(s) ==
    /\ pc[s] = "idle"
    /\ \/ \E r \in Run :
             /\ Readable(r)
             /\ IsActive(s) => slot[s].run = r
             /\ Choose(s, "reactivate", "accept", r, Parked(r))
             /\ UNCHANGED <<files, history>>
       \/ \E t \in Session \ {s} :
             /\ AwaitsAcceptance(t)
             /\ IsActive(s) => slot[s].run = slot[t].run
             /\ Leave(s, t, "accept")

--------------------------------------------------------------------------------
(* A session goes and comes back; each of its commands resumes the run first. *)

Suspend(s) ==
    /\ pc[s] = "idle" /\ SlotFree(s)
    /\ IsActive(s)
    /\ slot' = [slot EXCEPT ![s].status = "suspended"]
    /\ UNCHANGED <<dir, command, history>>

Resume(s) ==
    /\ pc[s] = "idle" /\ SlotFree(s)
    /\ IsLive(s) /\ slot[s].status = "suspended"
    /\ slot' = [slot EXCEPT ![s].status = "active"]
    /\ UNCHANGED <<dir, command, history>>

--------------------------------------------------------------------------------
(* The router. *)

(* Bound: each command on its way to start a run finds one not yet started.  *)
RunsLeft ==
    Cardinality({r \in Run : startedBy[r] = NoFile})
      > Cardinality({s \in Session : why[s] = "route" /\ pc[s] \in {"leaving", "route", "start"}})

(* executeRoutedTask moves a run that awaits acceptance out of the slot.     *)
Route(s) ==
    /\ pc[s] = "idle" /\ RunsLeft
    /\ \/ AwaitsAcceptance(s) /\ Leave(s, s, "route")
       \/ /\ ~AwaitsAcceptance(s)
          /\ Choose(s, "route", "route", s, NoFile)
          /\ UNCHANGED <<files, history>>

KeepsSlot(s) == IsLive(s)

(* startWorkflowRun refuses while a run is live in the slot ... *)
CheckSlot(s) ==
    /\ pc[s] = "route"
    /\ \/ KeepsSlot(s) /\ End(s)
       \/ ~KeepsSlot(s) /\ Goto(s, "start") /\ Stay
    /\ UNCHANGED <<files, history>>

(* ... takes a snapshot of the checkout, and replaces what the slot holds.   *)
Start(s) ==
    /\ pc[s] = "start"
    /\ \E r \in Run :
          /\ startedBy[r] = NoFile
          /\ startedBy' = [startedBy EXCEPT ![r] = s]
          /\ slot' = [slot EXCEPT ![s] = [run |-> r, by |-> s, origin |-> s,
                                          status |-> "active", acceptance |-> FALSE]]
    /\ Goto(s, "sweep") /\ Stay
    /\ UNCHANGED <<dir, finished, given, torn, kills>>

(* abandonExpiredWorkflowRuns: claim a waiting run, or one whose claimant    *)
(* never came back, in another session's slot ...                            *)
ClaimSlot(s, t) ==
    /\ t # s /\ SlotFree(t)
    /\ slot[t] # NoFile /\ slot[t].status \in {"suspended", "abandoning"}
    /\ slot' = [slot EXCEPT ![t].status = "abandoning"]
    /\ Choose(s, "complete", "sweep", t, slot'[t])
    /\ UNCHANGED <<dir, history>>

(* ... or in its directory. *)
ClaimDir(s, r) ==
    /\ DirFree(r) /\ Readable(r)
    /\ dir' = [dir EXCEPT ![r] = {[Parked(r) EXCEPT !.status = "abandoning"]}]
    /\ Choose(s, "complete", "sweep", r, [Parked(r) EXCEPT !.status = "abandoning"])
    /\ UNCHANGED <<slot, history>>

Sweep(s) ==
    /\ pc[s] = "sweep"
    /\ \/ \E t \in Session : ClaimSlot(s, t)
       \/ \E r \in Run : ClaimDir(s, r)
       \/ End(s) /\ UNCHANGED <<files, history>>

--------------------------------------------------------------------------------
(* Ending a run. *)

(* finish-run, and the end of a session that cannot come back. *)
Finish(s) ==
    /\ pc[s] = "idle"
    /\ slot[s] # NoFile
    /\ Choose(s, "complete", "finish", s, slot[s])
    /\ UNCHANGED <<files, history>>

(* spec accept --finish, for the run in this session's slot. *)
FinishAccepted(s) ==
    /\ pc[s] = "idle"
    /\ IsActive(s) /\ slot[s].acceptance
    /\ Choose(s, "complete", "accepted", s, slot[s])
    /\ UNCHANGED <<files, history>>

(* spec abandon, for that run or for a parked one. *)
Abandon(s) ==
    /\ pc[s] = "idle"
    /\ \/ /\ IsActive(s) /\ slot[s].acceptance
          /\ Choose(s, "complete", "abandon", s, slot[s])
       \/ \E r \in Run :
             /\ ~(IsLive(s) /\ slot[s].acceptance)
             /\ Readable(r)
             /\ Choose(s, "complete", "abandon", r, Parked(r))
    /\ given' = given \union {chosen'[s].run}
    /\ UNCHANGED <<files, startedBy, finished, torn, kills>>

(* The file that is where the command looks for it now. *)
Found(s) ==
    IF place[s] \in Session
    THEN {slot[place[s]]} \ {NoFile}
    ELSE {f \in dir[place[s]] : f.by = chosen[s].by}

(* completeWorkflowRun: an unlocked read decides what is finished.           *)
Complete(s) ==
    /\ pc[s] = "complete"
    /\ \E f \in Found(s) : judged' = [judged EXCEPT ![s] = f]
    /\ Goto(s, "deliver")
    /\ UNCHANGED <<files, why, place, chosen, history>>

(* There is nothing to finish: the commands that end parked runs remove what *)
(* they meant to end all the same.  Or the finish is refused.                *)
NothingToFinish(s) ==
    /\ pc[s] = "complete"
    /\ \/ /\ Found(s) = {}
          /\ \/ why[s] = "abandon" \/ (why[s] = "sweep" /\ place[s] \in Run)
          /\ Goto(s, "drop") /\ Stay
       \/ /\ Found(s) = {} /\ why[s] = "sweep" /\ place[s] \in Session
          /\ Goto(s, "sweep") /\ Stay
       \/ why[s] \in {"finish", "accepted"} /\ End(s)
    /\ UNCHANGED <<files, history>>

(* The finished event carries the session that started the run. *)
Deliver(s) ==
    /\ pc[s] = "deliver"
    /\ finished' = finished \union {<<judged[s].run, OriginOf(judged[s])>>}
    /\ Goto(s, "remove") /\ Stay
    /\ UNCHANGED <<files, startedBy, given, torn, kills>>

(* terminateRun: the slot if it still holds the run, and its directory.      *)
Terminate(t, r) ==
    /\ slot' = [slot EXCEPT ![t] = IF Holds(t, r) THEN NoFile ELSE @]
    /\ dir' = [dir EXCEPT ![r] = {}]

Ended(s) == IF why[s] = "sweep" THEN Choose(s, "sweep", "route", s, NoFile) ELSE End(s)

(* finalizeWorkflowRun removes nothing when the slot holds another run by    *)
(* now; the other ends go through terminateRun directly.                     *)
Remove(s) ==
    /\ pc[s] = "remove"
    /\ LET f == judged[s]
           finalizes == why[s] \in {"finish", "sweep"} /\ place[s] \in Session /\ ~f.acceptance
       IN  IF finalizes /\ ~Holds(place[s], f.run)
           THEN UNCHANGED files
           ELSE Terminate(f.by, f.run)
    /\ Ended(s)
    /\ UNCHANGED history

Drop(s) ==
    /\ pc[s] = "drop"
    /\ Terminate(chosen[s].by, chosen[s].run)
    /\ Ended(s)
    /\ UNCHANGED history

(* The host kills a command. *)
Killed(s) ==
    /\ pc[s] # "idle" /\ kills < MaxKills
    /\ kills' = kills + 1
    /\ torn' = IF pc[s] \in {"leaving", "arriving"} THEN torn \union {chosen[s].run} ELSE torn
    /\ End(s)
    /\ UNCHANGED <<files, startedBy, finished, given>>

Move(s) == Left(s) \/ Reactivate(s) \/ Arrived(s) \/ DeliverDraft(s) \/ Accept(s)
Routing(s) == Route(s) \/ CheckSlot(s) \/ Start(s) \/ Sweep(s)
Ending(s) ==
    \/ Finish(s) \/ FinishAccepted(s) \/ Abandon(s) \/ Complete(s) \/ NothingToFinish(s)
    \/ Deliver(s) \/ Remove(s) \/ Drop(s)

Next ==
    \E s \in Session :
        Move(s) \/ Suspend(s) \/ Resume(s) \/ Routing(s) \/ Ending(s) \/ Killed(s)

Spec == Init /\ [][Next]_vars

--------------------------------------------------------------------------------
(* How many files a run has. *)
Homes(r) == Cardinality({s \in Session : Holds(s, r)}) + Cardinality(dir[r])

AtRest == \A s \in Session : pc[s] = "idle"

(* However parks, acceptances, sweeps and endings interleave, once all       *)
(* commands are done a run has one file at most: nobody can continue it      *)
(* twice.  Only a kill in the middle of a move leaves two.                   *)
OneHomeAtRest == AtRest => \A r \in Run \ torn : Homes(r) <= 1

(* Whoever ends a run, through however many sessions it went, its finished   *)
(* event carries the session that routed it: the server rejects any other.   *)
FinishedUnderOrigin == \A e \in finished : e[2] = startedBy[e[1]]

(* No run vanishes: once all commands are done, every run that was routed    *)
(* has a file, or was reported finished, or a user asked to abandon it.      *)
NoRunVanishes ==
    AtRest => \A r \in Run :
        \/ startedBy[r] = NoFile
        \/ Homes(r) > 0
        \/ \E e \in finished : e[1] = r
        \/ r \in given
================================================================================
