---------------------------- MODULE CaptureDelivery ----------------------------
(***************************************************************************)
(* Delivery of capture events: the outbox, one file per event, emptied by  *)
(* whichever command flushes it, and the file of one run's delivery state, *)
(* in which every command notes what became of the events                  *)
(* (file-outbox.mjs and index.mjs in runtime/capture, capture-client.mjs,  *)
(* capture-state.mjs, retry-pending.mjs, capture-ack.mjs).                 *)
(*                                                                         *)
(* Nothing here takes a lock.  A command is any of: the delivery of a new  *)
(* event, the retry at a session's start, the fold of the notes into a     *)
(* finished run's history, and capture-health --ack.  All events are of    *)
(* one run and all commands have one capture binding; the cap of 200 notes *)
(* per run and the health counters are left out.                           *)
(***************************************************************************)
EXTENDS Naturals, FiniteSets

CONSTANTS
    Command,     \* concurrent commands of one checkout
    Event,       \* event ids, in the order of occurredAt
    Refused,     \* events the server rejects
    NoEvent,     \* a command without an event of its own
    Limit,       \* maxEntries of the outbox and the limit of list(), both 100
    MaxKills,    \* bound on the commands the host kills
    Housekeeping \* bound: which of "fold" and "ack" are run

ASSUME DeliveryAssumption ==
    /\ Event \subseteq Nat /\ NoEvent \notin Event
    /\ Refused \subseteq Event
    /\ Limit \in Nat \ {0}
    /\ MaxKills \in Nat
    /\ Housekeeping \subseteq {"fold", "ack"}

VARIABLES
    outbox,      \* events with a payload file
    judged,      \* server: events it has accepted or rejected
    noted,       \* the state file of the run: what is noted of each event
    pc,          \* what each command does next
    job,         \* the command
    event,       \* the event it delivers
    batch,       \* the events it has sent, or found deliverable
    settled,     \* the answered events it has still to remove
    news,        \* what it is about to note
    edit,        \* the state file it is about to write
    after,       \* what it does once that is written
    full,        \* how many events it found in an outbox without room
    emitted,     \* history: events some command was to deliver
    lost,        \* history: events reported not durable, or cut off by a kill
    kills        \* commands killed so far

command == <<pc, job, event, batch, settled, news, edit, after, full>>
history == <<emitted, lost, kills>>
vars == <<outbox, judged, noted, command, history>>

(* "none": no entry.  missing, mismatch and overflow are failed entries with *)
(* that error; failed is one with any other.                                 *)
Note == {"none", "queued", "failed", "missing", "mismatch", "overflow", "rejected", "delivered"}
Unsettled == {"queued", "failed", "missing", "mismatch", "overflow"}
Terminal == {"missing", "overflow", "rejected"}

Steps == {"idle", "scan", "store", "tell", "save", "list", "send", "acknowledge",
          "room", "pending", "present", "reconcile"}
Jobs == {"deliver", "drain", "again", "retry", "fold", "ack"}
Nothing == [e \in Event |-> "none"]

TypeOK ==
    /\ outbox \subseteq Event
    /\ judged \subseteq Event
    /\ noted \in [Event -> Note]
    /\ pc \in [Command -> Steps]
    /\ job \in [Command -> Jobs]
    /\ event \in [Command -> Event \union {NoEvent}]
    /\ batch \in [Command -> SUBSET Event]
    /\ settled \in [Command -> SUBSET Event]
    /\ news \in [Command -> [Event -> Note]]
    /\ edit \in [Command -> [Event -> Note]]
    /\ after \in [Command -> Steps]
    /\ full \in [Command -> Nat]
    /\ emitted \subseteq Event
    /\ lost \subseteq Event
    /\ kills \in 0..MaxKills

Init ==
    /\ outbox = {} /\ judged = {} /\ noted = Nothing
    /\ pc = [c \in Command |-> "idle"]
    /\ job = [c \in Command |-> "retry"]
    /\ event = [c \in Command |-> NoEvent]
    /\ batch = [c \in Command |-> {}]
    /\ settled = [c \in Command |-> {}]
    /\ news = [c \in Command |-> Nothing]
    /\ edit = [c \in Command |-> Nothing]
    /\ after = [c \in Command |-> "idle"]
    /\ full = [c \in Command |-> 0]
    /\ emitted = {} /\ lost = {} /\ kills = 0

--------------------------------------------------------------------------------
Files == <<outbox, judged, noted>>
Work == <<batch, settled>>
Telling == <<news, edit, after>>

Goto(c, step) == pc' = [pc EXCEPT ![c] = step]

(* On to the next step, or back to rest. *)
GoOn(c, step) ==
    /\ Goto(c, step)
    /\ IF step = "idle"
       THEN /\ job' = [job EXCEPT ![c] = "retry"]
            /\ event' = [event EXCEPT ![c] = NoEvent]
            /\ full' = [full EXCEPT ![c] = 0]
       ELSE UNCHANGED <<job, event, full>>

--------------------------------------------------------------------------------
(* The state file: every note is a read and a replacement of the whole file. *)

(* The command will note `what` (events it maps to "none" left alone), then  *)
(* do `next`.                                                                *)
Tell(c, what, next) ==
    /\ Goto(c, "tell")
    /\ news' = [news EXCEPT ![c] = what]
    /\ after' = [after EXCEPT ![c] = next]
    /\ edit' = edit

Noting(what) == [e \in Event |-> IF what[e] = "none" THEN noted[e] ELSE what[e]]

(* The command will replace the file by `file`, then do `next`. *)
Write(c, file, next) ==
    /\ Goto(c, "save")
    /\ news' = [news EXCEPT ![c] = Nothing]
    /\ edit' = [edit EXCEPT ![c] = file]
    /\ after' = [after EXCEPT ![c] = next]

(* recordCaptureTransitions *)
ReadNotes(c) ==
    /\ pc[c] = "tell"
    /\ Write(c, Noting(news[c]), after[c])
    /\ UNCHANGED <<Files, Work, job, event, full, history>>

WriteNotes(c) ==
    /\ pc[c] = "save"
    /\ noted' = edit[c]
    /\ GoOn(c, after[c])
    /\ edit' = [edit EXCEPT ![c] = Nothing]
    /\ after' = [after EXCEPT ![c] = "idle"]
    /\ UNCHANGED <<outbox, judged, Work, news, history>>

--------------------------------------------------------------------------------
(* deliverCaptureEvent: stage the event, then flush.                         *)

Deliver(c) ==
    /\ pc[c] = "idle"
    /\ \E e \in Event \ emitted :
          /\ event' = [event EXCEPT ![c] = e]
          /\ emitted' = emitted \union {e}
    /\ job' = [job EXCEPT ![c] = "deliver"]
    /\ Goto(c, "scan")
    /\ UNCHANGED <<Files, Work, Telling, full, lost, kills>>

HasRoom == Cardinality(outbox) < Limit

(* enqueue counts the entries ... *)
Scan(c) ==
    /\ pc[c] = "scan" /\ HasRoom
    /\ Goto(c, "store")
    /\ UNCHANGED <<Files, Work, Telling, job, event, full, history>>

(* ... and writes the payload; a note says it is queued. *)
Store(c) ==
    /\ pc[c] = "store"
    /\ outbox' = outbox \union {event[c]}
    /\ Tell(c, [Nothing EXCEPT ![event[c]] = "queued"],
            IF job[c] = "again" THEN "idle" ELSE "list")
    /\ UNCHANGED <<judged, noted, Work, job, event, full, history>>

(* Without room the event is not staged: a flush may make room for a second  *)
(* attempt.                                                                  *)
Overflow(c) ==
    /\ pc[c] = "scan" /\ ~HasRoom
    /\ Tell(c, [Nothing EXCEPT ![event[c]] = "overflow"],
            IF job[c] = "again" THEN "idle" ELSE "list")
    /\ IF job[c] = "again"
       THEN /\ lost' = lost \union {event[c]}
            /\ UNCHANGED <<job, full>>
       ELSE /\ job' = [job EXCEPT ![c] = "drain"]
            /\ full' = [full EXCEPT ![c] = Cardinality(outbox)]
            /\ lost' = lost
    /\ UNCHANGED <<Files, Work, event, emitted, kills>>

(* Mutant: the event that had no room is reported staged once there is some. *)
ReportsRoom(c) == Cardinality(outbox) < full[c] /\ GoOn(c, "idle")

StageAgain(c) ==
    /\ Goto(c, "scan")
    /\ job' = [job EXCEPT ![c] = "again"]
    /\ UNCHANGED <<event, full>>

TriesAgain(c) == Cardinality(outbox) < full[c] /\ StageAgain(c)

Room(c) ==
    /\ pc[c] = "room"
    /\ \/ TriesAgain(c) /\ lost' = lost
       \/ /\ Cardinality(outbox) >= full[c]
          /\ GoOn(c, "idle")
          /\ lost' = lost \union {event[c]}
    /\ UNCHANGED <<Files, Work, Telling, emitted, kills>>

--------------------------------------------------------------------------------
(* flush: send what is in the outbox, whoever put it there.                  *)

(* list(): the oldest entries. *)
Oldest == {e \in outbox : Cardinality({d \in outbox : d < e}) < Limit}

(* Mutant: what failed once is not sent again. *)
NeverFailed == {e \in Oldest : noted[e] # "failed"}

Batch == Oldest

AfterFlush(c) ==
    CASE job[c] = "retry" -> "pending"
      [] job[c] = "drain" -> "room"
      [] OTHER -> "idle"

(* A flush that finds nothing reports nothing pending. *)
List(c) ==
    /\ pc[c] = "list"
    /\ \/ /\ Batch = {}
          /\ IF job[c] = "drain" THEN StageAgain(c) ELSE GoOn(c, AfterFlush(c))
          /\ UNCHANGED batch
       \/ /\ Batch # {}
          /\ GoOn(c, "send")
          /\ batch' = [batch EXCEPT ![c] = Batch]
    /\ UNCHANGED <<Files, settled, Telling, history>>

(* Mutant: the whole batch counts as delivered, but for the rejected.        *)
VerdictOfAll(sent, covered) ==
    [e \in Event |-> IF e \notin sent THEN "none"
                     ELSE IF e \in covered \intersect Refused THEN "rejected"
                     ELSE "delivered"]

(* What a receipt that covers only some of the events says of each. *)
Verdict(sent, covered) ==
    [e \in Event |-> IF e \notin sent THEN "none"
                     ELSE IF e \notin covered THEN "failed"
                     ELSE IF e \in Refused THEN "rejected"
                     ELSE "delivered"]

(* Mutant: everything that was sent is removed. *)
AllSent(sent, covered) == sent

Answered(sent, covered) == covered

(* The receipt is valid: accepted, duplicate and rejected events are removed *)
(* once they are noted; the others stay.                                     *)
Receive(c, covered) ==
    /\ pc[c] = "send"
    /\ judged' = judged \union covered
    /\ Tell(c, Verdict(batch[c], covered), "acknowledge")
    /\ settled' = [settled EXCEPT ![c] = Answered(batch[c], covered)]
    /\ batch' = [batch EXCEPT ![c] = {}]
    /\ UNCHANGED <<outbox, noted, job, event, full, history>>

PartAnswer(c) == \E covered \in SUBSET batch[c] : Receive(c, covered)
FullAnswer(c) == Receive(c, batch[c])

(* No answer in time, an error status or a receipt that is refused: some of  *)
(* the events may have arrived all the same.                                 *)
NoAnswer(c) ==
    /\ pc[c] = "send"
    /\ \E arrived \in SUBSET batch[c] : judged' = judged \union arrived
    /\ Tell(c, Verdict(batch[c], {}), IF job[c] = "retry" THEN "pending" ELSE "idle")
    /\ lost' = IF job[c] = "drain" THEN lost \union {event[c]} ELSE lost
    /\ batch' = [batch EXCEPT ![c] = {}]
    /\ UNCHANGED <<outbox, noted, settled, job, event, full, emitted, kills>>

Acknowledge(c) ==
    /\ pc[c] = "acknowledge"
    /\ \/ \E e \in settled[c] :
             /\ outbox' = outbox \ {e}
             /\ settled' = [settled EXCEPT ![c] = @ \ {e}]
             /\ UNCHANGED <<pc, job, event, full>>
       \/ /\ settled[c] = {}
          /\ GoOn(c, AfterFlush(c))
          /\ UNCHANGED <<outbox, settled>>
    /\ UNCHANGED <<judged, noted, batch, Telling, history>>

--------------------------------------------------------------------------------
(* retry-pending, at a session's start: flush, then reconcile the notes with *)
(* what the outbox holds.  The relay flushes the same directory at an        *)
(* interval (drainCaptureOutboxes) and writes no notes: to the other commands*)
(* that is a retry killed before its notes.                                  *)

Retry(c) ==
    /\ pc[c] = "idle"
    /\ Goto(c, "list")
    /\ UNCHANGED <<Files, Work, Telling, job, event, full, history>>

ListPending(c) ==
    /\ pc[c] = "pending"
    /\ batch' = [batch EXCEPT ![c] = Oldest]
    /\ Goto(c, "present")
    /\ UNCHANGED <<Files, settled, Telling, job, event, full, history>>

(* outboxPayloadIds, a second look: what is there and was not pending is     *)
(* taken for another binding's, what is gone for lost.                       *)
ListPresent(c) ==
    /\ pc[c] = "present"
    /\ news' = [news EXCEPT ![c] =
                   [e \in Event |-> IF e \in batch[c] THEN "none"
                                    ELSE IF e \in outbox THEN "mismatch"
                                    ELSE "missing"]]
    /\ batch' = [batch EXCEPT ![c] = {}]
    /\ Goto(c, "reconcile")
    /\ UNCHANGED <<Files, settled, edit, after, job, event, full, history>>

(* reconcileCaptureFiles: the notes of a run that has any; terminal entries  *)
(* that are old enough go.                                                   *)
Reconciled(found) ==
    [e \in Event |-> IF noted[e] \in Unsettled /\ found[e] # "none" THEN found[e]
                     ELSE noted[e]]

Reconcile(c) ==
    /\ pc[c] = "reconcile"
    /\ LET file == Reconciled(news[c])
       IN  \/ /\ noted # Nothing
              /\ \E aged \in SUBSET {e \in Event : file[e] \in Terminal} :
                    Write(c, [e \in Event |-> IF e \in aged THEN "none" ELSE file[e]], "idle")
              /\ UNCHANGED <<job, event, full>>
           \/ /\ noted = Nothing
              /\ GoOn(c, "idle")
              /\ news' = [news EXCEPT ![c] = Nothing]
              /\ UNCHANGED <<edit, after>>
    /\ UNCHANGED <<Files, Work, history>>

--------------------------------------------------------------------------------
(* foldCaptureState: the notes go into the history line of a finished run,   *)
(* and are dropped when everything is delivered.                             *)
AllDelivered == \A e \in Event : noted[e] \in {"none", "delivered"}

Fold(c) ==
    /\ pc[c] = "idle" /\ "fold" \in Housekeeping
    /\ noted # Nothing
    /\ Write(c, IF AllDelivered THEN Nothing ELSE noted, "idle")
    /\ job' = [job EXCEPT ![c] = "fold"]
    /\ UNCHANGED <<Files, Work, event, full, history>>

(* capture-health --ack: terminal entries are dropped. *)
Ack(c) ==
    /\ pc[c] = "idle" /\ "ack" \in Housekeeping
    /\ \E e \in Event : noted[e] \in Terminal
    /\ Write(c, [e \in Event |-> IF noted[e] \in Terminal THEN "none" ELSE noted[e]], "idle")
    /\ job' = [job EXCEPT ![c] = "ack"]
    /\ UNCHANGED <<Files, Work, event, full, history>>

(* The host kills a command: what it had not staged is lost. *)
Killed(c) ==
    /\ pc[c] # "idle" /\ kills < MaxKills
    /\ kills' = kills + 1
    /\ lost' = IF event[c] # NoEvent /\ event[c] \notin outbox \union judged
               THEN lost \union {event[c]} ELSE lost
    /\ GoOn(c, "idle")
    /\ batch' = [batch EXCEPT ![c] = {}]
    /\ settled' = [settled EXCEPT ![c] = {}]
    /\ news' = [news EXCEPT ![c] = Nothing]
    /\ edit' = [edit EXCEPT ![c] = Nothing]
    /\ after' = [after EXCEPT ![c] = "idle"]
    /\ UNCHANGED <<Files, emitted>>

Flush(c) == List(c) \/ PartAnswer(c) \/ NoAnswer(c) \/ Acknowledge(c)
Staging(c) == Scan(c) \/ Store(c) \/ Overflow(c) \/ Room(c)
Noted(c) == ReadNotes(c) \/ WriteNotes(c)
Reconciling(c) == ListPending(c) \/ ListPresent(c) \/ Reconcile(c)
Step(c) == Staging(c) \/ Flush(c) \/ Noted(c) \/ Reconciling(c)
Invoked(c) == Deliver(c) \/ Retry(c) \/ Fold(c) \/ Ack(c)

Next == \E c \in Command : Invoked(c) \/ Step(c) \/ Killed(c)

Spec == Init /\ [][Next]_vars

(* A command that runs gets on; sessions keep starting; and the server is    *)
(* not out of reach for ever.                                                *)
FairSpec ==
    /\ Spec
    /\ \A c \in Command : WF_vars(Step(c))
    /\ SF_vars(\E c \in Command : Retry(c))
    /\ SF_vars(\E c \in Command : FullAnswer(c))

--------------------------------------------------------------------------------
(* Every event a command was to deliver is staged, or judged by the server,  *)
(* or was reported lost, or is still in the hands of its command; and what   *)
(* was reported lost is neither staged nor judged.                           *)
InHand(e) ==
    \E c \in Command : event[c] = e /\ (pc[c] \in {"scan", "store"} \/ job[c] = "drain")
EveryEventAccountedFor ==
    \A e \in emitted :
        \/ e \in lost /\ e \notin outbox \union judged
        \/ e \notin lost /\ (e \in outbox \union judged \/ InHand(e))

(* However the commands overwrite each other's notes, an event noted as      *)
(* delivered was accepted and one noted as rejected was rejected.            *)
NotesAreTrue ==
    \A e \in Event :
        /\ noted[e] = "delivered" => e \in judged \ Refused
        /\ noted[e] = "rejected" => e \in judged \intersect Refused

(* A staged event leaves the outbox in the end: the server has judged it.    *)
EventsSettle == \A e \in Event : (e \in outbox) ~> (e \notin outbox)

(* The outbox keeps each event until the server has judged it. *)
Promise == INSTANCE AtLeastOnce WITH kept <- outbox
KeepsUntilJudged == Promise!Spec

(* A note that an event was rejected is the only trace of it once its        *)
(* payload is dropped: only an acknowledgement or its age removes it.        *)
RejectionSurvives ==
    [][\A e \in Event :
          noted[e] = "rejected" /\ e \notin outbox /\ noted'[e] # "rejected" =>
              \E c \in Command : pc[c] = "save" /\ job[c] \in {"ack", "retry"}]_vars
================================================================================
