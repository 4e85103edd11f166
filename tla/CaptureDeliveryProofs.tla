-------------------------- MODULE CaptureDeliveryProofs --------------------------
(***************************************************************************)
(* The outbox keeps every event until the server has judged it, and no     *)
(* note says of an event what the server did not, for any number of        *)
(* commands, events and kills and whatever answers arrive or are lost.     *)
(***************************************************************************)
EXTENDS CaptureDelivery, TLAPS, FiniteSetTheorems

(* What a file of notes, or notes about to be written, say is so. *)
True(notes) ==
    \A e \in Event :
        /\ notes[e] = "delivered" => e \in judged \ Refused
        /\ notes[e] = "rejected" => e \in judged \intersect Refused

NotesInv == True(noted) /\ \A c \in Command : True(news[c]) /\ True(edit[c])

(* What is sent was staged, and what is removed was judged. *)
FlightInv ==
    /\ IsFiniteSet(outbox)
    /\ \A c \in Command : batch[c] \subseteq outbox \union judged /\ settled[c] \subseteq judged

(* A command that has still to stage its event is the only one to know of it. *)
Unstaged(c) == pc[c] \in {"scan", "store"} \/ job[c] = "drain"

Paced(c) ==
    /\ pc[c] \in {"scan", "store"} => job[c] # "drain"
    /\ pc[c] = "room" => job[c] = "drain"

EventInv ==
    /\ outbox \union judged \subseteq emitted
    /\ \A c \in Command : event[c] # NoEvent => event[c] \in emitted
    /\ \A c, d \in Command : c # d /\ event[c] = event[d] => event[c] = NoEvent
    /\ \A c \in Command :
          Unstaged(c) => event[c] # NoEvent /\ event[c] \notin outbox \union judged
    /\ \A c \in Command : Paced(c)
    /\ \A c \in Command : after[c] \in {"idle", "list", "acknowledge", "pending"}

DeliveryInv == TypeOK /\ NotesInv /\ FlightInv /\ EventInv

(* The flush that was to make room failed, and the command says so. *)
Resigned(c) == job[c] = "drain" /\ pc[c] \in {"tell", "save"} /\ after[c] = "idle"

Draining(c) ==
    job[c] = "drain" =>
        /\ pc[c] \in {"tell", "save", "list", "send", "acknowledge", "room"}
        /\ after[c] # "pending"

Told(c) == Unstaged(c) => (event[c] \in lost <=> Resigned(c))

AccountInv ==
    /\ lost \subseteq emitted \ (outbox \union judged)
    /\ \A e \in emitted \ lost :
          e \in outbox \union judged \/ \E c \in Command : event[c] = e /\ Unstaged(c)
    /\ \A c \in Command : Told(c) /\ Draining(c)

--------------------------------------------------------------------------------
(* What is true of the notes stays true: the server takes no verdict back. *)
LEMMA TruthStays ==
    ASSUME judged \subseteq judged'
    PROVE  \A f : True(f) => True(f)'
  BY DEF True

LEMMA NothingIsTrue == Nothing \in [Event -> Note] /\ True(Nothing)
  BY DEF Nothing, Note, True

LEMMA AfterFlushGoesOn ==
    ASSUME TypeOK, NEW c \in Command
    PROVE  /\ AfterFlush(c) \in Steps \ {"scan", "store"}
           /\ job[c] = "drain" => AfterFlush(c) = "room"
  BY DEF AfterFlush, TypeOK, Jobs, Steps

(* Going on changes only what the command itself has in hand. *)
LEMMA GoingOn ==
    ASSUME DeliveryInv, NEW c \in Command, NEW step \in Steps \ {"scan", "store"},
           step = "room" => job[c] = "drain", GoOn(c, step)
    PROVE  /\ pc' \in [Command -> Steps]
           /\ job' \in [Command -> Jobs]
           /\ event' \in [Command -> Event \union {NoEvent}]
           /\ full' \in [Command -> Nat]
           /\ \A d \in Command : Unstaged(d)' => Unstaged(d) /\ event'[d] = event[d]
           /\ \A d \in Command : event'[d] \in {event[d], NoEvent}
           /\ \A d \in Command : Paced(d)'
<1>1. /\ pc \in [Command -> Steps] /\ job \in [Command -> Jobs]
      /\ event \in [Command -> Event \union {NoEvent}] /\ full \in [Command -> Nat]
  BY DEF DeliveryInv, TypeOK
<1>2. pc' = [pc EXCEPT ![c] = step]
  BY DEF GoOn, Goto
<1>2a. \A d \in Command : Paced(d)'
  BY <1>1, <1>2 DEF GoOn, DeliveryInv, EventInv, Paced
<1>3. CASE step = "idle"
  <2>1. /\ job' = [job EXCEPT ![c] = "retry"]
        /\ event' = [event EXCEPT ![c] = NoEvent]
        /\ full' = [full EXCEPT ![c] = 0]
    BY <1>3 DEF GoOn
  <2>2. job'[c] = "retry" /\ "retry" \in Jobs /\ pc'[c] = step
    BY <1>1, <1>2, <2>1 DEF Jobs
  <2>3. \A d \in Command : Unstaged(d)' => Unstaged(d) /\ event'[d] = event[d]
    BY <1>1, <1>2, <2>1, <2>2 DEF Unstaged
  <2> QED
    BY <1>1, <1>2, <2>1, <2>2, <2>3, <1>2a
<1>4. CASE step # "idle"
  BY <1>1, <1>2, <1>4, <1>2a DEF GoOn, Unstaged
<1> QED
  BY <1>3, <1>4

(* A step that leaves the events alone and stages nothing keeps EventInv. *)
LEMMA EventsKept ==
    ASSUME DeliveryInv, UNCHANGED emitted,
           outbox' \subseteq outbox,
           judged' \subseteq outbox \union judged,
           event' \in [Command -> Event \union {NoEvent}],
           \A d \in Command : Unstaged(d)' => Unstaged(d) /\ event'[d] = event[d],
           \A d \in Command : event'[d] \in {event[d], NoEvent},
           \A d \in Command : Paced(d)',
           \A d \in Command : after'[d] \in {"idle", "list", "acknowledge", "pending"}
    PROVE  EventInv'
<1>1. \A c, d \in Command : c # d /\ event'[c] = event'[d] => event'[c] = NoEvent
  BY DEF DeliveryInv, EventInv
<1>2. \A c \in Command :
        Unstaged(c)' => event'[c] # NoEvent /\ event'[c] \notin outbox' \union judged'
  BY DEF DeliveryInv, EventInv
<1>3. /\ outbox' \union judged' \subseteq emitted'
      /\ \A c \in Command : event'[c] # NoEvent => event'[c] \in emitted'
  BY DEF DeliveryInv, EventInv
<1> QED
  BY <1>1, <1>2, <1>3 DEF EventInv

LEMMA InitDelivery == Init => DeliveryInv
<1> SUFFICES ASSUME Init PROVE DeliveryInv
  OBVIOUS
<1>1. TypeOK
  BY NothingIsTrue, DeliveryAssumption DEF Init, TypeOK, Steps, Jobs
<1>2. NotesInv
  BY NothingIsTrue DEF Init, NotesInv
<1>3. FlightInv
  BY FS_EmptySet DEF Init, FlightInv
<1>4. EventInv
  <2>1. \A c \in Command : /\ pc[c] = "idle" /\ job[c] = "retry"
                          /\ event[c] = NoEvent /\ after[c] = "idle"
    BY DEF Init
  <2>2. outbox \union judged \subseteq emitted
    BY DEF Init
  <2>3. \A c \in Command : ~Unstaged(c)
    BY <2>1 DEF Unstaged
  <2> QED
    BY <2>1, <2>2, <2>3 DEF EventInv, Paced
<1> QED
  BY <1>1, <1>2, <1>3, <1>4 DEF DeliveryInv

--------------------------------------------------------------------------------
(* A command that will tell what is true, or writes it, keeps all notes true. *)
LEMMA TellingTrue ==
    ASSUME DeliveryInv, judged \subseteq judged', UNCHANGED noted,
           NEW c \in Command, NEW what \in [Event -> Note], True(what)', NEW next \in Steps,
           Tell(c, what, next)
    PROVE  /\ NotesInv'
           /\ news' \in [Command -> [Event -> Note]] /\ edit' \in [Command -> [Event -> Note]]
           /\ pc' \in [Command -> Steps] /\ after' \in [Command -> Steps]
<1>1. news' = [news EXCEPT ![c] = what] /\ edit' = edit
  BY DEF Tell
<1>2. True(noted)'
  BY TruthStays DEF DeliveryInv, NotesInv, True
<1>4. \A d \in Command : True(news[d])' /\ True(edit[d])'
  BY <1>1 DEF DeliveryInv, NotesInv, TypeOK, True
<1> QED
  BY <1>1, <1>2, <1>4 DEF DeliveryInv, NotesInv, TypeOK, Tell, Goto, Steps

LEMMA WritingTrue ==
    ASSUME DeliveryInv, UNCHANGED <<judged, noted>>,
           NEW c \in Command, NEW file \in [Event -> Note], True(file), NEW next \in Steps,
           Write(c, file, next)
    PROVE  /\ NotesInv'
           /\ news' \in [Command -> [Event -> Note]] /\ edit' \in [Command -> [Event -> Note]]
           /\ pc' \in [Command -> Steps] /\ after' \in [Command -> Steps]
<1>1. news' = [news EXCEPT ![c] = Nothing] /\ edit' = [edit EXCEPT ![c] = file]
  BY DEF Write
<1>2. True(noted)'
  BY DEF DeliveryInv, NotesInv, True
<1>3. \A d \in Command : True(news'[d]) /\ True(edit'[d])
  BY <1>1, NothingIsTrue DEF DeliveryInv, NotesInv, TypeOK
<1>4. \A d \in Command : True(news[d])' /\ True(edit[d])'
  BY <1>3 DEF True
<1> QED
  BY <1>1, <1>2, <1>4, NothingIsTrue
  DEF DeliveryInv, NotesInv, TypeOK, Write, Goto, Steps

--------------------------------------------------------------------------------
(* One lemma per action. *)

LEMMA ReadNotesKeeps ==
    ASSUME DeliveryInv, NEW c \in Command, ReadNotes(c)
    PROVE  DeliveryInv'
<1>1. /\ after[c] \in Steps /\ Noting(news[c]) \in [Event -> Note]
      /\ True(Noting(news[c]))
  BY DEF DeliveryInv, TypeOK, NotesInv, Noting, True
<1>2. /\ Write(c, Noting(news[c]), after[c])
      /\ UNCHANGED <<Files, Work, job, event, full, history>>
      /\ pc[c] = "tell"
  BY DEF ReadNotes
<1> HIDE DEF Noting
<1>3. TypeOK' /\ NotesInv'
  BY <1>1, <1>2, WritingTrue DEF DeliveryInv, TypeOK, Files, Work, history
<1>4. FlightInv'
  BY <1>2 DEF DeliveryInv, FlightInv, Files, Work
<1>5. EventInv'
  BY <1>2, EventsKept
  DEF DeliveryInv, TypeOK, EventInv, Write, Goto, Files, history, Unstaged, Paced, Steps
<1> QED
  BY <1>3, <1>4, <1>5 DEF DeliveryInv

LEMMA WriteNotesKeeps ==
    ASSUME DeliveryInv, NEW c \in Command, WriteNotes(c)
    PROVE  DeliveryInv'
<1>1. /\ GoOn(c, after[c]) /\ noted' = edit[c]
      /\ edit' = [edit EXCEPT ![c] = Nothing]
      /\ after' = [after EXCEPT ![c] = "idle"]
      /\ UNCHANGED <<outbox, judged, Work, news, history>>
  BY DEF WriteNotes
<1>2. after[c] \in Steps \ {"scan", "store"} /\ after[c] # "room"
  BY DEF DeliveryInv, EventInv, Steps
<1>3. TypeOK'
  BY <1>1, <1>2, GoingOn, NothingIsTrue DEF DeliveryInv, TypeOK, Work, history, Steps
<1>4. NotesInv'
  BY <1>1, NothingIsTrue DEF DeliveryInv, NotesInv, TypeOK, True
<1>5. FlightInv'
  BY <1>1 DEF DeliveryInv, FlightInv, Work
<1>6. EventInv'
  BY <1>1, <1>2, GoingOn, EventsKept DEF DeliveryInv, TypeOK, EventInv, history
<1> QED
  BY <1>3, <1>4, <1>5, <1>6 DEF DeliveryInv

(* A fresh event: no command, file or server knows of it. *)
LEMMA DeliverKeeps ==
    ASSUME DeliveryInv, NEW c \in Command, Deliver(c)
    PROVE  DeliveryInv'
<1>1. PICK e \in Event \ emitted : event' = [event EXCEPT ![c] = e] /\ emitted' = emitted \union {e}
  BY DEF Deliver
<1>2. /\ job' = [job EXCEPT ![c] = "deliver"] /\ pc' = [pc EXCEPT ![c] = "scan"]
      /\ UNCHANGED <<Files, Work, Telling, full, lost, kills>>
  BY DEF Deliver, Goto
<1>3. TypeOK'
  BY <1>1, <1>2 DEF DeliveryInv, TypeOK, Files, Work, Telling, Steps, Jobs
<1>4. NotesInv' /\ FlightInv'
  BY <1>2 DEF DeliveryInv, NotesInv, FlightInv, True, Files, Work, Telling
<1>5. EventInv'
  <2>1. \A d \in Command : event'[d] = IF d = c THEN e ELSE event[d]
    BY <1>1 DEF DeliveryInv, TypeOK
  <2>2. e # NoEvent /\ e \notin outbox \union judged
    BY <1>1, DeliveryAssumption DEF DeliveryInv, EventInv
  <2>3. \A d \in Command : Unstaged(d)' => d = c \/ Unstaged(d)
    BY <1>2 DEF DeliveryInv, TypeOK, Unstaged
  <2>4. UNCHANGED <<outbox, judged, after>>
    BY <1>2 DEF Files, Telling
  <2>5. \A d \in Command : event[d] # e
    BY <1>1, <2>2 DEF DeliveryInv, EventInv
  <2> QED
    BY <1>1, <1>2, <2>1, <2>2, <2>3, <2>4, <2>5 DEF DeliveryInv, EventInv, TypeOK, Paced
<1> QED
  BY <1>3, <1>4, <1>5 DEF DeliveryInv

LEMMA ScanKeeps ==
    ASSUME DeliveryInv, NEW c \in Command, Scan(c)
    PROVE  DeliveryInv'
<1>1. /\ pc[c] = "scan" /\ pc' = [pc EXCEPT ![c] = "store"]
      /\ UNCHANGED <<Files, Work, Telling, job, event, full, history>>
  BY DEF Scan, Goto
<1>2. TypeOK'
  BY <1>1 DEF DeliveryInv, TypeOK, Files, Work, Telling, history, Steps
<1>3. NotesInv' /\ FlightInv'
  BY <1>1 DEF DeliveryInv, NotesInv, FlightInv, True, Files, Work, Telling
<1>4. EventInv'
  BY <1>1, EventsKept
  DEF DeliveryInv, TypeOK, EventInv, Files, Telling, history, Unstaged, Paced
<1> QED
  BY <1>2, <1>3, <1>4 DEF DeliveryInv

LEMMA StoreKeeps ==
    ASSUME DeliveryInv, NEW c \in Command, Store(c)
    PROVE  DeliveryInv'
<1> DEFINE e == event[c]
           what == [Nothing EXCEPT ![e] = "queued"]
           next == IF job[c] = "again" THEN "idle" ELSE "list"
<1>1. /\ pc[c] = "store"
      /\ outbox' = outbox \union {e}
      /\ Tell(c, what, next)
      /\ UNCHANGED <<judged, noted, Work, job, event, full, history>>
  BY DEF Store
<1>2. e \in Event /\ e \notin outbox \union judged /\ e \in emitted
  BY <1>1 DEF DeliveryInv, EventInv, TypeOK, Unstaged
<1>3. what \in [Event -> Note] /\ True(what) /\ next \in Steps
  BY DEF Nothing, Note, True, Steps
<1>4. PICK w \in [Event -> Note] : w = what
  BY <1>3
<1> HIDE DEF what
<1>4a. True(w) /\ True(w)'
  BY <1>1, <1>3, <1>4 DEF True
<1> HIDE DEF next
<1>5. TypeOK' /\ NotesInv'
  <2>1. /\ NotesInv'
        /\ news' \in [Command -> [Event -> Note]] /\ edit' \in [Command -> [Event -> Note]]
        /\ pc' \in [Command -> Steps] /\ after' \in [Command -> Steps]
    BY <1>1, <1>3, <1>4, <1>4a, TellingTrue
  <2> QED
    BY <1>1, <1>2, <2>1 DEF DeliveryInv, TypeOK, Work, history
<1>6. FlightInv'
  BY <1>1, FS_AddElement DEF DeliveryInv, FlightInv, Work
<1>7. EventInv'
  <2>1. pc' = [pc EXCEPT ![c] = "tell"] /\ after' = [after EXCEPT ![c] = next]
    BY <1>1 DEF Tell, Goto
  <2>2. job[c] # "drain"
    BY <1>1 DEF DeliveryInv, EventInv, Paced
  <2>3. \A d \in Command : Unstaged(d)' => d # c /\ Unstaged(d)
    BY <1>1, <2>1, <2>2 DEF DeliveryInv, TypeOK, Unstaged
  <2>4. \A d \in Command : d # c => event[d] # e
    BY <1>2, DeliveryAssumption DEF DeliveryInv, EventInv
  <2>5. \A d \in Command : after'[d] \in {"idle", "list", "acknowledge", "pending"}
    BY <2>1 DEF DeliveryInv, EventInv, TypeOK, next
  <2>6. \A d \in Command : Paced(d)'
    BY <1>1, <2>1 DEF DeliveryInv, EventInv, TypeOK, Paced
  <2> QED
    BY <1>1, <1>2, <2>3, <2>4, <2>5, <2>6 DEF DeliveryInv, EventInv, history
<1> QED
  BY <1>5, <1>6, <1>7 DEF DeliveryInv

LEMMA OverflowKeeps ==
    ASSUME DeliveryInv, NEW c \in Command, Overflow(c)
    PROVE  DeliveryInv'
<1> DEFINE e == event[c]
           what == [Nothing EXCEPT ![e] = "overflow"]
           next == IF job[c] = "again" THEN "idle" ELSE "list"
<1>1. /\ pc[c] = "scan"
      /\ Tell(c, what, next)
      /\ UNCHANGED <<Files, Work, event, emitted, kills>>
      /\ lost' \in {lost, lost \union {e}}
      /\ job' \in {job, [job EXCEPT ![c] = "drain"]}
      /\ full' \in {full, [full EXCEPT ![c] = Cardinality(outbox)]}
  BY DEF Overflow
<1>2. e \in Event /\ Cardinality(outbox) \in Nat
  BY <1>1, FS_CardinalityType DEF DeliveryInv, EventInv, FlightInv, TypeOK, Unstaged
<1>3. what \in [Event -> Note] /\ True(what) /\ next \in Steps
  BY DEF Nothing, Note, True, Steps
<1>4. PICK w \in [Event -> Note] : w = what
  BY <1>3
<1> HIDE DEF what
<1>5. True(w) /\ True(w)'
  BY <1>1, <1>3, <1>4 DEF True, Files
<1>6. pc' = [pc EXCEPT ![c] = "tell"] /\ after' = [after EXCEPT ![c] = next]
  BY <1>1 DEF Tell, Goto
<1>7. EventInv'
  <2>1. \A d \in Command : after'[d] \in {"idle", "list", "acknowledge", "pending"}
    BY <1>6 DEF DeliveryInv, EventInv, TypeOK, next
  <2>2. \A d \in Command : pc'[d] \in {"scan", "store"} => d # c /\ pc[d] \in {"scan", "store"}
    BY <1>6 DEF DeliveryInv, TypeOK
  <2>3. \A d \in Command : Unstaged(d)' => Unstaged(d)
    BY <1>1, <2>2 DEF DeliveryInv, TypeOK, Unstaged
  <2>4. \A d \in Command : Paced(d)'
    BY <1>1, <1>6 DEF DeliveryInv, EventInv, TypeOK, Paced
  <2> QED
    BY <1>1, <2>1, <2>3, <2>4, EventsKept DEF DeliveryInv, TypeOK, Files
<1> HIDE DEF next
<1>8. /\ NotesInv'
      /\ news' \in [Command -> [Event -> Note]] /\ edit' \in [Command -> [Event -> Note]]
      /\ pc' \in [Command -> Steps] /\ after' \in [Command -> Steps]
  BY <1>1, <1>3, <1>4, <1>5, TellingTrue DEF Files
<1>9. FlightInv'
  BY <1>1 DEF DeliveryInv, FlightInv, Files, Work
<1>10. job' \in [Command -> Jobs] /\ full' \in [Command -> Nat] /\ lost' \subseteq Event
  BY <1>1, <1>2 DEF DeliveryInv, TypeOK, Jobs
<1>11. TypeOK'
  BY <1>1, <1>8, <1>10 DEF DeliveryInv, TypeOK, Files, Work
<1> QED
  BY <1>7, <1>8, <1>9, <1>11 DEF DeliveryInv

(* The second attempt to stage an event that had no room. *)
LEMMA SecondAttempt ==
    ASSUME DeliveryInv, NEW c \in Command, job[c] = "drain", StageAgain(c),
           UNCHANGED <<Files, Work, Telling, history>>
    PROVE  DeliveryInv'
<1>1. pc' = [pc EXCEPT ![c] = "scan"] /\ job' = [job EXCEPT ![c] = "again"]
      /\ UNCHANGED <<event, full>>
  BY DEF StageAgain, Goto
<1>2. NotesInv' /\ FlightInv'
  BY DEF DeliveryInv, NotesInv, FlightInv, True, Files, Work, Telling
<1>3. TypeOK'
  BY <1>1 DEF DeliveryInv, TypeOK, Files, Work, Telling, history, Steps, Jobs
<1>4. \A d \in Command : Unstaged(d)' => Unstaged(d)
  BY <1>1 DEF DeliveryInv, TypeOK, Unstaged
<1>5. \A d \in Command : Paced(d)'
  BY <1>1 DEF DeliveryInv, TypeOK, EventInv, Paced
<1>6. EventInv'
  BY <1>1, <1>4, <1>5 DEF DeliveryInv, EventInv, Files, Telling, history
<1> QED
  BY <1>2, <1>3, <1>6 DEF DeliveryInv

LEMMA RoomKeeps ==
    ASSUME DeliveryInv, NEW c \in Command, Room(c)
    PROVE  DeliveryInv'
<1>1. pc[c] = "room" /\ UNCHANGED <<Files, Work, Telling, emitted, kills>>
  BY DEF Room
<1>2. NotesInv' /\ FlightInv'
  BY <1>1 DEF DeliveryInv, NotesInv, FlightInv, True, Files, Work, Telling
<1>3. CASE TriesAgain(c) /\ lost' = lost
  BY <1>1, <1>3, SecondAttempt DEF TriesAgain, DeliveryInv, EventInv, Paced, history
<1>4. CASE GoOn(c, "idle") /\ lost' = lost \union {event[c]}
  <2>1. event[c] \in Event
    BY <1>1 DEF DeliveryInv, EventInv, TypeOK, Unstaged, Paced
  <2>2. TypeOK'
    BY <1>1, <1>4, <2>1, GoingOn DEF DeliveryInv, TypeOK, Files, Work, Telling, Steps
  <2>3. EventInv'
    BY <1>1, <1>4, GoingOn, EventsKept
    DEF DeliveryInv, EventInv, TypeOK, Files, Telling, Steps
  <2> QED
    BY <1>2, <2>2, <2>3 DEF DeliveryInv
<1> QED
  BY <1>3, <1>4 DEF Room

LEMMA ListKeeps ==
    ASSUME DeliveryInv, NEW c \in Command, List(c)
    PROVE  DeliveryInv'
<1>1. UNCHANGED <<Files, settled, Telling, history>>
  BY DEF List
<1>2. CASE job[c] = "drain" /\ StageAgain(c) /\ UNCHANGED batch
  BY <1>1, <1>2, SecondAttempt DEF Work
<1>3. ASSUME NEW step \in Steps \ {"scan", "store"}, GoOn(c, step),
             step = "room" => job[c] = "drain",
             batch' \in {batch, [batch EXCEPT ![c] = Batch]}
      PROVE  DeliveryInv'
  <2>1. Batch \subseteq outbox
    BY DEF Batch, Oldest
  <2>2. TypeOK'
    BY <1>1, <1>3, <2>1, GoingOn DEF DeliveryInv, TypeOK, Files, Telling, history
  <2>3. NotesInv' /\ FlightInv'
    BY <1>1, <1>3, <2>1 DEF DeliveryInv, NotesInv, FlightInv, True, TypeOK, Files, Telling
  <2>4. EventInv'
    BY <1>1, <1>3, GoingOn, EventsKept
    DEF DeliveryInv, EventInv, TypeOK, Files, Telling, history
  <2> QED
    BY <2>2, <2>3, <2>4 DEF DeliveryInv
<1>4. CASE GoOn(c, AfterFlush(c)) /\ UNCHANGED batch
  BY <1>3, <1>4, AfterFlushGoesOn DEF DeliveryInv, AfterFlush
<1>5. CASE GoOn(c, "send") /\ batch' = [batch EXCEPT ![c] = Batch]
  BY <1>3, <1>5 DEF Steps
<1> QED
  BY <1>2, <1>4, <1>5 DEF List

(* The server judges some of what was sent; the command will note what it    *)
(* knows of that: the verdicts of a receipt, or that none came.              *)
LEMMA SentAndNoted ==
    ASSUME DeliveryInv, NEW c \in Command,
           NEW arrived \in SUBSET batch[c], NEW covered \in SUBSET arrived,
           NEW next \in {"idle", "pending", "acknowledge"},
           pc[c] = "send",
           judged' = judged \union arrived,
           Tell(c, Verdict(batch[c], covered), next),
           settled' \in {settled, [settled EXCEPT ![c] = covered]},
           batch' = [batch EXCEPT ![c] = {}],
           lost' \subseteq lost \union ({event[c]} \ {NoEvent}),
           UNCHANGED <<outbox, noted, job, event, full, emitted, kills>>
    PROVE  DeliveryInv'
<1>1. /\ batch[c] \subseteq Event /\ batch[c] \subseteq outbox \union judged
      /\ judged \subseteq judged' /\ covered \subseteq judged'
  BY DEF DeliveryInv, FlightInv, TypeOK
<1>2. PICK w \in [Event -> Note] : w = Verdict(batch[c], covered)
  BY DEF Verdict, Note
<1>3. True(w)'
  BY <1>1, <1>2 DEF True, Verdict
<1>4. next \in Steps
  BY DEF Steps
<1>5. /\ NotesInv'
      /\ news' \in [Command -> [Event -> Note]] /\ edit' \in [Command -> [Event -> Note]]
      /\ pc' \in [Command -> Steps] /\ after' \in [Command -> Steps]
  BY <1>1, <1>2, <1>3, <1>4, TellingTrue
<1>6. /\ batch' \in [Command -> SUBSET Event] /\ settled' \in [Command -> SUBSET Event]
      /\ judged' \subseteq Event /\ lost' \subseteq Event
  BY <1>1 DEF DeliveryInv, TypeOK
<1>7. TypeOK'
  BY <1>5, <1>6 DEF DeliveryInv, TypeOK
<1>8. FlightInv'
  BY <1>1 DEF DeliveryInv, FlightInv, TypeOK
<1>9. EventInv'
  <2>1. pc' = [pc EXCEPT ![c] = "tell"] /\ after' = [after EXCEPT ![c] = next]
    BY DEF Tell, Goto
  <2>2. \A d \in Command : Unstaged(d)' => Unstaged(d)
    BY <2>1 DEF DeliveryInv, TypeOK, Unstaged
  <2>3. \A d \in Command : after'[d] \in {"idle", "list", "acknowledge", "pending"}
    BY <2>1 DEF DeliveryInv, TypeOK, EventInv
  <2>4. \A d \in Command : Paced(d)'
    BY <2>1 DEF DeliveryInv, TypeOK, EventInv, Paced
  <2> QED
    BY <1>1, <2>2, <2>3, <2>4, EventsKept DEF DeliveryInv, TypeOK
<1> QED
  BY <1>5, <1>7, <1>8, <1>9 DEF DeliveryInv

LEMMA ReceiveKeeps ==
    ASSUME DeliveryInv, NEW c \in Command, PartAnswer(c)
    PROVE  DeliveryInv'
<1>1. PICK covered \in SUBSET batch[c] : Receive(c, covered)
  BY DEF PartAnswer
<1> QED
  BY <1>1, SentAndNoted DEF Receive, Answered, history

LEMMA NoAnswerKeeps ==
    ASSUME DeliveryInv, NEW c \in Command, NoAnswer(c)
    PROVE  DeliveryInv'
<1>1. PICK arrived \in SUBSET batch[c] : judged' = judged \union arrived
  BY DEF NoAnswer
<1>2. PICK next \in {"idle", "pending", "acknowledge"} : Tell(c, Verdict(batch[c], {}), next)
  BY DEF NoAnswer
<1>3. lost' \subseteq lost \union ({event[c]} \ {NoEvent})
  BY DEF NoAnswer, DeliveryInv, EventInv, Unstaged
<1> QED
  BY <1>1, <1>2, <1>3, SentAndNoted DEF NoAnswer

(* Only what was judged is removed. *)
LEMMA AcknowledgeKeeps ==
    ASSUME DeliveryInv, NEW c \in Command, Acknowledge(c)
    PROVE  DeliveryInv'
<1>1. UNCHANGED <<judged, noted, batch, Telling, history>>
  BY DEF Acknowledge
<1>2. NotesInv'
  BY <1>1 DEF DeliveryInv, NotesInv, True, Telling
<1>3. ASSUME NEW e \in settled[c],
             outbox' = outbox \ {e}, settled' = [settled EXCEPT ![c] = @ \ {e}],
             UNCHANGED <<pc, job, event, full>>
      PROVE  DeliveryInv'
  <2>1. e \in judged
    BY DEF DeliveryInv, FlightInv
  <2>2. TypeOK'
    BY <1>1, <1>3 DEF DeliveryInv, TypeOK, Telling, history
  <2>3. FlightInv'
    BY <1>1, <1>3, <2>1, FS_RemoveElement DEF DeliveryInv, FlightInv, TypeOK
  <2>4. EventInv'
    BY <1>1, <1>3, EventsKept
    DEF DeliveryInv, TypeOK, EventInv, Telling, history, Unstaged, Paced
  <2> QED
    BY <1>2, <2>2, <2>3, <2>4 DEF DeliveryInv
<1>4. CASE GoOn(c, AfterFlush(c)) /\ UNCHANGED <<outbox, settled>>
  <2>1. PICK step \in Steps \ {"scan", "store"} :
          GoOn(c, step) /\ (step = "room" => job[c] = "drain")
    BY <1>4, AfterFlushGoesOn DEF DeliveryInv, AfterFlush
  <2>2. TypeOK'
    BY <1>1, <1>4, <2>1, GoingOn DEF DeliveryInv, TypeOK, Telling, history
  <2>3. FlightInv'
    BY <1>1, <1>4 DEF DeliveryInv, FlightInv
  <2>4. EventInv'
    BY <1>1, <1>4, <2>1, GoingOn, EventsKept DEF DeliveryInv, TypeOK, EventInv, Telling, history
  <2> QED
    BY <1>2, <2>2, <2>3, <2>4 DEF DeliveryInv
<1> QED
  BY <1>3, <1>4 DEF Acknowledge

(* A step to another of the steps that neither stage nor make room. *)
LEMMA MovesOn ==
    ASSUME DeliveryInv, NEW c \in Command, NEW step \in Steps \ {"scan", "store", "room"},
           pc' = [pc EXCEPT ![c] = step],
           UNCHANGED <<Files, settled, edit, after, event, full, history>>,
           job' \in {job, [job EXCEPT ![c] = "fold"], [job EXCEPT ![c] = "ack"]},
           batch' \in [Command -> SUBSET Event],
           \A d \in Command : batch'[d] \subseteq batch[d] \union outbox,
           news' \in [Command -> [Event -> Note]], \A d \in Command : True(news'[d])
    PROVE  DeliveryInv'
<1>1. TypeOK'
  BY DEF DeliveryInv, TypeOK, Files, history, Jobs
<1>2. \A d \in Command : True(news[d])'
  BY DEF True, Files
<1>3. NotesInv'
  BY <1>2 DEF DeliveryInv, NotesInv, True, Files
<1>4. FlightInv'
  BY DEF DeliveryInv, FlightInv, TypeOK, Files
<1>5. \A d \in Command : Unstaged(d)' => Unstaged(d)
  BY DEF DeliveryInv, TypeOK, Unstaged
<1>6. \A d \in Command : Paced(d)'
  BY DEF DeliveryInv, TypeOK, EventInv, Paced
<1>7. EventInv'
  BY <1>5, <1>6, EventsKept DEF DeliveryInv, TypeOK, EventInv, Files, history
<1> QED
  BY <1>1, <1>3, <1>4, <1>7 DEF DeliveryInv

LEMMA RetryKeeps ==
    ASSUME DeliveryInv, NEW c \in Command, Retry(c) \/ ListPending(c) \/ ListPresent(c)
    PROVE  DeliveryInv'
<1>1. Oldest \subseteq outbox
  BY DEF Oldest
<1>2. CASE Retry(c)
  BY <1>2, MovesOn
  DEF Retry, Goto, DeliveryInv, TypeOK, NotesInv, Steps, Work, Telling
<1>3. CASE ListPending(c)
  BY <1>1, <1>3, MovesOn
  DEF ListPending, Goto, DeliveryInv, TypeOK, NotesInv, Steps, Telling
<1>4. CASE ListPresent(c)
  <2>1. PICK found :
          found = [e \in Event |-> IF e \in batch[c] THEN "none"
                                  ELSE IF e \in outbox THEN "mismatch" ELSE "missing"]
    OBVIOUS
  <2>2. news' = [news EXCEPT ![c] = found]
    BY <1>4, <2>1 DEF ListPresent
  <2>3. found \in [Event -> Note] /\ \A e \in Event : found[e] \in {"none", "mismatch", "missing"}
    BY <2>1 DEF Note
  <2>4. True(found)
    BY <2>3 DEF True
  <2>5. news' \in [Command -> [Event -> Note]] /\ \A d \in Command : True(news'[d])
    BY <2>2, <2>3, <2>4 DEF DeliveryInv, TypeOK, NotesInv
  <2> QED
    BY <1>4, <2>5, MovesOn DEF ListPresent, Goto, DeliveryInv, TypeOK, Steps
<1> QED
  BY <1>2, <1>3, <1>4

(* Whatever replaces the file of notes without a new verdict. *)
LEMMA RewriteKeeps ==
    ASSUME DeliveryInv, NEW c \in Command, NEW file \in [Event -> Note], True(file),
           Write(c, file, "idle"),
           UNCHANGED <<Files, Work, event, full, history>>,
           job' \in {job, [job EXCEPT ![c] = "fold"], [job EXCEPT ![c] = "ack"]}
    PROVE  DeliveryInv'
<1>1. "idle" \in Steps
  BY DEF Steps
<1>2. /\ NotesInv'
      /\ news' \in [Command -> [Event -> Note]] /\ edit' \in [Command -> [Event -> Note]]
      /\ pc' \in [Command -> Steps] /\ after' \in [Command -> Steps]
  BY <1>1, WritingTrue DEF Files
<1>3. TypeOK'
  BY <1>2 DEF DeliveryInv, TypeOK, Files, Work, history, Jobs
<1>4. FlightInv'
  BY DEF DeliveryInv, FlightInv, Files, Work
<1>5. EventInv'
  <2>1. pc' = [pc EXCEPT ![c] = "save"] /\ after' = [after EXCEPT ![c] = "idle"]
    BY DEF Write, Goto
  <2>2. \A d \in Command : Unstaged(d)' => Unstaged(d)
    BY <2>1 DEF DeliveryInv, TypeOK, Unstaged
  <2>3. \A d \in Command : Paced(d)'
    BY <2>1 DEF DeliveryInv, TypeOK, EventInv, Paced
  <2>4. \A d \in Command : after'[d] \in {"idle", "list", "acknowledge", "pending"}
    BY <2>1 DEF DeliveryInv, TypeOK, EventInv
  <2> QED
    BY <2>2, <2>3, <2>4, EventsKept DEF DeliveryInv, TypeOK, Files, history
<1> QED
  BY <1>2, <1>3, <1>4, <1>5 DEF DeliveryInv

LEMMA HousekeepingKeeps ==
    ASSUME DeliveryInv, NEW c \in Command, Fold(c) \/ Ack(c)
    PROVE  DeliveryInv'
<1>1. noted \in [Event -> Note] /\ True(noted)
  BY DEF DeliveryInv, NotesInv, TypeOK
<1>2. CASE Fold(c)
  <2>1. PICK file \in {noted, Nothing} : Write(c, file, "idle")
    BY <1>2 DEF Fold
  <2>2. file \in [Event -> Note] /\ True(file)
    BY <1>1, <2>1, NothingIsTrue
  <2> QED
    BY <1>2, <2>1, <2>2, RewriteKeeps DEF Fold
<1>3. CASE Ack(c)
  <2>1. PICK file : /\ file = [e \in Event |-> IF noted[e] \in Terminal THEN "none" ELSE noted[e]]
                    /\ Write(c, file, "idle")
    BY <1>3 DEF Ack
  <2>2. file \in [Event -> Note] /\ True(file)
    BY <1>1, <2>1 DEF Note, True
  <2> QED
    BY <1>3, <2>1, <2>2, RewriteKeeps DEF Ack
<1> QED
  BY <1>2, <1>3

LEMMA ReconcileKeeps ==
    ASSUME DeliveryInv, NEW c \in Command, Reconcile(c)
    PROVE  DeliveryInv'
<1>1. noted \in [Event -> Note] /\ True(noted) /\ news[c] \in [Event -> Note] /\ True(news[c])
  BY DEF DeliveryInv, NotesInv, TypeOK
<1>2. Reconciled(news[c]) \in [Event -> Note] /\ True(Reconciled(news[c]))
  BY <1>1 DEF Reconciled, True
<1>3. UNCHANGED <<Files, Work, history>>
  BY DEF Reconcile
<1>4. ASSUME NEW aged \in SUBSET Event,
             Write(c, [e \in Event |-> IF e \in aged THEN "none"
                                       ELSE Reconciled(news[c])[e]], "idle"),
             UNCHANGED <<job, event, full>>
      PROVE  DeliveryInv'
  <2>1. PICK file : /\ file = [e \in Event |-> IF e \in aged THEN "none"
                                                ELSE Reconciled(news[c])[e]]
                    /\ Write(c, file, "idle")
    BY <1>4
  <2>2. file \in [Event -> Note] /\ True(file)
    BY <1>2, <2>1 DEF Note, True
  <2> QED
    BY <1>3, <1>4, <2>1, <2>2, RewriteKeeps
<1>5. CASE /\ GoOn(c, "idle")
           /\ news' = [news EXCEPT ![c] = Nothing]
           /\ UNCHANGED <<edit, after>>
  <2>1. NotesInv'
    BY <1>3, <1>5, NothingIsTrue DEF DeliveryInv, NotesInv, TypeOK, True, Files
  <2>2. TypeOK'
    BY <1>3, <1>5, GoingOn, NothingIsTrue DEF DeliveryInv, TypeOK, Files, Work, history, Steps
  <2>3. FlightInv'
    BY <1>3 DEF DeliveryInv, FlightInv, Files, Work
  <2>4. EventInv'
    BY <1>3, <1>5, GoingOn, EventsKept DEF DeliveryInv, EventInv, TypeOK, Files, history, Steps
  <2> QED
    BY <2>1, <2>2, <2>3, <2>4 DEF DeliveryInv
<1> QED
  BY <1>4, <1>5 DEF Reconcile

LEMMA KilledKeeps ==
    ASSUME DeliveryInv, NEW c \in Command, Killed(c)
    PROVE  DeliveryInv'
<1>1. /\ kills < MaxKills /\ kills' = kills + 1
      /\ GoOn(c, "idle")
      /\ batch' = [batch EXCEPT ![c] = {}]
      /\ settled' = [settled EXCEPT ![c] = {}]
      /\ news' = [news EXCEPT ![c] = Nothing]
      /\ edit' = [edit EXCEPT ![c] = Nothing]
      /\ after' = [after EXCEPT ![c] = "idle"]
      /\ UNCHANGED <<Files, emitted>>
  BY DEF Killed
<1>2. lost' \subseteq Event
  BY DEF Killed, DeliveryInv, TypeOK
<1>3. kills' \in 0..MaxKills
  BY <1>1, DeliveryAssumption DEF DeliveryInv, TypeOK
<1>4. TypeOK'
  BY <1>1, <1>2, <1>3, GoingOn, NothingIsTrue DEF DeliveryInv, TypeOK, Files, Steps
<1>5. NotesInv'
  BY <1>1, NothingIsTrue DEF DeliveryInv, NotesInv, TypeOK, True, Files
<1>6. FlightInv'
  BY <1>1 DEF DeliveryInv, FlightInv, TypeOK, Files
<1>7. EventInv'
  BY <1>1, GoingOn, EventsKept DEF DeliveryInv, EventInv, TypeOK, Files, Steps
<1> QED
  BY <1>4, <1>5, <1>6, <1>7 DEF DeliveryInv

LEMMA StutterKeeps ==
    ASSUME DeliveryInv, UNCHANGED vars
    PROVE  DeliveryInv'
  BY DEF DeliveryInv, TypeOK, NotesInv, True, FlightInv, EventInv, Unstaged, Paced,
         vars, command, history

LEMMA StepKeeps ==
    ASSUME DeliveryInv, [Next]_vars
    PROVE  DeliveryInv'
<1>1. CASE UNCHANGED vars
  BY <1>1, StutterKeeps
<1>2. ASSUME NEW c \in Command, Invoked(c) PROVE DeliveryInv'
  BY <1>2, DeliverKeeps, RetryKeeps, HousekeepingKeeps DEF Invoked
<1>3. ASSUME NEW c \in Command, Staging(c) PROVE DeliveryInv'
  BY <1>3, ScanKeeps, StoreKeeps, OverflowKeeps, RoomKeeps DEF Staging
<1>4. ASSUME NEW c \in Command, Flush(c) PROVE DeliveryInv'
  BY <1>4, ListKeeps, ReceiveKeeps, NoAnswerKeeps, AcknowledgeKeeps DEF Flush
<1>5. ASSUME NEW c \in Command, Noted(c) \/ Reconciling(c) PROVE DeliveryInv'
  BY <1>5, ReadNotesKeeps, WriteNotesKeeps, RetryKeeps, ReconcileKeeps DEF Noted, Reconciling
<1> QED
  BY <1>1, <1>2, <1>3, <1>4, <1>5, KilledKeeps DEF Next, Step

--------------------------------------------------------------------------------
(* The conjuncts of DeliveryInv hold in every state that is reached. *)
THEOREM DeliveryInvariant == Spec => []DeliveryInv
<1>1. DeliveryInv /\ [Next]_vars => DeliveryInv'
  BY StepKeeps
<1> QED
  BY InitDelivery, <1>1, PTL DEF Spec

(* Every variable keeps its type (the state of file-outbox.mjs and           *)
(* capture-state.mjs, and of the commands that use them).                    *)
THEOREM TypeCorrect == Spec => []TypeOK
<1>1. DeliveryInv => TypeOK
  BY DEF DeliveryInv
<1> QED
  BY DeliveryInvariant, <1>1, PTL

(* The notes of recordCaptureTransitions are never false of a verdict: an    *)
(* event noted as delivered was accepted, one noted as rejected rejected,    *)
(* although nothing orders the writers of the file.                          *)
THEOREM NotesAreAlwaysTrue == Spec => []NotesAreTrue
<1>1. DeliveryInv => NotesAreTrue
  BY DEF DeliveryInv, NotesInv, True, NotesAreTrue
<1> QED
  BY DeliveryInvariant, <1>1, PTL

--------------------------------------------------------------------------------
(* Each step of the commands is a step of the promise, or changes neither    *)
(* the outbox nor what was judged.                                           *)
LEMMA StepOfThePromise ==
    ASSUME DeliveryInv, [Next]_vars
    PROVE  [Promise!Next]_(Promise!vars)
<1>1. CASE UNCHANGED vars
  BY <1>1 DEF vars, Promise!vars
<1>2. ASSUME NEW c \in Command, UNCHANGED <<outbox, judged>>
      PROVE  UNCHANGED Promise!vars
  BY <1>2 DEF Promise!vars
<1>3. ASSUME NEW c \in Command, Store(c) PROVE Promise!Next
  <2>1. /\ pc[c] = "store" /\ outbox' = outbox \union {event[c]} /\ judged' = judged
    BY <1>3 DEF Store
  <2>2. event[c] \in Event /\ event[c] \notin outbox \union judged
    BY <2>1 DEF DeliveryInv, EventInv, TypeOK, Unstaged
  <2>3. Promise!Entrust(event[c])
    BY <2>1, <2>2 DEF Promise!Entrust
  <2> QED
    BY <2>2, <2>3 DEF Promise!Next
<1>4. ASSUME NEW c \in Command, NEW arrived \in SUBSET batch[c],
             judged' = judged \union arrived, outbox' = outbox
      PROVE  Promise!Next
  <2>1. arrived \subseteq Event /\ arrived \subseteq outbox \union judged
    BY DEF DeliveryInv, FlightInv, TypeOK
  <2>2. Promise!Judge(arrived)
    BY <1>4, <2>1 DEF Promise!Judge
  <2> QED
    BY <2>1, <2>2 DEF Promise!Next
<1>5. ASSUME NEW c \in Command, NEW e \in settled[c], outbox' = outbox \ {e}, judged' = judged
      PROVE  [Promise!Next]_(Promise!vars)
  <2>1. e \in Event /\ e \in judged
    BY DEF DeliveryInv, FlightInv, TypeOK
  <2>2. CASE e \in outbox
    BY <1>5, <2>1, <2>2 DEF Promise!LetGo, Promise!Next
  <2>3. CASE e \notin outbox
    BY <1>5, <2>3 DEF Promise!vars
  <2> QED
    BY <2>2, <2>3
<1>6. ASSUME NEW c \in Command, Flush(c) PROVE [Promise!Next]_(Promise!vars)
  <2>1. CASE List(c)
    BY <2>1, <1>2 DEF List, Files
  <2>2. CASE PartAnswer(c)
    BY <2>2, <1>4 DEF PartAnswer, Receive
  <2>3. CASE NoAnswer(c)
    BY <2>3, <1>4 DEF NoAnswer
  <2>4. CASE Acknowledge(c)
    BY <2>4, <1>2, <1>5 DEF Acknowledge
  <2> QED
    BY <1>6, <2>1, <2>2, <2>3, <2>4 DEF Flush
<1>7. ASSUME NEW c \in Command,
             Scan(c) \/ Overflow(c) \/ Room(c) \/ Noted(c) \/ Reconciling(c) \/ Invoked(c) \/ Killed(c)
      PROVE  UNCHANGED <<outbox, judged>>
  BY <1>7 DEF Scan, Overflow, Room, Noted, ReadNotes, WriteNotes, Reconciling, ListPending,
              ListPresent, Reconcile, Invoked, Deliver, Retry, Fold, Ack, Killed, Files
<1> QED
  BY <1>1, <1>2, <1>3, <1>6, <1>7 DEF Next, Step, Staging

(* The outbox of file-outbox.mjs, emptied by any number of commands at once, *)
(* implements AtLeastOnce: an event stays until the server has judged it.    *)
THEOREM OutboxKeepsItsPromise == Spec => KeepsUntilJudged
<1>1. Init => Promise!Init
  BY DEF Init, Promise!Init
<1>2. DeliveryInv /\ [Next]_vars => [Promise!Next]_(Promise!vars)
  BY StepOfThePromise
<1> QED
  BY DeliveryInvariant, <1>1, <1>2, PTL DEF Spec, KeepsUntilJudged, Promise!Spec

--------------------------------------------------------------------------------
(* What becomes of each event.                                               *)

LEMMA InitAccount == Init => AccountInv
<1> SUFFICES ASSUME Init PROVE AccountInv
  OBVIOUS
<1>1. \A c \in Command : pc[c] = "idle" /\ job[c] = "retry"
  BY DEF Init
<1>2. \A c \in Command : Told(c) /\ Draining(c)
  BY <1>1 DEF Told, Draining, Unstaged
<1> QED
  BY <1>2 DEF Init, AccountInv

(* A step that stages nothing: whoever gives up its event reports it lost.   *)
LEMMA AccountKept ==
    ASSUME DeliveryInv, AccountInv, UNCHANGED emitted,
           outbox' \union judged' = outbox \union judged,
           NEW gone \in SUBSET emitted, gone \intersect (outbox \union judged) = {},
           lost' = lost \union gone,
           \A d \in Command : Unstaged(d)' => Unstaged(d),
           \A d \in Command : Unstaged(d)' => event'[d] = event[d],
           \A d \in Command : Unstaged(d) /\ ~Unstaged(d)' => event[d] \in lost',
           \A d \in Command : Told(d)' /\ Draining(d)'
    PROVE  AccountInv'
<1>1. lost' \subseteq emitted' \ (outbox' \union judged')
  <2>1. lost \subseteq emitted \ (outbox \union judged)
    BY DEF AccountInv
  <2> QED
    BY <2>1
<1>2. ASSUME NEW e \in emitted' \ lost', e \notin outbox' \union judged'
      PROVE  \E c \in Command : event'[c] = e /\ Unstaged(c)'
  <2>1. PICK c \in Command : event[c] = e /\ Unstaged(c)
    BY <1>2 DEF AccountInv
  <2>2. Unstaged(c)'
    BY <1>2, <2>1
  <2> QED
    BY <2>1, <2>2
<1> QED
  BY <1>1, <1>2 DEF AccountInv

(* A step of c that keeps its event and reports nothing. *)
LEMMA NothingReported ==
    ASSUME DeliveryInv, AccountInv, NEW c \in Command, UNCHANGED <<emitted, lost>>,
           outbox' \union judged' = outbox \union judged,
           \A d \in Command \ {c} : /\ pc'[d] = pc[d] /\ job'[d] = job[d]
                                    /\ event'[d] = event[d] /\ after'[d] = after[d],
           Unstaged(c)' <=> Unstaged(c),
           Unstaged(c) => event'[c] = event[c],
           Unstaged(c) => (Resigned(c)' <=> Resigned(c)),
           Draining(c)'
    PROVE  AccountInv'
<1>1. \A d \in Command \ {c} : (Unstaged(d)' <=> Unstaged(d)) /\ (Resigned(d)' <=> Resigned(d))
  BY DEF Unstaged, Resigned
<1>2. \A d \in Command : Draining(d)'
  BY DEF Draining, AccountInv
<1>3. \A d \in Command \ {c} : Told(d)'
  BY <1>1 DEF Told, AccountInv
<1>4. Told(c)'
  BY DEF Told, AccountInv
<1>5. \A d \in Command : Unstaged(d)' <=> Unstaged(d)
  BY <1>1
<1>6. \A d \in Command : Unstaged(d)' => event'[d] = event[d]
  BY <1>5
<1>7. \A d \in Command : Told(d)' /\ Draining(d)'
  BY <1>2, <1>3, <1>4
<1>8. \A d \in Command : Unstaged(d)' => Unstaged(d)
  BY <1>5
<1>9. \A d \in Command : Unstaged(d) /\ ~Unstaged(d)' => event[d] \in lost'
  BY <1>5
<1>10. PICK gone \in SUBSET emitted : gone = {}
  OBVIOUS
<1>11. gone \intersect (outbox \union judged) = {} /\ lost' = lost \union gone
  BY <1>10
<1> QED
  BY <1>6, <1>7, <1>8, <1>9, <1>11, AccountKept

(* A step of c that reports its event, or leaves an event reported before.   *)
LEMMA OneReported ==
    ASSUME DeliveryInv, AccountInv, NEW c \in Command, UNCHANGED emitted,
           event[c] \in emitted, event[c] \notin outbox \union judged,
           lost' = lost \union {event[c]},
           outbox' \union judged' = outbox \union judged,
           \A d \in Command \ {c} : /\ pc'[d] = pc[d] /\ job'[d] = job[d]
                                    /\ event'[d] = event[d] /\ after'[d] = after[d],
           Unstaged(c)' => Unstaged(c) /\ event'[c] = event[c] /\ Resigned(c)',
           Draining(c)'
    PROVE  AccountInv'
<1>1. \A d \in Command \ {c} : (Unstaged(d)' <=> Unstaged(d)) /\ (Resigned(d)' <=> Resigned(d))
  BY DEF Unstaged, Resigned
<1>2. \A d \in Command : Draining(d)'
  BY DEF Draining, AccountInv
<1>3. \A d \in Command \ {c} : Unstaged(d) => event[d] # event[c]
  BY DEF DeliveryInv, EventInv
<1>4. \A d \in Command \ {c} : Told(d)'
  BY <1>1, <1>3 DEF Told, AccountInv
<1>5. Told(c)'
  BY DEF Told
<1>6. \A d \in Command : Told(d)' /\ Draining(d)'
  BY <1>2, <1>4, <1>5
<1>7. \A d \in Command : Unstaged(d)' => Unstaged(d)
  BY <1>1
<1>8. \A d \in Command : Unstaged(d)' => event'[d] = event[d]
  BY <1>1
<1>9. \A d \in Command : Unstaged(d) /\ ~Unstaged(d)' => event[d] \in lost'
  BY <1>1
<1>10. PICK gone \in SUBSET emitted : gone = {event[c]}
  OBVIOUS
<1>11. gone \intersect (outbox \union judged) = {} /\ lost' = lost \union gone
  BY <1>10
<1> QED
  BY <1>6, <1>7, <1>8, <1>9, <1>11, AccountKept

(* Retries, reconciliation and housekeeping have no event of their own. *)
LEMMA NoEventAtStake ==
    ASSUME DeliveryInv, AccountInv, NEW c \in Command, UNCHANGED <<emitted, lost, outbox, judged>>,
           NEW step \in {"idle", "list", "present", "reconcile", "save"},
           pc[c] \in {"idle", "pending", "present", "reconcile"},
           pc' = [pc EXCEPT ![c] = step], job'[c] # "drain",
           \A d \in Command \ {c} : /\ job'[d] = job[d] /\ event'[d] = event[d]
                                    /\ after'[d] = after[d]
    PROVE  AccountInv'
<1>1. \A d \in Command \ {c} : /\ pc'[d] = pc[d] /\ job'[d] = job[d]
                               /\ event'[d] = event[d] /\ after'[d] = after[d]
  BY DEF DeliveryInv, TypeOK
<1>2. job[c] # "drain" /\ pc'[c] = step
  BY DEF AccountInv, Draining, DeliveryInv, TypeOK
<1>3. ~Unstaged(c) /\ ~Unstaged(c)' /\ Draining(c)'
  BY <1>2 DEF Unstaged, Draining
<1> QED
  BY <1>1, <1>3, NothingReported

LEMMA RestAccounted ==
    ASSUME DeliveryInv, AccountInv, NEW c \in Command,
           Retry(c) \/ Fold(c) \/ Ack(c) \/ ListPending(c) \/ ListPresent(c) \/ Reconcile(c)
    PROVE  AccountInv'
<1>1. job[c] # "drain" \/ pc[c] \notin {"idle", "pending", "present", "reconcile"}
  BY DEF AccountInv, Draining
<1>2. PICK step \in {"idle", "list", "present", "reconcile", "save"} : pc' = [pc EXCEPT ![c] = step]
  BY DEF Retry, Fold, Ack, ListPending, ListPresent, Reconcile, Write, GoOn, Goto
<1>3. pc[c] \in {"idle", "pending", "present", "reconcile"}
      /\ UNCHANGED <<emitted, lost, outbox, judged>>
  BY DEF Retry, Fold, Ack, ListPending, ListPresent, Reconcile, Files, history
<1>4. job'[c] # "drain" /\ \A d \in Command \ {c} : job'[d] = job[d] /\ event'[d] = event[d]
  BY <1>1, <1>3 DEF Retry, Fold, Ack, ListPending, ListPresent, Reconcile, GoOn, DeliveryInv, TypeOK
<1>5. \A d \in Command \ {c} : after'[d] = after[d]
  BY DEF Retry, Fold, Ack, ListPending, ListPresent, Reconcile, Write, Telling, DeliveryInv, TypeOK
<1> QED
  BY <1>2, <1>3, <1>4, <1>5, NoEventAtStake

LEMMA DeliverAccounted ==
    ASSUME DeliveryInv, AccountInv, NEW c \in Command, Deliver(c)
    PROVE  AccountInv'
<1>1. PICK e \in Event \ emitted : event' = [event EXCEPT ![c] = e] /\ emitted' = emitted \union {e}
  BY DEF Deliver
<1>2. /\ pc[c] = "idle" /\ pc' = [pc EXCEPT ![c] = "scan"] /\ job' = [job EXCEPT ![c] = "deliver"]
      /\ UNCHANGED <<outbox, judged, after, lost>>
  BY DEF Deliver, Goto, Files, Telling
<1>3. \A d \in Command \ {c} : /\ pc'[d] = pc[d] /\ job'[d] = job[d]
                               /\ event'[d] = event[d] /\ after'[d] = after[d]
  BY <1>1, <1>2 DEF DeliveryInv, TypeOK
<1>4. \A d \in Command \ {c} : /\ Unstaged(d)' <=> Unstaged(d)
                               /\ Resigned(d)' <=> Resigned(d)
                               /\ Draining(d)'
  BY <1>3 DEF Unstaged, Resigned, Draining, AccountInv
<1>5. pc'[c] = "scan" /\ job'[c] = "deliver" /\ event'[c] = e
  BY <1>1, <1>2 DEF DeliveryInv, TypeOK
<1>6. ~Unstaged(c) /\ Unstaged(c)' /\ ~Resigned(c)' /\ Draining(c)'
  BY <1>2, <1>5 DEF Unstaged, Resigned, Draining, AccountInv
<1>7. \A d \in Command : Told(d)' /\ Draining(d)'
  BY <1>1, <1>2, <1>3, <1>4, <1>5, <1>6 DEF Told, AccountInv
<1>8. lost' \subseteq emitted' \ (outbox' \union judged')
  BY <1>1, <1>2 DEF AccountInv
<1>9. ASSUME NEW x \in emitted' \ lost', x \notin outbox' \union judged'
      PROVE  \E d \in Command : event'[d] = x /\ Unstaged(d)'
  <2>1. CASE x = e
    BY <2>1, <1>5, <1>6
  <2>2. CASE x # e
    <3>1. PICK d \in Command : event[d] = x /\ Unstaged(d)
      BY <1>1, <1>2, <1>9, <2>2 DEF AccountInv
    <3> QED
      BY <3>1, <1>3, <1>4, <1>6
  <2> QED
    BY <2>1, <2>2
<1> QED
  BY <1>7, <1>8, <1>9 DEF AccountInv

LEMMA StoreAccounted ==
    ASSUME DeliveryInv, AccountInv, NEW c \in Command, Store(c)
    PROVE  AccountInv'
<1>1. /\ pc[c] = "store" /\ pc' = [pc EXCEPT ![c] = "tell"]
      /\ outbox' = outbox \union {event[c]}
      /\ UNCHANGED <<judged, job, event, emitted, lost>>
      /\ \A d \in Command \ {c} : after'[d] = after[d]
  BY DEF Store, Tell, Goto, history, DeliveryInv, TypeOK
<1>2. Unstaged(c) /\ ~Resigned(c) /\ job[c] # "drain"
  BY <1>1 DEF Unstaged, Resigned, DeliveryInv, EventInv, Paced
<1>3. event[c] \in emitted \ lost
  BY <1>2 DEF AccountInv, Told, DeliveryInv, EventInv
<1>4. \A d \in Command \ {c} : /\ pc'[d] = pc[d]
                               /\ Unstaged(d)' <=> Unstaged(d)
                               /\ Resigned(d)' <=> Resigned(d)
                               /\ Draining(d)'
  BY <1>1 DEF Unstaged, Resigned, Draining, AccountInv, DeliveryInv, TypeOK
<1>5. ~Unstaged(c)' /\ Draining(c)'
  BY <1>1, <1>2 DEF Unstaged, Draining, DeliveryInv, TypeOK
<1>6. \A d \in Command : Told(d)' /\ Draining(d)'
  BY <1>1, <1>4, <1>5 DEF Told, AccountInv
<1>7. lost' \subseteq emitted' \ (outbox' \union judged')
  BY <1>1, <1>3 DEF AccountInv
<1>8. ASSUME NEW x \in emitted' \ lost', x \notin outbox' \union judged'
      PROVE  \E d \in Command : event'[d] = x /\ Unstaged(d)'
  <2>1. PICK d \in Command : event[d] = x /\ Unstaged(d)
    BY <1>1, <1>8 DEF AccountInv
  <2>2. d # c
    BY <1>1, <1>8, <2>1
  <2> QED
    BY <1>1, <1>4, <2>1, <2>2
<1> QED
  BY <1>6, <1>7, <1>8 DEF AccountInv

LEMMA OverflowAccounted ==
    ASSUME DeliveryInv, AccountInv, NEW c \in Command, Overflow(c)
    PROVE  AccountInv'
<1>1. /\ pc[c] = "scan" /\ pc' = [pc EXCEPT ![c] = "tell"]
      /\ after' = [after EXCEPT ![c] = IF job[c] = "again" THEN "idle" ELSE "list"]
      /\ UNCHANGED <<outbox, judged, event, emitted>>
  BY DEF Overflow, Tell, Goto, Files
<1>2. Unstaged(c) /\ ~Resigned(c)
  BY <1>1 DEF Unstaged, Resigned
<1>3. event[c] \in emitted \ lost /\ event[c] \notin outbox \union judged
  BY <1>2 DEF AccountInv, Told, DeliveryInv, EventInv
<1>4. \A d \in Command \ {c} : /\ pc'[d] = pc[d] /\ job'[d] = job[d]
                               /\ event'[d] = event[d] /\ after'[d] = after[d]
  BY <1>1 DEF Overflow, DeliveryInv, TypeOK
<1>5. CASE job[c] = "again"
  <2>1. job'[c] = "again" /\ pc'[c] = "tell" /\ lost' = lost \union {event[c]}
    BY <1>1, <1>5 DEF Overflow, DeliveryInv, TypeOK
  <2>2. ~Unstaged(c)' /\ Draining(c)'
    BY <2>1 DEF Unstaged, Draining
  <2> QED
    BY <1>1, <1>3, <1>4, <2>1, <2>2, OneReported
<1>6. CASE job[c] # "again"
  <2>1. job'[c] = "drain" /\ pc'[c] = "tell" /\ after'[c] = "list" /\ lost' = lost
    BY <1>1, <1>6 DEF Overflow, DeliveryInv, TypeOK
  <2>2. Unstaged(c)' /\ ~Resigned(c)' /\ Draining(c)'
    BY <2>1 DEF Unstaged, Resigned, Draining
  <2> QED
    BY <1>1, <1>2, <1>4, <2>1, <2>2, NothingReported
<1> QED
  BY <1>5, <1>6

LEMMA SecondAttemptAccounted ==
    ASSUME DeliveryInv, AccountInv, NEW c \in Command, StageAgain(c), job[c] = "drain",
           pc[c] \in {"list", "room"}, UNCHANGED <<outbox, judged, after, emitted, lost>>
    PROVE  AccountInv'
<1>1. \A d \in Command \ {c} : /\ pc'[d] = pc[d] /\ job'[d] = job[d]
                               /\ event'[d] = event[d] /\ after'[d] = after[d]
  BY DEF StageAgain, Goto, DeliveryInv, TypeOK
<1>2. pc'[c] = "scan" /\ job'[c] = "again" /\ event'[c] = event[c]
  BY DEF StageAgain, Goto, DeliveryInv, TypeOK
<1>3. Unstaged(c) /\ ~Resigned(c) /\ Unstaged(c)' /\ ~Resigned(c)' /\ Draining(c)'
  BY <1>2 DEF Unstaged, Resigned, Draining
<1> QED
  BY <1>1, <1>2, <1>3, NothingReported

LEMMA RoomAccounted ==
    ASSUME DeliveryInv, AccountInv, NEW c \in Command, Room(c)
    PROVE  AccountInv'
<1>1. pc[c] = "room" /\ UNCHANGED <<outbox, judged, after, emitted>>
  BY DEF Room, Files, Telling
<1>2. job[c] = "drain" /\ Unstaged(c) /\ ~Resigned(c)
  BY <1>1 DEF DeliveryInv, EventInv, Paced, Unstaged, Resigned
<1>3. CASE TriesAgain(c) /\ lost' = lost
  BY <1>1, <1>2, <1>3, SecondAttemptAccounted DEF TriesAgain
<1>4. CASE GoOn(c, "idle") /\ lost' = lost \union {event[c]}
  <2>1. event[c] \in emitted /\ event[c] \notin outbox \union judged
    BY <1>2 DEF DeliveryInv, EventInv
  <2>2. \A d \in Command \ {c} : /\ pc'[d] = pc[d] /\ job'[d] = job[d]
                                 /\ event'[d] = event[d] /\ after'[d] = after[d]
    BY <1>1, <1>4 DEF GoOn, Goto, DeliveryInv, TypeOK
  <2>3. pc'[c] = "idle" /\ job'[c] = "retry"
    BY <1>4 DEF GoOn, Goto, DeliveryInv, TypeOK
  <2>4. ~Unstaged(c)' /\ Draining(c)'
    BY <2>3 DEF Unstaged, Draining
  <2> QED
    BY <1>1, <1>4, <2>1, <2>2, <2>4, OneReported
<1> QED
  BY <1>3, <1>4 DEF Room

(* A step within a flush or a note that keeps the event in hand as it is. *)
LEMMA StaysAtWork ==
    ASSUME DeliveryInv, AccountInv, NEW c \in Command, UNCHANGED <<emitted, lost>>,
           outbox' \union judged' = outbox \union judged,
           NEW step \in Steps \ {"scan", "store"}, pc[c] \notin {"scan", "store"},
           GoOn(c, step), \A d \in Command \ {c} : after'[d] = after[d],
           ~Resigned(c),
           job[c] = "drain" => /\ step \in {"list", "send", "acknowledge", "room"}
                               /\ after'[c] # "pending"
    PROVE  AccountInv'
<1>1. \A d \in Command \ {c} : /\ pc'[d] = pc[d] /\ job'[d] = job[d]
                               /\ event'[d] = event[d] /\ after'[d] = after[d]
  BY DEF GoOn, Goto, DeliveryInv, TypeOK
<1>2. pc'[c] = step
  BY DEF GoOn, Goto, DeliveryInv, TypeOK
<1>3. CASE job[c] = "drain"
  <2>1. job'[c] = job[c] /\ event'[c] = event[c]
    BY <1>3 DEF GoOn
  <2>2. Unstaged(c) /\ Unstaged(c)' /\ ~Resigned(c)' /\ Draining(c)'
    BY <1>2, <1>3, <2>1 DEF Unstaged, Resigned, Draining
  <2> QED
    BY <1>1, <2>1, <2>2, NothingReported
<1>4. CASE job[c] # "drain"
  <2>1. job'[c] # "drain"
    BY <1>4 DEF GoOn, DeliveryInv, TypeOK
  <2>2. ~Unstaged(c) /\ ~Unstaged(c)' /\ Draining(c)'
    BY <1>2, <1>4, <2>1 DEF Unstaged, Draining
  <2> QED
    BY <1>1, <2>2, NothingReported
<1> QED
  BY <1>3, <1>4

LEMMA FlushAccounted ==
    ASSUME DeliveryInv, AccountInv, NEW c \in Command, List(c) \/ Acknowledge(c)
    PROVE  AccountInv'
<1>1. pc[c] \in {"list", "acknowledge"} /\ UNCHANGED <<emitted, lost, judged, after>>
  BY DEF List, Acknowledge, Files, Telling, history
<1>2. ~Resigned(c) /\ Draining(c)
  BY <1>1 DEF Resigned, AccountInv
<1>3. ASSUME NEW e \in settled[c], outbox' = outbox \ {e}, UNCHANGED <<pc, job, event>>
      PROVE  AccountInv'
  <2>1. outbox' \union judged' = outbox \union judged
    BY <1>1, <1>3 DEF DeliveryInv, FlightInv
  <2>2. (Unstaged(c)' <=> Unstaged(c)) /\ (Resigned(c)' <=> Resigned(c)) /\ Draining(c)'
    BY <1>1, <1>2, <1>3 DEF Unstaged, Resigned, Draining
  <2> QED
    BY <1>1, <1>3, <2>1, <2>2, NothingReported
<1>4. CASE outbox' = outbox /\ \E step \in {"send", AfterFlush(c)} : GoOn(c, step)
  <2>1. PICK step \in {"send", AfterFlush(c)} : GoOn(c, step)
    BY <1>4
  <2>2. /\ step \in Steps \ {"scan", "store"}
        /\ job[c] = "drain" => step \in {"list", "send", "acknowledge", "room"}
    BY <2>1, AfterFlushGoesOn DEF DeliveryInv, Steps
  <2> QED
    BY <1>1, <1>2, <1>4, <2>1, <2>2, StaysAtWork DEF Draining
<1>5. CASE List(c) /\ StageAgain(c) /\ job[c] = "drain"
  BY <1>1, <1>5, SecondAttemptAccounted DEF List, Files
<1> QED
  BY <1>3, <1>4, <1>5 DEF List, Acknowledge, Files

LEMMA NotesAccounted ==
    ASSUME DeliveryInv, AccountInv, NEW c \in Command, ReadNotes(c) \/ WriteNotes(c)
    PROVE  AccountInv'
<1>1. pc[c] \in {"tell", "save"} /\ UNCHANGED <<outbox, judged, emitted, lost>>
      /\ \A d \in Command \ {c} : after'[d] = after[d]
  BY DEF ReadNotes, WriteNotes, Write, Files, history, DeliveryInv, TypeOK
<1>2. CASE ReadNotes(c)
  <2>1. pc' = [pc EXCEPT ![c] = "save"] /\ after' = after /\ UNCHANGED <<job, event>>
    BY <1>2 DEF ReadNotes, Write, Goto, DeliveryInv, TypeOK
  <2>2. pc'[c] = "save" /\ \A d \in Command \ {c} : pc'[d] = pc[d]
    BY <2>1 DEF DeliveryInv, TypeOK
  <2>3. (Unstaged(c)' <=> Unstaged(c)) /\ (Resigned(c)' <=> Resigned(c)) /\ Draining(c)'
    BY <1>1, <2>1, <2>2 DEF Unstaged, Resigned, Draining, AccountInv
  <2> QED
    BY <1>1, <2>1, <2>2, <2>3, NothingReported
<1>3. CASE WriteNotes(c)
  <2>1. GoOn(c, after[c]) /\ pc[c] = "save" /\ after'[c] = "idle"
    BY <1>3 DEF WriteNotes, DeliveryInv, TypeOK
  <2>2. after[c] \in {"idle", "list", "acknowledge", "pending"} /\ Draining(c) /\ Told(c)
    BY DEF DeliveryInv, EventInv, AccountInv
  <2>3. CASE Resigned(c)
    <3>1. after[c] = "idle" /\ Unstaged(c)
      BY <2>3 DEF Resigned, Unstaged
    <3>2. event[c] \in lost
      BY <2>2, <2>3, <3>1 DEF Told
    <3>3. event[c] \in emitted /\ event[c] \notin outbox \union judged
      BY <3>2 DEF AccountInv
    <3>4. pc'[c] = "idle" /\ job'[c] = "retry"
      BY <2>1, <3>1 DEF GoOn, Goto, DeliveryInv, TypeOK
    <3>5. ~Unstaged(c)' /\ Draining(c)'
      BY <3>4 DEF Unstaged, Draining
    <3>6. \A d \in Command \ {c} : /\ pc'[d] = pc[d] /\ job'[d] = job[d]
                                   /\ event'[d] = event[d] /\ after'[d] = after[d]
      BY <1>1, <2>1 DEF GoOn, Goto, DeliveryInv, TypeOK
    <3> QED
      BY <1>1, <3>2, <3>3, <3>5, <3>6, OneReported
  <2>4. CASE ~Resigned(c)
    <3>1. after[c] \in Steps \ {"scan", "store"}
      BY <2>2 DEF Steps
    <3>2. job[c] = "drain" => after[c] \in {"list", "send", "acknowledge", "room"}
      BY <2>1, <2>2, <2>4 DEF Resigned, Draining
    <3> QED
      BY <1>1, <2>1, <2>4, <3>1, <3>2, StaysAtWork
  <2> QED
    BY <2>3, <2>4
<1> QED
  BY <1>2, <1>3

LEMMA ScanAccounted ==
    ASSUME DeliveryInv, AccountInv, NEW c \in Command, Scan(c)
    PROVE  AccountInv'
<1>1. /\ pc[c] = "scan" /\ pc' = [pc EXCEPT ![c] = "store"]
      /\ UNCHANGED <<outbox, judged, after, job, event, emitted, lost>>
  BY DEF Scan, Goto, Files, Telling, history
<1>2. pc'[c] = "store" /\ \A d \in Command \ {c} : pc'[d] = pc[d]
  BY <1>1 DEF DeliveryInv, TypeOK
<1>3. job[c] # "drain"
  BY <1>1 DEF DeliveryInv, EventInv, Paced
<1>4. Unstaged(c) /\ Unstaged(c)' /\ ~Resigned(c) /\ ~Resigned(c)' /\ Draining(c)'
  BY <1>1, <1>2, <1>3 DEF Unstaged, Resigned, Draining
<1> QED
  BY <1>1, <1>2, <1>4, NothingReported

LEMMA AnswerAccounted ==
    ASSUME DeliveryInv, AccountInv, NEW c \in Command, PartAnswer(c) \/ NoAnswer(c)
    PROVE  AccountInv'
<1>1. pc[c] = "send" /\ UNCHANGED <<outbox, job, event, emitted>>
  BY DEF PartAnswer, Receive, NoAnswer, history
<1>2. outbox' \union judged' = outbox \union judged
  <2>1. PICK arrived \in SUBSET batch[c] : judged' = judged \union arrived
    BY DEF PartAnswer, Receive, NoAnswer
  <2> QED
    BY <1>1, <2>1 DEF DeliveryInv, FlightInv
<1>3. PICK next \in {"idle", "pending", "acknowledge"} :
        /\ pc' = [pc EXCEPT ![c] = "tell"] /\ after' = [after EXCEPT ![c] = next]
        /\ next = "pending" => job[c] = "retry"
        /\ next # "acknowledge" /\ job[c] = "drain" => lost' = lost \union {event[c]}
        /\ next = "acknowledge" \/ job[c] # "drain" => lost' = lost
  BY DEF PartAnswer, Receive, NoAnswer, Tell, Goto, history
<1>4. \A d \in Command \ {c} : /\ pc'[d] = pc[d] /\ job'[d] = job[d]
                               /\ event'[d] = event[d] /\ after'[d] = after[d]
  BY <1>1, <1>3 DEF DeliveryInv, TypeOK
<1>5. pc'[c] = "tell" /\ after'[c] = next /\ job'[c] = job[c] /\ event'[c] = event[c]
  BY <1>1, <1>3 DEF DeliveryInv, TypeOK
<1>6. ~Resigned(c) /\ (Unstaged(c) <=> job[c] = "drain") /\ (Unstaged(c)' <=> Unstaged(c))
  BY <1>1, <1>5 DEF Unstaged, Resigned
<1>7. Draining(c)'
  BY <1>3, <1>5 DEF Draining
<1>8. CASE next # "acknowledge" /\ job[c] = "drain"
  <2>1. event[c] \in emitted /\ event[c] \notin outbox \union judged
    BY <1>6, <1>8 DEF DeliveryInv, EventInv
  <2>2. Resigned(c)'
    BY <1>3, <1>5, <1>8 DEF Resigned
  <2> QED
    BY <1>1, <1>2, <1>3, <1>4, <1>5, <1>6, <1>7, <1>8, <2>1, <2>2, OneReported
<1>9. CASE next = "acknowledge" \/ job[c] # "drain"
  <2>1. Unstaged(c) => ~Resigned(c)'
    BY <1>5, <1>6, <1>9 DEF Resigned
  <2> QED
    BY <1>1, <1>2, <1>3, <1>4, <1>5, <1>6, <1>7, <1>9, <2>1, NothingReported
<1> QED
  BY <1>8, <1>9

LEMMA KilledAccounted ==
    ASSUME DeliveryInv, AccountInv, NEW c \in Command, Killed(c)
    PROVE  AccountInv'
<1>1. GoOn(c, "idle") /\ UNCHANGED <<outbox, judged, emitted>>
      /\ after' = [after EXCEPT ![c] = "idle"]
  BY DEF Killed, Files
<1>2. \A d \in Command \ {c} : /\ pc'[d] = pc[d] /\ job'[d] = job[d]
                               /\ event'[d] = event[d] /\ after'[d] = after[d]
  BY <1>1 DEF GoOn, Goto, DeliveryInv, TypeOK
<1>3. pc'[c] = "idle" /\ job'[c] = "retry"
  BY <1>1 DEF GoOn, Goto, DeliveryInv, TypeOK
<1>4. ~Unstaged(c)' /\ Draining(c)'
  BY <1>3 DEF Unstaged, Draining
<1>5. CASE event[c] # NoEvent /\ event[c] \notin outbox \union judged
  <2>1. event[c] \in emitted /\ lost' = lost \union {event[c]}
    BY <1>5 DEF Killed, DeliveryInv, EventInv
  <2> QED
    BY <1>1, <1>2, <1>4, <1>5, <2>1, OneReported
<1>6. CASE ~(event[c] # NoEvent /\ event[c] \notin outbox \union judged)
  <2>1. ~Unstaged(c) /\ lost' = lost
    BY <1>6 DEF Killed, DeliveryInv, EventInv
  <2> QED
    BY <1>1, <1>2, <1>4, <2>1, NothingReported
<1> QED
  BY <1>5, <1>6

LEMMA StepAccounted ==
    ASSUME DeliveryInv, AccountInv, [Next]_vars
    PROVE  AccountInv'
<1>1. CASE UNCHANGED vars
  BY <1>1 DEF AccountInv, Told, Draining, Resigned, Unstaged, vars, command, history
<1>2. ASSUME NEW c \in Command, Invoked(c) \/ Reconciling(c) PROVE AccountInv'
  BY <1>2, DeliverAccounted, RestAccounted DEF Invoked, Reconciling
<1>3. ASSUME NEW c \in Command, Staging(c) PROVE AccountInv'
  BY <1>3, ScanAccounted, StoreAccounted, OverflowAccounted, RoomAccounted DEF Staging
<1>4. ASSUME NEW c \in Command, Flush(c) \/ Noted(c) PROVE AccountInv'
  BY <1>4, FlushAccounted, AnswerAccounted, NotesAccounted DEF Flush, Noted
<1> QED
  BY <1>1, <1>2, <1>3, <1>4, KilledAccounted DEF Next, Step

(* No event of deliverCaptureEvent disappears: in every state it is staged,  *)
(* judged, reported as not durable, or still in the hands of its command,    *)
(* and none is reported lost that the server may yet receive.                *)
THEOREM EveryEventIsAccountedFor == Spec => []EveryEventAccountedFor
<1>1. DeliveryInv /\ AccountInv /\ [Next]_vars => AccountInv'
  BY StepAccounted
<1>2. AccountInv => EveryEventAccountedFor
  BY DEF AccountInv, EveryEventAccountedFor, InHand, Unstaged
<1> QED
  BY DeliveryInvariant, InitAccount, <1>1, <1>2, PTL DEF Spec
================================================================================
