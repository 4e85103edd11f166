------------------------------ MODULE ArtifactOutbox ------------------------------
(***************************************************************************)
(* Checkpoints of the artifacts of a checkout: specifications, designs and *)
(* issues (scripts/artifact-checkpoints.mjs, runtime/artifacts/contract.mjs)*)
(* A command discovers the documents, queues those whose digest is not the *)
(* one it queued last, and sends the queue.  Nothing locks the directory:  *)
(* every write of state.json puts back what its writer read, several       *)
(* commands may do so at once, and each can die between two file           *)
(* operations.  The health code in state.json is left out; the writes that *)
(* set it are not, because they put back the rest as well.                 *)
(***************************************************************************)
EXTENDS Naturals, Sequences, FiniteSets

CONSTANTS
    Command,        \* commands that may run at once
    Artifact,       \* the documents, by artifact id
    Digest,         \* what a document may contain
    None,           \* no digest
    MaxOutbox,      \* MAX_OUTBOX_ENTRIES
    MaxQuarantine,  \* MAX_QUARANTINE_ENTRIES
    MaxSequence,    \* bound: sequence numbers
    MaxChanges,     \* bound: changes of a document
    MaxStarts,      \* bound: times a command queues or sends
    MaxFaults       \* bound: deaths and requests without an answer

ASSUME OutboxAssumption ==
    /\ None \notin Digest
    /\ MaxOutbox \in Nat \ {0} /\ MaxQuarantine \in Nat \ {0}
    /\ MaxSequence \in Nat \ {0} /\ MaxChanges \in Nat /\ MaxStarts \in Nat /\ MaxFaults \in Nat

VARIABLES
    document,   \* what each document contains
    state,      \* state.json
    outbox,     \* the files revision-*
    quarantine, \* the files quarantine-*
    accepted,   \* history: what the server has accepted
    refused,    \* history: what the server has answered with a conflict
    pc,         \* the next step of each command
    todo,       \* the documents it has found, or the records it has listed, and not gone through
    at,         \* the one it is at
    read,       \* the state it has read
    changes, starts, faults

history == <<accepted, refused>>
local == <<todo, at, read>>
bounds == <<changes, starts, faults>>
vars == <<document, state, outbox, quarantine, history, pc, local, bounds>>

Sequence == 1 .. MaxSequence
Record == [seq : Sequence, id : Artifact, digest : Digest]
Revision == [id : Artifact, digest : Digest]
(* A state that checkpointState accepts; any other makes every command fail*)
(* from then on.                                                           *)
Listed == {S \in SUBSET Record :
             /\ Cardinality(S) <= MaxQuarantine
             /\ \A q, r \in S : q.seq = r.seq => q = r}
State == [next : 1 .. MaxSequence + 1, artifacts : [Artifact -> Digest \union {None}],
          quarantined : Listed]

(* A document that is found has no number yet.                             *)
Item == [seq : 0 .. MaxSequence, id : Artifact, digest : Digest]
NoItem == [seq |-> 0, id |-> None, digest |-> None]

NoState == [next |-> 1, artifacts |-> [a \in Artifact |-> None], quarantined |-> {}]

Steps == {"idle", "queue", "reconcile", "look", "pending", "found", "number", "record",
          "advance", "mark", "marked", "send", "put", "unlink", "removed", "putback",
          "evict", "keep", "rename", "error", "marking"}

TypeOK ==
    /\ document \in [Artifact -> Digest]
    /\ state \in State
    /\ outbox \subseteq Record /\ quarantine \subseteq Record
    /\ accepted \subseteq Revision /\ refused \subseteq Revision
    /\ pc \in [Command -> Steps]
    /\ todo \in [Command -> SUBSET Item]
    /\ at \in [Command -> Item \union {NoItem}]
    /\ read \in [Command -> State]
    /\ changes \in 0 .. MaxChanges /\ starts \in 0 .. MaxStarts /\ faults \in 0 .. MaxFaults

Init ==
    /\ document \in [Artifact -> Digest]
    /\ state = NoState /\ outbox = {} /\ quarantine = {}
    /\ accepted = {} /\ refused = {}
    /\ pc = [c \in Command |-> "idle"]
    /\ todo = [c \in Command |-> {}]
    /\ at = [c \in Command |-> NoItem] /\ read = [c \in Command |-> NoState]
    /\ changes = 0 /\ starts = 0 /\ faults = 0

--------------------------------------------------------------------------------
Goto(c, s) == pc' = [pc EXCEPT ![c] = s] 
Put(f, c, v) == [f EXCEPT ![c] = v]
Rev(i) == [id |-> i.id, digest |-> i.digest]
Count == Cardinality(outbox)

(* The names sort by number.                                               *)
First(S) == {r \in S : \A q \in S : r.seq <= q.seq}

Forget(c) ==
    todo' = Put(todo, c, {}) /\ at' = Put(at, c, NoItem) /\ read' = Put(read, c, NoState)

(* Nothing is carried from queueing to sending or back, so a checkpoint    *)
(* (queue, send) and the retry at the start of a session (send, queue,     *)
(* send) are runs of the same command one after the other.                 *)
Finish(c) == Goto(c, "idle") /\ Forget(c)

(* An error ends it, once it is marked.                                    *)
Break(c) == Goto(c, "error") /\ Forget(c)

Start(c) ==
    /\ pc[c] = "idle" /\ starts < MaxStarts /\ starts' = starts + 1
    /\ \E s \in {"queue", "send"} : Goto(c, s)
    /\ UNCHANGED <<document, state, outbox, quarantine, history, local, changes, faults>>

--------------------------------------------------------------------------------
(* Queueing.                                                               *)

(* Documents are read; those of another checkout that shares the binding,  *)
(* and those that were deleted, are not found.                             *)
Discover(c, S) ==
    /\ pc[c] = "queue"
    /\ todo' = Put(todo, c, {[seq |-> 0, id |-> a, digest |-> document[a]] : a \in S})
    /\ read' = Put(read, c, state)
    /\ Goto(c, "reconcile")
    /\ UNCHANGED <<document, state, outbox, quarantine, history, at, bounds>>

(* The digest of what is not found is dropped.                             *)
Reconcile(c) ==
    LET found == {i.id : i \in todo[c]} IN
    /\ pc[c] = "reconcile"
    /\ state' = IF \E a \in Artifact \ found : read[c].artifacts[a] # None
                  THEN [read[c] EXCEPT !.artifacts =
                          [a \in Artifact |-> IF a \in found THEN read[c].artifacts[a] ELSE None]]
                  ELSE state
    /\ read' = Put(read, c, NoState)
    /\ Goto(c, "look")
    /\ UNCHANGED <<document, outbox, quarantine, history, todo, at, bounds>>

Picks(c, i) == pc[c] = "look" /\ i \in todo[c]
Queued(i) == {r \in outbox : Rev(r) = Rev(i)}

Unchanged(c, i) ==
    /\ Picks(c, i) /\ state.artifacts[i.id] = i.digest
    /\ todo' = Put(todo, c, todo[c] \ {i})
    /\ UNCHANGED <<document, state, outbox, quarantine, history, pc, at, read, bounds>>

Changed(c, i) ==
    /\ Picks(c, i) /\ state.artifacts[i.id] # i.digest
    /\ at' = Put(at, c, i)
    /\ Goto(c, "pending")
    /\ UNCHANGED <<document, state, outbox, quarantine, history, todo, read, bounds>>

FoundQueued(c, r) ==
    /\ pc[c] = "pending" /\ Count <= MaxOutbox /\ r \in Queued(at[c])
    /\ at' = Put(at, c, r)
    /\ Goto(c, "found")
    /\ UNCHANGED <<document, state, outbox, quarantine, history, todo, read, bounds>>

(* The record may have been written without the state after it.            *)
AlreadyQueued(c) ==
    /\ pc[c] = "found"
    /\ read' = Put(read, c, state)
    /\ Goto(c, IF state.next <= at[c].seq THEN "advance" ELSE "mark")
    /\ UNCHANGED <<document, state, outbox, quarantine, history, todo, at, bounds>>

(* Mutant: a document that found no room is taken for queued.              *)
OverflowUnnoticed(c) ==
    /\ pc[c] = "pending" /\ Queued(at[c]) = {} /\ Count = MaxOutbox
    /\ Goto(c, "mark")
    /\ UNCHANGED <<document, state, outbox, quarantine, history, local, bounds>>

Overflow(c) ==
    /\ pc[c] = "pending" /\ Queued(at[c]) = {} /\ Count = MaxOutbox
    /\ Break(c)
    /\ UNCHANGED <<document, state, outbox, quarantine, history, bounds>>

HasRoom(c) ==
    /\ pc[c] = "pending" /\ Queued(at[c]) = {} /\ Count < MaxOutbox
    /\ Goto(c, "number")
    /\ UNCHANGED <<document, state, outbox, quarantine, history, local, bounds>>

Number(c) ==
    /\ pc[c] = "number" /\ state.next <= MaxSequence
    /\ at' = Put(at, c, [at[c] EXCEPT !.seq = state.next])
    /\ read' = Put(read, c, state)
    /\ Goto(c, "record")
    /\ UNCHANGED <<document, state, outbox, quarantine, history, todo, bounds>>

(* More records than that are not read at all.                             *)
Unreadable(c) ==
    /\ Count > MaxOutbox
    /\ pc[c] \in {"pending", "send", "removed"} \/ (pc[c] = "look" /\ todo[c] = {})
    /\ Break(c)
    /\ UNCHANGED <<document, state, outbox, quarantine, history, bounds>>

(* The hook's time is up, or a document cannot be read.                    *)
Late(c) ==
    /\ pc[c] \in {"queue", "look"} /\ faults < MaxFaults /\ faults' = faults + 1
    /\ Break(c)
    /\ UNCHANGED <<document, state, outbox, quarantine, history, changes, starts>>

WriteRecord(c) ==
    /\ pc[c] = "record"
    /\ outbox' = outbox \union {at[c]}
    /\ Goto(c, "advance")
    /\ UNCHANGED <<document, state, quarantine, history, todo, at, read, bounds>>

Advance(c) ==
    /\ pc[c] = "advance"
    /\ state' = [read[c] EXCEPT !.next = at[c].seq + 1]
    /\ Goto(c, "mark")
    /\ UNCHANGED <<document, outbox, quarantine, history, todo, at, read, bounds>>

ReadToMark(c) ==
    /\ pc[c] = "mark"
    /\ read' = Put(read, c, state)
    /\ Goto(c, "marked")
    /\ UNCHANGED <<document, state, outbox, quarantine, history, todo, at, bounds>>

MarkQueued(c) ==
    /\ pc[c] = "marked"
    /\ state' = [read[c] EXCEPT !.artifacts[at[c].id] = at[c].digest]
    /\ todo' = Put(todo, c, {i \in todo[c] : i.id # at[c].id})
    /\ at' = Put(at, c, NoItem) /\ read' = Put(read, c, NoState)
    /\ Goto(c, "look")
    /\ UNCHANGED <<document, outbox, quarantine, history, bounds>>

QueueDone(c) ==
    /\ pc[c] = "look" /\ todo[c] = {} /\ Count <= MaxOutbox
    /\ Finish(c)
    /\ UNCHANGED <<document, state, outbox, quarantine, history, bounds>>

--------------------------------------------------------------------------------
(* Sending, in the order of the names.                                     *)

List(c) ==
    /\ pc[c] = "send" /\ Count <= MaxOutbox
    /\ IF outbox = {} THEN Finish(c)
       ELSE Goto(c, "put") /\ todo' = Put(todo, c, outbox) /\ UNCHANGED <<at, read>>
    /\ UNCHANGED <<document, state, outbox, quarantine, history, bounds>>

Sends(c, r) == pc[c] = "put" /\ r \in First(todo[c])

(* The task is ensured and the revision accepted, or known already.        *)
Accepted(c, r) ==
    /\ Sends(c, r)
    /\ accepted' = accepted \union {Rev(r)}
    /\ at' = Put(at, c, r)
    /\ Goto(c, "unlink")
    /\ UNCHANGED <<document, state, outbox, quarantine, refused, todo, read, bounds>>

(* The server answers either request with CONFIG_CONFLICT.                 *)
Refused(c, r) ==
    /\ Sends(c, r)
    /\ refused' = refused \union {Rev(r)}
    /\ at' = Put(at, c, r) /\ read' = Put(read, c, state)
    /\ Goto(c, "evict")
    /\ UNCHANGED <<document, state, outbox, quarantine, accepted, todo, bounds>>

(* Nothing usable comes back, whether or not the revision arrived.         *)
NoAnswer(c, r) ==
    /\ Sends(c, r) /\ faults < MaxFaults /\ faults' = faults + 1
    /\ accepted' \in {accepted, accepted \union {Rev(r)}}
    /\ Break(c)
    /\ UNCHANGED <<document, state, outbox, quarantine, refused, changes, starts>>

(* Another command may have removed the record.                            *)
Unlink(c) ==
    /\ pc[c] = "unlink"
    /\ outbox' = outbox \ {at[c]}
    /\ IF at[c] \in outbox THEN Goto(c, "removed") /\ UNCHANGED <<todo, at, read>> ELSE Break(c)
    /\ UNCHANGED <<document, state, quarantine, history, bounds>>

ReadAfterRemoval(c) ==
    /\ pc[c] = "removed" /\ Count <= MaxOutbox
    /\ read' = Put(read, c, state)
    /\ Goto(c, "putback")
    /\ UNCHANGED <<document, state, outbox, quarantine, history, todo, at, bounds>>

(* The last one marks the outcome of the whole.                            *)
GoOn(c) ==
    /\ todo' = Put(todo, c, todo[c] \ {at[c]})
    /\ at' = Put(at, c, NoItem) /\ read' = Put(read, c, NoState)
    /\ Goto(c, IF todo[c] = {at[c]} THEN "error" ELSE "put")

PutBack(c) ==
    /\ pc[c] = "putback"
    /\ state' = read[c]
    /\ GoOn(c)
    /\ UNCHANGED <<document, outbox, quarantine, history, bounds>>

(* Mutant: one too many stays.                                             *)
RetainedOneMore(S) == {r \in S : Cardinality({q \in S : q.seq > r.seq}) <= MaxQuarantine}

(* The newest of them stay.                                                *)
Retained(S) == {r \in S : Cardinality({q \in S : q.seq > r.seq}) < MaxQuarantine}

Clash(c) == \E q \in read[c].quarantined : q.seq = at[c].seq /\ q # at[c]

Kept(c) ==
    IF at[c] \in read[c].quarantined THEN read[c].quarantined
    ELSE Retained(read[c].quarantined \union {at[c]})

(* What no longer fits is removed first ...                                *)
Evict(c) ==
    /\ pc[c] = "evict"
    /\ IF Clash(c) THEN Break(c) /\ UNCHANGED quarantine
       ELSE /\ quarantine' = quarantine \ (read[c].quarantined \ Kept(c))
            /\ Goto(c, "keep") /\ UNCHANGED <<todo, at, read>>
    /\ UNCHANGED <<document, state, outbox, history, bounds>>

(* ... and the state is written while the record is still in the queue, so *)
(* that a command that dies in between only sends it again.                *)
Keep(c) ==
    /\ pc[c] = "keep"
    /\ state' = [read[c] EXCEPT !.quarantined = Kept(c)]
    /\ Goto(c, "rename")
    /\ UNCHANGED <<document, outbox, quarantine, history, todo, at, read, bounds>>

(* Mutant: the record is removed instead of renamed.                       *)
RemoveRefused(c) ==
    /\ pc[c] = "rename"
    /\ IF at[c] \in outbox \ quarantine
         THEN /\ outbox' = outbox \ {at[c]} /\ UNCHANGED quarantine
              /\ GoOn(c)
         ELSE Break(c) /\ UNCHANGED <<outbox, quarantine>>
    /\ UNCHANGED <<document, state, history, bounds>>

Rename(c) ==
    /\ pc[c] = "rename"
    /\ IF at[c] \in outbox \ quarantine
         THEN /\ outbox' = outbox \ {at[c]} /\ quarantine' = quarantine \union {at[c]}
              /\ GoOn(c)
         ELSE Break(c) /\ UNCHANGED <<outbox, quarantine>>
    /\ UNCHANGED <<document, state, history, bounds>>

(* markError puts the state back with a code that is not modelled.         *)
ReadToMarkError(c) ==
    /\ pc[c] = "error"
    /\ read' = Put(read, c, state)
    /\ Goto(c, "marking")
    /\ UNCHANGED <<document, state, outbox, quarantine, history, todo, at, bounds>>

MarkError(c) ==
    /\ pc[c] = "marking"
    /\ state' = read[c]
    /\ Finish(c)
    /\ UNCHANGED <<document, outbox, quarantine, history, bounds>>

--------------------------------------------------------------------------------
Die(c) ==
    /\ pc[c] # "idle" /\ faults < MaxFaults /\ faults' = faults + 1
    /\ Finish(c)
    /\ UNCHANGED <<document, state, outbox, quarantine, history, changes, starts>>

Edit(a, d) ==
    /\ changes < MaxChanges /\ changes' = changes + 1
    /\ document' = [document EXCEPT ![a] = d]
    /\ UNCHANGED <<state, outbox, quarantine, history, pc, local, starts, faults>>

Queueing(c) ==
    \/ \E S \in SUBSET Artifact : Discover(c, S)
    \/ Reconcile(c) \/ QueueDone(c) \/ Late(c)
    \/ \E i \in todo[c] : Unchanged(c, i) \/ Changed(c, i)
    \/ \E r \in outbox : FoundQueued(c, r)
    \/ AlreadyQueued(c) \/ Overflow(c) \/ HasRoom(c) \/ Number(c)
    \/ WriteRecord(c) \/ Advance(c) \/ ReadToMark(c) \/ MarkQueued(c)

Sending(c) ==
    \/ List(c)
    \/ \E r \in todo[c] : Accepted(c, r) \/ Refused(c, r) \/ NoAnswer(c, r)
    \/ Unlink(c) \/ ReadAfterRemoval(c) \/ PutBack(c) \/ Evict(c) \/ Keep(c) \/ Rename(c)
    \/ ReadToMarkError(c) \/ MarkError(c) \/ Unreadable(c)

Next ==
    \/ \E c \in Command : Queueing(c) \/ Sending(c) \/ Die(c) \/ Start(c)
    \/ \E a \in Artifact, d \in Digest : Edit(a, d)

Spec == Init /\ [][Next]_vars

--------------------------------------------------------------------------------
(* A digest that suppresses discovery is that of a revision that is in the *)
(* queue, was accepted or was refused: whatever commands overlap and die,  *)
(* no document is taken for queued that is not ("The outbox write is       *)
(* fsync'd before the hash state can suppress discovery").                 *)
NothingForgotten ==
    \A a \in Artifact : state.artifacts[a] # None =>
      LET v == [id |-> a, digest |-> state.artifacts[a]] IN
      v \in accepted \union refused \union {Rev(r) : r \in outbox}

(* A record leaves the queue only for what the server said of it, and what *)
(* it refused is kept ("never loss of the raw evidence"), until a newer    *)
(* refusal that is listed, or that a command is about to list, takes its   *)
(* place.                                                                  *)
LeavesJudged ==
    \A r \in outbox \ outbox' : Rev(r) \in accepted \/ (Rev(r) \in refused /\ r \in quarantine')
Listing == state.quarantined \union UNION {Kept(c) : c \in {d \in Command : pc[d] = "keep"}}
KeptForNewer ==
    \A r \in quarantine \ quarantine' : \E q \in Listing' : q.seq >= r.seq
EvidenceKept == [][LeavesJudged /\ KeptForNewer]_vars
================================================================================
