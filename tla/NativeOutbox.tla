------------------------------ MODULE NativeOutbox ------------------------------
(***************************************************************************)
(* The durable queue of native telemetry in the managed relay              *)
(* (scripts/managed-otel-relay.mjs): a request is answered once its record *)
(* is on disk, whatever the upstream then says; a drain sends again what   *)
(* is due, and what does not fit or is too old is evicted and counted.     *)
(*                                                                         *)
(* The relay is one thread that yields only while it awaits a body or the  *)
(* upstream: what it does between two awaits is one action, except that it *)
(* can die, or a write can fail, half way through a series of evictions.   *)
(* Only the relay touches the queue while it runs, so its index of the     *)
(* queue is the directory.  Records are numbered as they arrive, which is  *)
(* the order of enqueuedAt.                                                *)
(***************************************************************************)
EXTENDS Integers, Sequences, FiniteSets, FiniteSetsExt

CONSTANTS
    N,            \* the number of records that arrive
    Binding,      \* bindings of a host to a workspace
    MaxRecords,   \* nativeOutboxMaxRecords
    CountCap,     \* the largest evictedCount (1_000_000)
    MaxWait,      \* ticks a deferred record waits at most
    Slots,        \* records one drain takes at most
    MaxTroubles   \* bound on stops of the relay and changes of the configuration

ASSUME OutboxAssumption ==
    /\ N \in Nat /\ MaxRecords \in Nat \ {0} /\ CountCap \in Nat
    /\ MaxWait \in Nat \ {0} /\ Slots \in Nat \ {0}
    /\ MaxTroubles \in Nat
    /\ IsFiniteSet(Binding)

Rec == 1..N
NoRec == 0

VARIABLES
    records,    \* the records on disk
    wait,       \* ticks until a record's nextAttemptAt
    aged,       \* the records older than nativeOutboxMaxAgeMs
    count,      \* evictedCount of each binding
    own,        \* the binding of each record
    req,        \* the request that brought a record
    mode,       \* the relay's process
    inFlight,   \* nativeOutboxInFlight
    draining,   \* nativeOutboxDrainInFlight
    list,       \* what the drain has still to look at
    cur,        \* the record the drain is sending
    seenConfig, \* the configuration the drain has read
    config,     \* the configured bindings
    received,   \* history: the records the upstream has received
    stored,     \* history: the records that were on disk
    troubles    \* stops of the relay and changes of the configuration so far

store == <<records, wait, aged, count, own, stored>>
drain == <<draining, list, cur, seenConfig>>
queueVars == <<store, req, mode, inFlight, drain, config, received, troubles>>

Phases == {"none", "body", "sending", "answered", "refused", "cut"}

QueueTypeOK ==
    /\ records \subseteq Rec /\ aged \subseteq records /\ inFlight \subseteq Rec
    /\ received \subseteq Rec /\ stored \subseteq Rec
    /\ wait \in [Rec -> 0..MaxWait]
    /\ count \in [Binding -> 0..CountCap]
    /\ own \in [Rec -> Binding]
    /\ req \in [Rec -> Phases]
    /\ mode \in {"up", "closing", "last", "down"}
    /\ draining \in BOOLEAN /\ list \in Seq(Rec) /\ cur \in Rec \union {NoRec}
    /\ config \subseteq Binding /\ seenConfig \subseteq Binding
    /\ troubles \in 0..MaxTroubles

QueueInit ==
    /\ records = {} /\ wait = [r \in Rec |-> 0] /\ aged = {}
    /\ count = [b \in Binding |-> 0]
    /\ own \in [Rec -> Binding]
    /\ req = [r \in Rec |-> "none"]
    /\ mode = "up" /\ inFlight = {}
    /\ draining = FALSE /\ list = <<>> /\ cur = NoRec /\ seenConfig = {}
    /\ config = Binding
    /\ received = {} /\ stored = {}
    /\ troubles = 0

--------------------------------------------------------------------------------
(* The store.                                                              *)

(* Records that leave or are looked at are the oldest of a set.            *)
Oldest(S) == {V \in SUBSET S : \A r \in V, x \in S \ V : r < x}

(* The n oldest of a set, in order.                                        *)
Batch(S, n) ==
    {l \in [1..Min({n, Cardinality(S)}) -> S] :
       /\ \A i, j \in DOMAIN l : i < j => l[i] < l[j]
       /\ Range(l) \in Oldest(S)}

(* Records leave in order of age; those beyond the bound on bytes, which   *)
(* is not modelled, may be more than those beyond the bound on their number.*)
(* Mutant: the new record is not counted in.                               *)
MustGoOffByOne == Max({Cardinality(aged), Cardinality(records) - MaxRecords})
MustGo == Max({Cardinality(aged), (Cardinality(records) + 1) - MaxRecords})

(* Mutant: the count has no bound.                                         *)
PlusUnbounded(c, n) == c + n
Plus(c, n) == Min({CountCap, c + n})

CountOf(V) == [b \in Binding |-> Plus(count[b], Cardinality({r \in V : own[r] = b}))]

(* What leaves takes its nextAttemptAt with it.                            *)
Keep(F, w) ==
    /\ records' = F /\ aged' = aged \intersect F
    /\ wait' = [r \in Rec |-> IF r \in F THEN w[r] ELSE 0]

(* An eviction that ends half way has counted what it does not unlink.     *)
(* Mutant: it has unlinked what it does not count.                         *)
EvictionStopsUncounted(V) ==
    \E C \in Oldest(V) : \E U \in Oldest(V) :
        /\ C \subseteq U /\ Cardinality(U) <= Cardinality(C) + 1
        /\ Keep(records \ U, wait) /\ count' = CountOf(C)

EvictionStops(V) ==
    \E C \in Oldest(V) : \E U \in Oldest(V) :
        /\ U \subseteq C /\ Cardinality(C) <= Cardinality(U) + 1
        /\ Keep(records \ U, wait) /\ count' = CountOf(C)

(* What is no longer there is not an error, and a record that cannot be    *)
(* rewritten stays as it is.                                               *)
Defer(r) ==
    /\ IF r \in records THEN \E w \in 0..MaxWait : wait' = [wait EXCEPT ![r] = w] ELSE UNCHANGED wait
    /\ UNCHANGED <<records, aged>>

--------------------------------------------------------------------------------
(* A request: deliverNativeDurably.                                        *)

Arrive(r) ==
    /\ mode = "up" /\ req[r] = "none"
    /\ \A x \in Rec : x < r => req[x] # "none"
    /\ own[r] \in config
    /\ req' = [req EXCEPT ![r] = "body"]
    /\ UNCHANGED <<store, mode, inFlight, drain, config, received, troubles>>

Running == mode \in {"up", "closing", "last"}

Admit(r) ==
    /\ Running /\ req[r] = "body"
    /\ \E V \in Oldest(records) :
         /\ Cardinality(V) >= MustGo
         /\ Keep((records \ V) \union {r}, wait)
         /\ count' = CountOf(V)
    /\ stored' = stored \union {r}
    /\ inFlight' = inFlight \union {r}
    /\ req' = [req EXCEPT ![r] = "sending"]
    /\ UNCHANGED <<own, mode, drain, config, received, troubles>>

(* What is not sanitized, too large or cannot be written is refused.       *)
Refuse(r) ==
    /\ Running /\ req[r] = "body"
    /\ req' = [req EXCEPT ![r] = "refused"]
    /\ EvictionStops(records)
    /\ UNCHANGED <<own, stored, mode, inFlight, drain, config, received, troubles>>

(* The upstream has it; that the record cannot be unlinked is an error of  *)
(* the channel only.                                                       *)
Sent(r) ==
    /\ Running /\ req[r] = "sending"
    /\ received' = received \union {r}
    /\ Keep(records \ {r}, wait) \/ Keep(records, wait)
    /\ inFlight' = inFlight \ {r}
    /\ req' = [req EXCEPT ![r] = "answered"]
    /\ UNCHANGED <<count, own, stored, mode, drain, config, troubles>>

NotSent(r) ==
    /\ Running /\ req[r] = "sending"
    /\ received' \in {received, received \union {r}}
    /\ Defer(r)
    /\ inFlight' = inFlight \ {r}
    /\ req' = [req EXCEPT ![r] = "answered"]
    /\ UNCHANGED <<count, own, stored, mode, drain, config, troubles>>

--------------------------------------------------------------------------------
(* The drain: drainNativeOutbox.                                           *)

Ready(F, w) == {r \in F : w[r] = 0}

(* The records to look at and the configuration are read once.             *)
Take(slots, w) ==
    /\ Keep(records \ aged, w) /\ count' = CountOf(aged)
    /\ list' \in Batch(Ready(records \ aged, w), slots)
    /\ draining' = TRUE /\ seenConfig' = config /\ UNCHANGED cur

(* The interval timer; a drain in progress goes on.                        *)
Tick ==
    /\ mode = "up"
    /\ LET w == [r \in Rec |-> IF wait[r] = 0 THEN 0 ELSE wait[r] - 1]
       IN IF draining THEN Keep(records, w) /\ UNCHANGED <<count, drain>> ELSE Take(Slots, w)
    /\ UNCHANGED <<own, stored, req, mode, inFlight, config, received, troubles>>

(* The queue or the configuration cannot be read.                          *)
TickFails ==
    /\ mode = "up" /\ ~draining
    /\ EvictionStops(aged)
    /\ UNCHANGED <<own, stored, req, mode, inFlight, drain, config, received, troubles>>

DrainSkip ==
    /\ draining /\ cur = NoRec /\ list # <<>> /\ Head(list) \in inFlight
    /\ list' = Tail(list)
    /\ UNCHANGED <<store, req, mode, inFlight, draining, cur, seenConfig, config, received, troubles>>

(* The binding is gone or of another workspace now.                        *)
DrainDefer ==
    /\ draining /\ cur = NoRec /\ list # <<>> /\ Head(list) \notin inFlight
    /\ own[Head(list)] \notin seenConfig
    /\ Defer(Head(list))
    /\ list' = Tail(list)
    /\ UNCHANGED <<count, own, stored, req, mode, inFlight, draining, cur, seenConfig, config, received, troubles>>

DrainSend ==
    /\ draining /\ cur = NoRec /\ list # <<>> /\ Head(list) \notin inFlight
    /\ own[Head(list)] \in seenConfig
    /\ cur' = Head(list) /\ list' = Tail(list)
    /\ inFlight' = inFlight \union {Head(list)}
    /\ UNCHANGED <<store, req, mode, draining, seenConfig, config, received, troubles>>

Forget(r) == inFlight \ {r}

DrainSent ==
    /\ cur # NoRec
    /\ received' = received \union {cur}
    /\ Keep(records \ {cur}, wait) \/ Defer(cur)
    /\ inFlight' = Forget(cur) /\ cur' = NoRec
    /\ UNCHANGED <<count, own, stored, req, mode, draining, list, seenConfig, config, troubles>>

(* Mutant: a failed record stays marked as being sent.                     *)
DrainNotSentKept ==
    /\ cur # NoRec
    /\ received' \in {received, received \union {cur}}
    /\ Defer(cur)
    /\ cur' = NoRec
    /\ UNCHANGED <<count, own, stored, req, mode, inFlight, draining, list, seenConfig, config, troubles>>

DrainNotSent ==
    /\ cur # NoRec
    /\ received' \in {received, received \union {cur}}
    /\ Defer(cur)
    /\ inFlight' = Forget(cur) /\ cur' = NoRec
    /\ UNCHANGED <<count, own, stored, req, mode, draining, list, seenConfig, config, troubles>>

DrainEnds ==
    /\ draining /\ cur = NoRec /\ list = <<>>
    /\ draining' = FALSE /\ seenConfig' = {}
    /\ UNCHANGED <<store, req, mode, inFlight, list, cur, config, received, troubles>>

--------------------------------------------------------------------------------
(* The process.                                                            *)

Trouble == troubles < MaxTroubles /\ troubles' = troubles + 1

Gone ==
    /\ mode' = "down" /\ inFlight' = {}
    /\ draining' = FALSE /\ list' = <<>> /\ cur' = NoRec /\ seenConfig' = {}
    /\ req' = [r \in Rec |-> IF req[r] \in {"body", "sending"} THEN "cut" ELSE req[r]]

(* The relay dies: what is on its way may have arrived, and an eviction    *)
(* may be half done.                                                       *)
RelayDies ==
    /\ Running /\ Trouble
    /\ received' \in {received \union S : S \in SUBSET inFlight}
    /\ IF \E r \in Rec : req[r] = "body" THEN EvictionStops(records)
       ELSE EvictionStops(aged)
    /\ Gone
    /\ UNCHANGED <<own, stored, config>>

(* SIGTERM: no more requests and ticks; after the last answer one record   *)
(* more is drained.                                                        *)
Close ==
    /\ mode = "up" /\ Trouble
    /\ mode' = "closing"
    /\ UNCHANGED <<store, req, inFlight, drain, config, received>>

Answered == \A r \in Rec : req[r] \notin {"body", "sending"}

LastDrain ==
    /\ mode = "closing" /\ Answered
    /\ mode' = "last"
    /\ IF draining THEN UNCHANGED <<records, wait, aged, count, drain>> ELSE Take(1, wait)
    /\ UNCHANGED <<own, stored, req, inFlight, config, received, troubles>>

Exit ==
    /\ mode = "last" /\ ~draining
    /\ Gone
    /\ UNCHANGED <<store, config, received, troubles>>

(* The service starts again and drains at once.                            *)
RelayRestarts ==
    /\ mode = "down"
    /\ mode' = "up"
    /\ Take(Slots, wait)
    /\ UNCHANGED <<own, stored, req, inFlight, config, received, troubles>>

Configure(b) ==
    /\ Trouble
    /\ config' = IF b \in config THEN config \ {b} ELSE config \union {b}
    /\ UNCHANGED <<store, req, mode, inFlight, drain, received>>

(* Time passes for the oldest record that is not too old yet.              *)
Age(r) ==
    /\ r \in records \ aged /\ \A x \in records \ aged : r <= x
    /\ aged' = aged \union {r}
    /\ UNCHANGED <<records, wait, count, own, stored, req, mode, inFlight, drain, config, received, troubles>>

Request(r) == Arrive(r) \/ Admit(r) \/ Refuse(r) \/ Sent(r) \/ NotSent(r)
DrainStep == DrainSkip \/ DrainDefer \/ DrainSend \/ DrainSent \/ DrainNotSent \/ DrainEnds

QueueNext ==
    \/ \E r \in Rec : Request(r) \/ Age(r)
    \/ Tick \/ TickFails \/ DrainStep
    \/ RelayDies \/ Close \/ LastDrain \/ Exit \/ RelayRestarts
    \/ \E b \in Binding : Configure(b)

(* The timer and the event loop run, the supervisor restarts the service,  *)
(* a request to the upstream ends by itself or by its timeout; and an      *)
(* upstream that is tried again and again accepts some time, as the disk   *)
(* lets the record be unlinked.                                            *)
RelayFairness ==
    /\ WF_queueVars(Tick) /\ WF_queueVars(RelayRestarts \/ LastDrain \/ Exit) /\ WF_queueVars(DrainStep)
    /\ WF_queueVars(\E r \in Rec : Admit(r) \/ Refuse(r) \/ Sent(r) \/ NotSent(r))
    /\ \A r \in Rec : SF_queueVars(DrainSent /\ cur = r /\ r \notin records')

QueueSpec == QueueInit /\ [][QueueNext]_queueVars /\ RelayFairness

--------------------------------------------------------------------------------
(* A record that was once on disk is there, has been received upstream, or *)
(* is among those its binding's evictedCount tells of, wherever the relay  *)
(* died and whatever was evicted while it was being sent (admit, evict,    *)
(* acknowledge; the diagnostics of /native-outbox/v1 show that count).     *)
LostUncounted(b) == {r \in stored \ (records \union received) : own[r] = b}

NothingLostSilently ==
    \A b \in Binding : Cardinality(LostUncounted(b)) <= count[b] \/ count[b] = CountCap

(* The queue is bounded, over restarts too (README.md: "separate, bounded, *)
(* owner-only, and replay-safe").                                          *)
Bounded == Cardinality(records) <= MaxRecords

(* When the bindings stay configured every record leaves the queue, be it  *)
(* that requests and drains meet, or that the relay stops, in between      *)
(* (nativeOutboxInFlight, nativeOutboxDrainInFlight and their finally).    *)
QueueEmpties == <>[](config = Binding) => []<>(records = {})
================================================================================
