------------------------------- MODULE CodexClaims -------------------------------
(***************************************************************************)
(* How the managed relay finds out which repository a Codex session works  *)
(* in (scripts/managed-otel-relay.mjs, codex-attribution-state.mjs).  Logs *)
(* of a session nobody has claimed are held in memory; the first claim     *)
(* pins the session to the repository of its directory and sends what was  *)
(* held, one await per entry.  Meanwhile other requests go on: they sweep  *)
(* what was held too long, and a sweep gives every session a new array,    *)
(* while a claim that is sending keeps the old one.                        *)
(*                                                                         *)
(* The relay yields only at awaits.  A request carries the logs of one     *)
(* session here.  A workspace binding takes whatever no repository claims, *)
(* durably (NativeOutbox).                                                 *)
(***************************************************************************)
EXTENDS Integers, Sequences, FiniteSets, FiniteSetsExt

CONSTANTS
    N,            \* the number of requests with logs
    Session,      \* Codex sessions
    Of,           \* the session of each request
    Binding,      \* bindings of repositories
    NoBinding,    \* no binding
    Cap,          \* MAX_CODEX_BUFFERED_RECORDS
    MaxClaims,    \* bound on the number of claims
    MaxTroubles   \* bound on deaths of the relay and changes of the configuration

Rec == 1..N

ASSUME ClaimsAssumption ==
    /\ N \in Nat /\ Cap \in Nat /\ MaxClaims \in Nat /\ MaxTroubles \in Nat
    /\ Of \in [Rec -> Session]
    /\ NoBinding \notin Binding

VARIABLES
    config,     \* the configured bindings of repositories
    workspace,  \* a workspace binding is configured too
    claim,      \* attribution.claims
    pend,       \* unattributed.pendingCount
    rej,        \* unattributed.rejectedCount
    disk,       \* what codex-attribution-state.json says of the three
    held,       \* bufferedRecordCount
    buffer,     \* the arrays of codexBuffers
    asked,      \* the bindings of the claims that wait for their turn
    sendTo,     \* the binding a claim is sending to
    shared,     \* the array it sends from is the one in codexBuffers
    array,      \* that array, when it is another
    req,        \* the request that brings a record
    dest,       \* where that request sends it
    seen,       \* the configuration that request has read
    up,         \* the relay runs
    old,        \* the records held for longer than CODEX_BUFFER_TTL_MS
    forwarded,  \* history: records some binding has received
    rejected,   \* history: records given up and counted
    lost,       \* history: records in memory when the relay died
    orphaned,   \* history: a binding was removed under a claim on it
    claims, troubles   \* bounded counters

attribution == <<claim, pend, rej, disk>>
buffers == <<held, buffer, sendTo, shared, array>>
network == <<req, dest, seen>>
history == <<forwarded, rejected, lost, orphaned>>
settings == <<config, workspace, up>>
vars == <<settings, attribution, buffers, asked, network, old, history, claims, troubles>>

Phases == {"none", "body", "sending", "accepted", "refused"}

TypeOK ==
    /\ config \subseteq Binding /\ workspace \in BOOLEAN /\ up \in BOOLEAN
    /\ claim \in [Session -> Binding \union {NoBinding}]
    /\ pend \in 0..N /\ rej \in Nat
    /\ disk \in [claim : [Session -> Binding \union {NoBinding}], pend : 0..N, rej : Nat]
    /\ held \in Int
    /\ buffer \in [Session -> Seq(Rec)] /\ array \in [Session -> Seq(Rec)]
    /\ asked \in [Session -> Seq(Binding)]
    /\ sendTo \in [Session -> Binding \union {NoBinding}]
    /\ shared \in [Session -> BOOLEAN]
    /\ req \in [Rec -> Phases] /\ dest \in [Rec -> Binding \union {NoBinding}]
    /\ seen \in [Rec -> [config : SUBSET Binding, workspace : BOOLEAN]]
    /\ old \subseteq Rec /\ forwarded \subseteq Rec /\ rejected \subseteq Rec /\ lost \subseteq Rec
    /\ orphaned \in BOOLEAN
    /\ claims \in 0..MaxClaims /\ troubles \in 0..MaxTroubles

Nobody == [s \in Session |-> NoBinding]
Nothing == [s \in Session |-> <<>>]

Init ==
    /\ config = Binding /\ workspace = FALSE /\ up = TRUE
    /\ claim = Nobody /\ pend = 0 /\ rej = 0
    /\ disk = [claim |-> Nobody, pend |-> 0, rej |-> 0]
    /\ held = 0 /\ buffer = Nothing /\ asked = Nothing
    /\ sendTo = Nobody /\ shared = [s \in Session |-> FALSE] /\ array = Nothing
    /\ req = [r \in Rec |-> "none"] /\ dest = [r \in Rec |-> NoBinding]
    /\ seen = [r \in Rec |-> [config |-> {}, workspace |-> FALSE]]
    /\ old = {} /\ forwarded = {} /\ rejected = {} /\ lost = {}
    /\ orphaned = FALSE /\ claims = 0 /\ troubles = 0

--------------------------------------------------------------------------------
(* Mutant: the count of what is held is not kept from going below zero.   *)
Down0Plain(n) == n
Down0(n) == Max({0, n})

Persist(c, p, j) ==
    /\ claim' = c /\ pend' = p /\ rej' = j
    /\ disk' = [claim |-> c, pend |-> p, rej |-> j]

(* A change of the attribution that is not written yet.                    *)
Remember(c, p, j) == claim' = c /\ pend' = p /\ rej' = j /\ UNCHANGED disk

Sending(s) == sendTo[s] # NoBinding
Pending(s) == IF shared[s] THEN buffer[s] ELSE array[s]

(* Claims of bindings that are no longer configured are dropped.           *)
Configured == [s \in Session |-> IF claim[s] \in config THEN claim[s] ELSE NoBinding]

--------------------------------------------------------------------------------
(* What a request does first: configAndStates and rejectExpiredBuffers.    *)

(* The numbers of a set in order, and what a list keeps in order when the  *)
(* records of a set leave it.                                              *)
InOrder(K) ==
    CHOOSE f \in [1..Cardinality(K) -> K] : \A i, j \in DOMAIN f : i < j => f[i] < f[j]

Without(q, S) ==
    LET e == InOrder({i \in DOMAIN q : q[i] \notin S}) IN [n \in DOMAIN e |-> q[e[n]]]

(* A record is held at most once, so that records are counted.             *)
Touch ==
    LET gone == {r \in old : \E s \in Session : r \in Range(buffer[s])}
        n == Cardinality(gone)
    IN  /\ buffer' = [s \in Session |-> Without(buffer[s], old)]
        /\ array' = [s \in Session |-> IF Sending(s) THEN Pending(s) ELSE <<>>]
        /\ shared' = [s \in Session |-> FALSE]
        /\ held' = held - n /\ UNCHANGED sendTo
        /\ rejected' = rejected \union gone
        /\ IF n > 0 THEN Persist(Configured, Down0(pend - n), rej + n)
           ELSE Remember(Configured, pend, rej)

Health ==
    /\ up /\ Touch
    /\ UNCHANGED <<settings, asked, network, old, forwarded, lost, orphaned, claims, troubles>>

--------------------------------------------------------------------------------
(* Logs: handleCodexNative.                                                *)

Arrive(r) ==
    /\ up /\ req[r] = "none" /\ \A x \in Rec : x < r => req[x] # "none"
    /\ Touch
    /\ req' = [req EXCEPT ![r] = "body"]
    /\ seen' = [seen EXCEPT ![r] = [config |-> config, workspace |-> workspace]]
    /\ UNCHANGED <<settings, asked, dest, old, forwarded, lost, orphaned, claims, troubles>>

(* The bindings are those read before the body came; without a workspace   *)
(* binding among them they are read again, which drops claims.             *)
Known(r) == IF seen[r].workspace THEN seen[r].config ELSE config
Claimed(r) == claim[Of[r]] \in Known(r)
Reread(r) == IF seen[r].workspace \/ claim[Of[r]] = NoBinding THEN claim ELSE Configured

(* The claim decides where the record goes.                                *)
Route(r) ==
    /\ up /\ req[r] = "body" /\ Claimed(r)
    /\ Remember(Reread(r), pend, rej)
    /\ req' = [req EXCEPT ![r] = "sending"]
    /\ dest' = [dest EXCEPT ![r] = claim[Of[r]]]
    /\ UNCHANGED <<settings, buffers, asked, seen, old, history, claims, troubles>>

Unclaimed(r) == up /\ req[r] = "body" /\ ~Claimed(r) /\ ~seen[r].workspace
Fits == held + 1 <= Cap

(* An array that is not in codexBuffers is a new one.                      *)
Hold(r) ==
    /\ Unclaimed(r) /\ Fits
    /\ buffer' = [buffer EXCEPT ![Of[r]] = Append(@, r)]
    /\ held' = held + 1
    /\ Persist(Reread(r), pend + 1, rej)
    /\ req' = [req EXCEPT ![r] = "accepted"]
    /\ UNCHANGED <<settings, sendTo, shared, array, asked, dest, seen, old, history, claims, troubles>>

TooMany(r) ==
    /\ Unclaimed(r) /\ ~Fits
    /\ Persist(Reread(r), pend, rej + 1)
    /\ rejected' = rejected \union {r}
    /\ req' = [req EXCEPT ![r] = "accepted"]
    /\ UNCHANGED <<settings, buffers, asked, dest, seen, old, forwarded, lost, orphaned, claims, troubles>>

(* deliverNativeDurably; whatever is held is no longer shown as pending.   *)
ToWorkspace(r) ==
    /\ up /\ req[r] = "body" /\ ~Claimed(r) /\ seen[r].workspace
    /\ forwarded' = forwarded \union {r}
    /\ Persist(claim, 0, rej)
    /\ req' = [req EXCEPT ![r] = "accepted"]
    /\ UNCHANGED <<settings, buffers, asked, dest, seen, old, rejected, lost, orphaned, claims, troubles>>

RouteSent(r) ==
    /\ up /\ req[r] = "sending"
    /\ forwarded' = forwarded \union {r}
    /\ Persist(claim, IF seen[r].workspace THEN 0 ELSE pend, rej)
    /\ req' = [req EXCEPT ![r] = "accepted"]
    /\ UNCHANGED <<settings, buffers, asked, dest, seen, old, rejected, lost, orphaned, claims, troubles>>

(* The sender is told and sends again, or a record is not understood.      *)
Refuse(r) ==
    /\ up /\ req[r] \in {"body", "sending"}
    /\ req' = [req EXCEPT ![r] = "refused"]
    /\ UNCHANGED <<settings, attribution, buffers, asked, dest, seen, old, history, claims, troubles>>

--------------------------------------------------------------------------------
(* Claims: registerCodexClaim.                                             *)

(* The directory of the session decides on the binding before the claim    *)
(* waits for its turn.                                                     *)
Ask(s, b) ==
    /\ up /\ claims < MaxClaims /\ b \in config
    /\ claims' = claims + 1
    /\ asked' = [asked EXCEPT ![s] = Append(@, b)]
    /\ Remember(Configured, pend, rej)
    /\ UNCHANGED <<settings, buffers, network, old, history, troubles>>

(* A session outside every repository, recorded for health only; a request *)
(* that is refused drops claims too.                                       *)
AskUnmapped ==
    /\ up /\ Configured # claim
    /\ IF workspace THEN Persist(Configured, pend, rej) ELSE Remember(Configured, pend, rej)
    /\ UNCHANGED <<settings, buffers, asked, network, old, history, claims, troubles>>

Turn(s) == up /\ asked[s] # <<>> /\ ~Sending(s)

(* Mutant: the claim is looked at before it waits, not after.              *)
ConflictOverlooked(s, b) == FALSE
Conflict(s, b) == claim[s] \notin {b, NoBinding}

Conflicting(s) ==
    /\ Turn(s) /\ Conflict(s, Head(asked[s]))
    /\ asked' = [asked EXCEPT ![s] = Tail(@)]
    /\ Persist(claim, pend, rej + 1)
    /\ UNCHANGED <<settings, buffers, network, old, history, claims, troubles>>

Accept(s) ==
    /\ Turn(s) /\ ~Conflict(s, Head(asked[s]))
    /\ Persist([claim EXCEPT ![s] = Head(asked[s])], pend, rej)
    /\ asked' = [asked EXCEPT ![s] = Tail(@)]
    /\ IF buffer[s] = <<>> THEN UNCHANGED <<sendTo, shared>>
       ELSE /\ sendTo' = [sendTo EXCEPT ![s] = Head(asked[s])]
            /\ shared' = [shared EXCEPT ![s] = TRUE]
    /\ UNCHANGED <<settings, held, buffer, array, network, old, history, claims, troubles>>

Done(s) == [sendTo EXCEPT ![s] = NoBinding]

(* Mutant: an entry is taken out of its array before it is sent.           *)
DrainFailsShifted(s) ==
    /\ up /\ Sending(s)
    /\ buffer' = [buffer EXCEPT ![s] = IF shared[s] THEN Tail(@) ELSE @]
    /\ sendTo' = Done(s)
    /\ shared' = [shared EXCEPT ![s] = FALSE] /\ array' = [array EXCEPT ![s] = <<>>]
    /\ UNCHANGED <<settings, attribution, held, asked, network, old, history, claims, troubles>>

(* The claim is answered with an error and its array is dropped.           *)
DrainFails(s) ==
    /\ up /\ Sending(s)
    /\ sendTo' = Done(s)
    /\ shared' = [shared EXCEPT ![s] = FALSE] /\ array' = [array EXCEPT ![s] = <<>>]
    /\ UNCHANGED <<settings, attribution, held, buffer, asked, network, old, history, claims, troubles>>

(* The entry that was sent leaves the claim's array; with the last one the *)
(* session leaves codexBuffers, whatever its array is by then.             *)
DrainSent(s) ==
    /\ up /\ Sending(s)
    /\ LET rest == Tail(Pending(s))
           last == rest = <<>>
       IN  /\ buffer' = [buffer EXCEPT ![s] = IF last THEN <<>> ELSE IF shared[s] THEN rest ELSE @]
           /\ array' = [array EXCEPT ![s] = IF shared[s] THEN <<>> ELSE rest]
           /\ sendTo' = IF last THEN Done(s) ELSE sendTo
           /\ shared' = [shared EXCEPT ![s] = @ /\ ~last]
    /\ forwarded' = forwarded \union {Head(Pending(s))}
    /\ held' = held - 1
    /\ Persist(claim, Down0(pend - 1), rej)
    /\ UNCHANGED <<settings, asked, network, old, rejected, lost, orphaned, claims, troubles>>

--------------------------------------------------------------------------------
(* Time, configuration, death and restart.                                 *)

GrowOld(r) ==
    /\ r \in Rec \ old /\ \E s \in Session : r \in Range(buffer[s])
    /\ old' = old \union {r}
    /\ UNCHANGED <<settings, attribution, buffers, asked, network, history, claims, troubles>>

(* After a week, which no sending takes, or as the oldest of 2,000 claims.  *)
(* That this many newer ones come while the session sends is left out.     *)
Lapse(s) ==
    /\ up /\ claim[s] # NoBinding /\ ~Sending(s) /\ asked[s] = <<>>
    /\ \A r \in Rec : Of[r] = s => req[r] # "sending"
    /\ Remember([claim EXCEPT ![s] = NoBinding], pend, rej)
    /\ UNCHANGED <<settings, buffers, asked, network, old, history, claims, troubles>>

Trouble == troubles < MaxTroubles /\ troubles' = troubles + 1

Configure(b) ==
    /\ Trouble
    /\ config' = IF b \in config THEN config \ {b} ELSE config \union {b}
    /\ orphaned' = (orphaned \/ \E s \in Session : sendTo[s] = b \/ b \in Range(asked[s]))
    /\ UNCHANGED <<workspace, up, attribution, buffers, asked, network, old, forwarded, rejected, lost, claims>>

ConfigureWorkspace ==
    /\ Trouble
    /\ workspace' = ~workspace
    /\ UNCHANGED <<config, up, attribution, buffers, asked, network, old, history, claims>>

Buffered == UNION {Range(buffer[s]) \union Range(array[s]) : s \in Session}

Die ==
    /\ up /\ Trouble /\ up' = FALSE
    /\ lost' = lost \union (Buffered \ (forwarded \union rejected))
    /\ held' = 0 /\ buffer' = Nothing /\ asked' = Nothing
    /\ sendTo' = Nobody /\ shared' = [s \in Session |-> FALSE] /\ array' = Nothing
    /\ req' = [r \in Rec |-> IF req[r] \in {"body", "sending"} THEN "refused" ELSE req[r]]
    /\ UNCHANGED <<config, workspace, attribution, dest, seen, old, forwarded, rejected, orphaned, claims>>

(* What was pending is rejected now.                                       *)
Restart ==
    /\ ~up /\ up' = TRUE
    /\ Persist(disk.claim, 0, disk.rej + disk.pend)
    /\ UNCHANGED <<config, workspace, buffers, asked, network, old, history, claims, troubles>>

Logs(r) ==
    Arrive(r) \/ Route(r) \/ Hold(r) \/ TooMany(r) \/ ToWorkspace(r) \/ RouteSent(r) \/ Refuse(r) \/ GrowOld(r)

ClaimStep(s) == Conflicting(s) \/ Accept(s) \/ DrainSent(s) \/ DrainFails(s) \/ Lapse(s)

Next ==
    \/ \E r \in Rec : Logs(r)
    \/ \E s \in Session : ClaimStep(s) \/ \E b \in Binding : Ask(s, b)
    \/ Health \/ AskUnmapped
    \/ \E b \in Binding : Configure(b)
    \/ ConfigureWorkspace \/ Die \/ Restart

Spec == Init /\ [][Next]_vars

--------------------------------------------------------------------------------
(* While the relay runs, logs it has accepted are on their way: received   *)
(* by a binding, still held, or given up and counted, whatever a sweep, a  *)
(* failed claim or a second claim did to the arrays.  (When a binding is   *)
(* removed under a claim on it, what comes in then can be dropped with the *)
(* array.)                                                                *)
AcceptedIsHeld ==
    ~orphaned => \A r \in Rec : req[r] = "accepted" => r \in forwarded \union rejected \union lost \union Buffered

InFlight ==
    {<<r, dest[r]>> : r \in {x \in Rec : req[x] = "sending"}}
    \union {<<Head(Pending(s)), sendTo[s]>> : s \in {x \in Session : Sending(x)}}

(* The first claim pins a session: it moves to another repository only     *)
(* after the claim is gone, and nothing of it is sent elsewhere while it   *)
(* stands (registerCodexClaim, "pins the first Codex repository claim and  *)
(* serializes its buffered drain", managed-otel-relay.test.mjs:864).       *)
SessionIsPinned ==
    [][/\ \A s \in Session : claim[s] # NoBinding /\ claim'[s] # NoBinding => claim'[s] = claim[s]
       /\ \A p \in InFlight' \ InFlight : claim'[Of[p[1]]] \in {p[2], NoBinding}]_vars

(* What a restart loses shows as rejected ("turns an in-memory pre-claim   *)
(* buffer into visible rejections after relay restart").                   *)
LossIsVisible == up => Cardinality(rejected \union lost) <= rej
================================================================================
