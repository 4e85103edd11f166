------------------------- MODULE ArtifactOutboxProofs -------------------------
(***************************************************************************)
(* However many commands overlap and die, and however they put back each   *)
(* other's state: state.json stays acceptable, no document is taken for    *)
(* queued that is not, and evidence leaves only for a verdict or for newer *)
(* evidence.                                                               *)
(***************************************************************************)
EXTENDS ArtifactOutbox, FiniteSetTheorems, TLAPS

--------------------------------------------------------------------------------
(* Lists of records by their numbers.                                      *)
Distinct(S) == \A q, r \in S : q.seq = r.seq => q = r
Newer(S, r) == {q \in S : q.seq > r.seq}

(* A list with distinct numbers is as finite as the numbers.               *)
LEMMA DistinctIsFinite ==
    ASSUME NEW S \in SUBSET Record, Distinct(S)
    PROVE  IsFiniteSet(S)
<1> DEFINE f == [r \in S |-> r.seq]
<1>1. f \in Injection(S, Sequence)
  <2>1. \A r \in S : r.seq \in Sequence
    BY DEF Record
  <2> QED BY <2>1 DEF Injection, IsInjective, Distinct
<1>2. IsFiniteSet(Sequence)
  BY FS_Interval, OutboxAssumption DEF Sequence
<1> QED BY <1>1, <1>2, FS_Injection

(* Elements of such a list have different ranks.                           *)
LEMMA RanksDiffer ==
    ASSUME NEW S \in SUBSET Record, IsFiniteSet(S), Distinct(S), NEW r \in S
    PROVE  /\ Cardinality(Newer(S, r)) \in 0 .. (Cardinality(S) - 1)
           /\ \A q \in S : Cardinality(Newer(S, q)) = Cardinality(Newer(S, r)) => q = r
<1>1. \A q \in S : q.seq \in Int
  BY OutboxAssumption DEF Record, Sequence
<1>2. \A q \in S : IsFiniteSet(Newer(S, q)) /\ Cardinality(Newer(S, q)) \in Nat
  <2> TAKE q \in S
  <2>1. Newer(S, q) \in SUBSET S
    BY DEF Newer
  <2> QED BY <2>1, FS_Subset, FS_CardinalityType
<1>3. \A q, p \in S : q.seq > p.seq => Cardinality(Newer(S, q)) # Cardinality(Newer(S, p))
  <2> SUFFICES ASSUME NEW q \in S, NEW p \in S, q.seq > p.seq
               PROVE  Cardinality(Newer(S, q)) # Cardinality(Newer(S, p))
    OBVIOUS
  <2>1. Newer(S, q) \in SUBSET Newer(S, p)
    BY <1>1 DEF Newer
  <2>2. q \in Newer(S, p) /\ q \notin Newer(S, q)
    BY <1>1 DEF Newer
  <2> QED BY <1>2, <2>1, <2>2, FS_Subset
<1>4. Cardinality(Newer(S, r)) <= Cardinality(S) /\ Cardinality(Newer(S, r)) # Cardinality(S)
  <2>1. Newer(S, r) \in SUBSET S /\ r \notin Newer(S, r)
    BY <1>1 DEF Newer
  <2> QED BY <2>1, FS_Subset
<1>5. Cardinality(S) \in Nat
  BY FS_CardinalityType
<1>6. Cardinality(Newer(S, r)) \in 0 .. (Cardinality(S) - 1)
  BY <1>2, <1>4, <1>5
<1>7. \A q \in S : Cardinality(Newer(S, q)) = Cardinality(Newer(S, r)) => q = r
  <2> TAKE q \in S
  <2>1. q.seq = r.seq \/ q.seq > r.seq \/ r.seq > q.seq
    BY <1>1
  <2> QED BY <2>1, <1>3 DEF Distinct
<1> QED BY <1>6, <1>7

(* What stays in quarantine is no more than there is room for.             *)
LEMMA RetainedFits ==
    ASSUME NEW S \in SUBSET Record, Distinct(S)
    PROVE  Retained(S) \in Listed
<1>1. IsFiniteSet(S)
  BY DistinctIsFinite
<1> DEFINE f == [r \in Retained(S) |-> Cardinality(Newer(S, r))]
<1>2. Retained(S) \subseteq S
  BY DEF Retained
<1>3. f \in Injection(Retained(S), 0 .. (MaxQuarantine - 1))
  <2>1. \A r \in Retained(S) : Cardinality(Newer(S, r)) \in 0 .. (MaxQuarantine - 1)
    <3> TAKE r \in Retained(S)
    <3>1. Cardinality(Newer(S, r)) < MaxQuarantine
      BY DEF Retained, Newer
    <3>2. Cardinality(Newer(S, r)) \in 0 .. (Cardinality(S) - 1)
      BY <1>1, <1>2, RanksDiffer
    <3> QED BY <3>1, <3>2, <1>1, FS_CardinalityType, OutboxAssumption
  <2>2. \A q, r \in Retained(S) : Cardinality(Newer(S, q)) = Cardinality(Newer(S, r)) => q = r
    BY <1>1, <1>2, RanksDiffer
  <2> QED BY <2>1, <2>2 DEF Injection, IsInjective
<1>4. IsFiniteSet(0 .. (MaxQuarantine - 1)) /\ Cardinality(0 .. (MaxQuarantine - 1)) = MaxQuarantine
  BY FS_Interval, OutboxAssumption
<1>5. Cardinality(Retained(S)) <= MaxQuarantine
  BY <1>3, <1>4, FS_Injection
<1> QED BY <1>2, <1>5 DEF Listed, Distinct

(* The newest record stays.                                                *)
LEMMA NewestStays ==
    ASSUME NEW S \in SUBSET Record, Distinct(S), NEW r \in S
    PROVE  \E q \in Retained(S) : q.seq >= r.seq
<1>1. IsFiniteSet(S) /\ Cardinality(S) \in Nat
  BY DistinctIsFinite, FS_CardinalityType
<1>2. Cardinality(S) > 0
  BY <1>1, FS_EmptySet
<1> DEFINE f == [q \in S |-> Cardinality(Newer(S, q))]
           T == 0 .. (Cardinality(S) - 1)
<1>3. f \in Injection(S, T)
  <2>1. \A q \in S : Cardinality(Newer(S, q)) \in T
    BY <1>1, RanksDiffer
  <2>2. \A p, q \in S : Cardinality(Newer(S, p)) = Cardinality(Newer(S, q)) => p = q
    BY <1>1, RanksDiffer
  <2> QED BY <2>1, <2>2 DEF Injection, IsInjective
<1>4. IsFiniteSet(T) /\ Cardinality(T) = Cardinality(S)
  BY <1>1, <1>2, FS_Interval
<1>5. f \in Surjection(S, T)
  BY <1>3, <1>4, FS_Injection
<1>6. PICK q \in S : Cardinality(Newer(S, q)) = 0
  <2>1. 0 \in T
    BY <1>1, <1>2
  <2> QED BY <1>5, <2>1 DEF Surjection
<1>7. q \in Retained(S)
  BY <1>6, OutboxAssumption DEF Retained, Newer
<1>8. Newer(S, q) = {}
  <2>1. Newer(S, q) \in SUBSET S
    BY DEF Newer
  <2> QED BY <1>1, <1>6, <2>1, FS_Subset, FS_EmptySet
<1>9. q.seq \in Int /\ r.seq \in Int
  BY OutboxAssumption DEF Record, Sequence
<1> QED BY <1>7, <1>8, <1>9 DEF Newer

--------------------------------------------------------------------------------
(* What the server has judged or the queue holds.                          *)
Known == accepted \union refused \union {Rev(r) : r \in outbox}
Judged == accepted \union refused

(* The digests a copy of state.json takes for queued are known.            *)
Covered(s, K) == \A a \in Artifact : s.artifacts[a] # None => [id |-> a, digest |-> s.artifacts[a]] \in K

Begins == {"found", "record", "advance", "mark", "marked"}
Ends == {"unlink", "removed", "putback", "evict", "keep", "rename"}

(* What each command is at, and what has happened to it by then.           *)
AtInv(c) ==
    /\ pc[c] \in Begins \union Ends => at[c] \in Record
    /\ pc[c] \in Ends \union {"put"} => todo[c] \subseteq Record
    /\ pc[c] \in {"pending", "number"} => at[c] \in Item
    /\ pc[c] \in {"found", "advance", "mark", "marked"} => Rev(at[c]) \in Known
    /\ pc[c] = "unlink" => Rev(at[c]) \in accepted
    /\ pc[c] \in {"evict", "keep", "rename"} => Rev(at[c]) \in refused
    /\ pc[c] = "keep" => ~Clash(c)

Inv ==
    /\ TypeOK
    /\ Covered(state, Known)
    /\ \A c \in Command : Covered(read[c], Known)
    /\ \A c \in Command : AtInv(c)

--------------------------------------------------------------------------------
LEMMA StepKinds ==
    /\ "idle" \in Steps /\ "queue" \in Steps /\ "reconcile" \in Steps /\ "look" \in Steps
    /\ "record" \in Steps /\ "advance" \in Steps /\ "mark" \in Steps /\ "marked" \in Steps
    /\ "send" \in Steps /\ "put" \in Steps /\ "unlink" \in Steps /\ "removed" \in Steps
    /\ "putback" \in Steps /\ "keep" \in Steps /\ "rename" \in Steps /\ "error" \in Steps
    /\ "marking" \in Steps /\ "pending" \in Steps /\ "found" \in Steps /\ "number" \in Steps
    /\ "evict" \in Steps
  BY DEF Steps

LEMMA StateFields ==
    ASSUME NEW s \in State
    PROVE  /\ s.next \in 1 .. MaxSequence + 1
           /\ s.artifacts \in [Artifact -> Digest \union {None}]
           /\ s.quarantined \in SUBSET Record
           /\ Distinct(s.quarantined)
  BY DEF State, Listed, Distinct

LEMMA EmptyState == NoState \in State /\ \A K : Covered(NoState, K)
<1>1. {} \in Listed
  BY FS_EmptySet, OutboxAssumption DEF Listed
<1>2. NoState \in State
  BY <1>1, OutboxAssumption DEF NoState, State
<1> QED BY <1>2 DEF NoState, Covered

LEMMA RecordsAreItems == Record \subseteq Item /\ \A r \in Record : Rev(r) \in Revision
  BY OutboxAssumption DEF Record, Item, Sequence, Rev, Revision

LEMMA TypeInit == Init => TypeOK
<1> SUFFICES ASSUME Init PROVE TypeOK
  OBVIOUS
<1>1. pc \in [Command -> Steps]
  BY StepKinds DEF Init
<1>2. read \in [Command -> State] /\ state \in State
  BY EmptyState DEF Init
<1>3. changes \in 0 .. MaxChanges /\ starts \in 0 .. MaxStarts /\ faults \in 0 .. MaxFaults
  BY OutboxAssumption DEF Init
<1>4. /\ document \in [Artifact -> Digest] /\ outbox \subseteq Record /\ quarantine \subseteq Record
      /\ accepted \subseteq Revision /\ refused \subseteq Revision
      /\ todo \in [Command -> SUBSET Item]
      /\ at \in [Command -> Item \union {NoItem}]
  BY DEF Init
<1> QED BY <1>1, <1>2, <1>3, <1>4 DEF TypeOK

(* The pieces every step is made of.                                       *)
LEMMA GotoType ==
    ASSUME pc \in [Command -> Steps], NEW c \in Command, NEW s \in Steps, Goto(c, s)
    PROVE  pc' \in [Command -> Steps]
  BY DEF Goto

LEMMA ForgetType ==
    ASSUME TypeOK, NEW c \in Command, Forget(c)
    PROVE  /\ todo' \in [Command -> SUBSET Item]
           /\ at' \in [Command -> Item \union {NoItem}]
           /\ read' \in [Command -> State]
  BY EmptyState DEF TypeOK, Forget, Put

LEMMA BreakType ==
    ASSUME TypeOK, NEW c \in Command, Break(c) \/ Finish(c)
    PROVE  /\ todo' \in [Command -> SUBSET Item]
           /\ at' \in [Command -> Item \union {NoItem}]
           /\ read' \in [Command -> State]
           /\ pc' \in [Command -> Steps]
<1>1. Forget(c) /\ (Goto(c, "error") \/ Goto(c, "idle"))
  BY DEF Break, Finish
<1>2. pc \in [Command -> Steps]
  BY DEF TypeOK
<1> QED BY <1>1, <1>2, ForgetType, GotoType, StepKinds

LEMMA GoOnType ==
    ASSUME TypeOK, NEW c \in Command, GoOn(c)
    PROVE  /\ todo' \in [Command -> SUBSET Item]
           /\ at' \in [Command -> Item \union {NoItem}]
           /\ read' \in [Command -> State]
           /\ pc' \in [Command -> Steps]
<1>1. Goto(c, "error") \/ Goto(c, "put")
  BY DEF GoOn
<1>2. pc' \in [Command -> Steps]
  BY <1>1, GotoType, StepKinds DEF TypeOK
<1> QED BY <1>2, EmptyState DEF TypeOK, GoOn, Put

(* A command that queues keeps the types.                                  *)
LEMMA QueueingType ==
    ASSUME TypeOK, NEW c \in Command, AtInv(c), Queueing(c)
    PROVE  TypeOK'
<1> USE DEF history, local, bounds
<1>pc. pc \in [Command -> Steps]
  BY DEF TypeOK
<1>st. state \in State /\ read[c] \in State
  BY DEF TypeOK
<1>1. ASSUME NEW S \in SUBSET Artifact, Discover(c, S) PROVE TypeOK'
  <2>1. pc' \in [Command -> Steps]
    BY <1>1, <1>pc, GotoType, StepKinds DEF Discover
  <2>2. {[seq |-> 0, id |-> a, digest |-> document[a]] : a \in S} \in SUBSET Item
    BY OutboxAssumption DEF TypeOK, Item
  <2>3. todo' \in [Command -> SUBSET Item] /\ read' \in [Command -> State]
    BY <1>1, <2>2 DEF Discover, TypeOK, Put
  <2> QED BY <1>1, <2>1, <2>3 DEF Discover, TypeOK
<1>2. ASSUME Reconcile(c) PROVE TypeOK'
  <2>1. pc' \in [Command -> Steps]
    BY <1>2, <1>pc, GotoType, StepKinds DEF Reconcile
  <2> DEFINE found == {i.id : i \in todo[c]}
             kept == [read[c] EXCEPT !.artifacts =
                        [a \in Artifact |-> IF a \in found THEN read[c].artifacts[a] ELSE None]]
  <2>2. kept \in State
    <3>1. [a \in Artifact |-> IF a \in found THEN read[c].artifacts[a] ELSE None] \in [Artifact -> Digest \union {None}]
      BY <1>st, StateFields
    <3> HIDE DEF found
    <3> QED BY <1>st, <3>1 DEF State
  <2>3. state' \in State
    BY <1>2, <1>st, <2>2 DEF Reconcile
  <2>4. read' \in [Command -> State]
    BY <1>2, EmptyState DEF Reconcile, TypeOK, Put
  <2> QED BY <1>2, <2>1, <2>3, <2>4 DEF Reconcile, TypeOK
<1>3. ASSUME QueueDone(c) \/ Late(c) PROVE TypeOK'
  <2>1. Break(c) \/ Finish(c)
    BY <1>3 DEF QueueDone, Late
  <2>2. faults' \in 0 .. MaxFaults
    BY <1>3, OutboxAssumption DEF QueueDone, Late, TypeOK
  <2> QED BY <1>3, <2>1, <2>2, BreakType DEF QueueDone, Late, TypeOK
<1>4. ASSUME NEW i \in todo[c], Unchanged(c, i) PROVE TypeOK'
  BY <1>4 DEF Unchanged, TypeOK, Put
<1>5. ASSUME AlreadyQueued(c) PROVE TypeOK'
  <2>1. pc' \in [Command -> Steps]
    <3>1. Goto(c, "advance") \/ Goto(c, "mark")
      BY <1>5 DEF AlreadyQueued
    <3> QED BY <3>1, <1>pc, GotoType, StepKinds
  <2> QED BY <1>5, <2>1 DEF AlreadyQueued, TypeOK, Put
<1>6. ASSUME Overflow(c) PROVE TypeOK'
  BY <1>6, BreakType DEF Overflow, TypeOK
<1>7. ASSUME Number(c) PROVE TypeOK'
  <2>1. pc' \in [Command -> Steps]
    BY <1>7, <1>pc, GotoType, StepKinds DEF Number
  <2>2. [at[c] EXCEPT !.seq = state.next] \in Item
    <3>1. at[c] \in Item
      BY <1>7 DEF Number, AtInv
    <3>2. state.next \in 0 .. MaxSequence
      BY <1>7, <1>st, StateFields, OutboxAssumption DEF Number
    <3> QED BY <3>1, <3>2 DEF Item
  <2>3. at' \in [Command -> Item \union {NoItem}] /\ read' \in [Command -> State]
    BY <1>7, <2>2 DEF Number, TypeOK, Put
  <2> QED BY <1>7, <2>1, <2>3 DEF Number, TypeOK
<1>12. ASSUME NEW i \in todo[c], Changed(c, i) PROVE TypeOK'
  <2>1. pc' \in [Command -> Steps]
    BY <1>12, <1>pc, GotoType, StepKinds DEF Changed
  <2>2. at' \in [Command -> Item \union {NoItem}]
    BY <1>12 DEF Changed, TypeOK, Put
  <2> QED BY <1>12, <2>1, <2>2 DEF Changed, TypeOK
<1>13. ASSUME NEW r \in outbox, FoundQueued(c, r) PROVE TypeOK'
  <2>1. pc' \in [Command -> Steps]
    BY <1>13, <1>pc, GotoType, StepKinds DEF FoundQueued
  <2>2. r \in Item
    BY RecordsAreItems DEF TypeOK
  <2>3. at' \in [Command -> Item \union {NoItem}]
    BY <1>13, <2>2 DEF FoundQueued, TypeOK, Put
  <2> QED BY <1>13, <2>1, <2>3 DEF FoundQueued, TypeOK
<1>14. ASSUME HasRoom(c) PROVE TypeOK'
  <2>1. pc' \in [Command -> Steps]
    BY <1>14, <1>pc, GotoType, StepKinds DEF HasRoom
  <2> QED BY <1>14, <2>1 DEF HasRoom, TypeOK
<1>8. ASSUME WriteRecord(c) PROVE TypeOK'
  <2>1. pc' \in [Command -> Steps]
    BY <1>8, <1>pc, GotoType, StepKinds DEF WriteRecord
  <2>2. at[c] \in Record
    BY <1>8 DEF WriteRecord, AtInv, Begins
  <2> QED BY <1>8, <2>1, <2>2 DEF WriteRecord, TypeOK
<1>9. ASSUME Advance(c) PROVE TypeOK'
  <2>1. pc' \in [Command -> Steps]
    BY <1>9, <1>pc, GotoType, StepKinds DEF Advance
  <2>2. at[c] \in Record
    BY <1>9 DEF Advance, AtInv, Begins
  <2>3. at[c].seq + 1 \in 1 .. MaxSequence + 1
    BY <2>2, OutboxAssumption DEF Record, Sequence
  <2>4. state' \in State
    BY <1>9, <1>st, <2>3 DEF Advance, State
  <2> QED BY <1>9, <2>1, <2>4 DEF Advance, TypeOK
<1>10. ASSUME ReadToMark(c) PROVE TypeOK'
  <2>1. pc' \in [Command -> Steps]
    BY <1>10, <1>pc, GotoType, StepKinds DEF ReadToMark
  <2> QED BY <1>10, <2>1 DEF ReadToMark, TypeOK, Put
<1>11. ASSUME MarkQueued(c) PROVE TypeOK'
  <2>1. pc' \in [Command -> Steps]
    BY <1>11, <1>pc, GotoType, StepKinds DEF MarkQueued
  <2>2. at[c] \in Record
    BY <1>11 DEF MarkQueued, AtInv, Begins
  <2>3. state' \in State
    <3>1. [read[c].artifacts EXCEPT ![at[c].id] = at[c].digest] \in [Artifact -> Digest \union {None}]
      BY <1>st, <2>2, StateFields DEF Record
    <3>2. state' = [read[c] EXCEPT !.artifacts = [read[c].artifacts EXCEPT ![at[c].id] = at[c].digest]]
      BY <1>11 DEF MarkQueued
    <3> HIDE DEF MarkQueued
    <3> QED BY <1>st, <3>1, <3>2 DEF State
  <2>4. /\ todo' \in [Command -> SUBSET Item]
        /\ at' \in [Command -> Item \union {NoItem}]
        /\ read' \in [Command -> State]
    BY <1>11, EmptyState DEF MarkQueued, TypeOK, Put
  <2> QED BY <1>11, <2>1, <2>3, <2>4 DEF MarkQueued, TypeOK
<1> QED BY <1>1, <1>2, <1>3, <1>4, <1>5, <1>6, <1>7, <1>8, <1>9, <1>10, <1>11, <1>12, <1>13, <1>14 DEF Queueing

(* A command that sends keeps the types: what it puts on the quarantine    *)
(* list has a number of its own and fits.                                  *)
LEMMA KeepFits ==
    ASSUME TypeOK, NEW c \in Command, at[c] \in Record, ~Clash(c)
    PROVE  /\ read[c].quarantined \union {at[c]} \in SUBSET Record
           /\ Distinct(read[c].quarantined \union {at[c]})
           /\ Retained(read[c].quarantined \union {at[c]}) \in Listed
<1> DEFINE S == read[c].quarantined \union {at[c]}
<1>1. read[c].quarantined \in SUBSET Record /\ Distinct(read[c].quarantined)
  BY StateFields DEF TypeOK
<1>2. S \in SUBSET Record
  BY <1>1
<1>3. Distinct(S)
  BY <1>1 DEF Distinct, Clash
<1> QED BY <1>2, <1>3, RetainedFits

LEMMA SendingType ==
    ASSUME TypeOK, NEW c \in Command, AtInv(c), Sending(c)
    PROVE  TypeOK'
<1> USE DEF history, local, bounds
<1>pc. pc \in [Command -> Steps]
  BY DEF TypeOK
<1>st. state \in State /\ read[c] \in State
  BY DEF TypeOK
<1>1. ASSUME List(c) PROVE TypeOK'
  <2>1. /\ todo' \in [Command -> SUBSET Item]
        /\ at' \in [Command -> Item \union {NoItem}]
        /\ read' \in [Command -> State]
        /\ pc' \in [Command -> Steps]
    <3>1. CASE Finish(c)
      BY <3>1, BreakType
    <3>2. CASE Goto(c, "put") /\ todo' = Put(todo, c, outbox) /\ UNCHANGED <<at, read>>
      <4>1. outbox \in SUBSET Item
        BY RecordsAreItems DEF TypeOK
      <4>2. todo' \in [Command -> SUBSET Item]
        BY <3>2, <4>1 DEF TypeOK, Put
      <4> QED BY <3>2, <4>2, <1>pc, GotoType, StepKinds DEF TypeOK
    <3> QED BY <1>1, <3>1, <3>2 DEF List
  <2> QED BY <1>1, <2>1 DEF List, TypeOK
<1>2. ASSUME NEW r \in todo[c], Accepted(c, r) PROVE TypeOK'
  <2>1. pc' \in [Command -> Steps]
    BY <1>2, <1>pc, GotoType, StepKinds DEF Accepted
  <2>2. r \in Record
    BY <1>2 DEF Accepted, Sends, AtInv
  <2>3. at' \in [Command -> Item \union {NoItem}] /\ accepted' \subseteq Revision
    BY <1>2, <2>2, RecordsAreItems DEF Accepted, TypeOK, Put
  <2> QED BY <1>2, <2>1, <2>3 DEF Accepted, TypeOK
<1>3. ASSUME NEW r \in todo[c], Refused(c, r) PROVE TypeOK'
  <2>1. pc' \in [Command -> Steps]
    BY <1>3, <1>pc, GotoType, StepKinds DEF Refused
  <2>2. r \in Record
    BY <1>3 DEF Refused, Sends, AtInv
  <2>3. at' \in [Command -> Item \union {NoItem}] /\ refused' \subseteq Revision
    BY <1>3, <2>2, RecordsAreItems DEF Refused, TypeOK, Put
  <2>4. read' \in [Command -> State]
    BY <1>3 DEF Refused, TypeOK, Put
  <2> QED BY <1>3, <2>1, <2>3, <2>4 DEF Refused, TypeOK
<1>4. ASSUME NEW r \in todo[c], NoAnswer(c, r) PROVE TypeOK'
  <2>1. Rev(r) \in Revision
    BY <1>4, RecordsAreItems DEF NoAnswer, Sends, AtInv
  <2>2. accepted' \subseteq Revision /\ faults' \in 0 .. MaxFaults
    BY <1>4, <2>1, OutboxAssumption DEF NoAnswer, TypeOK
  <2> QED BY <1>4, <2>2, BreakType DEF NoAnswer, TypeOK
<1>5. ASSUME Unlink(c) PROVE TypeOK'
  <2>1. /\ todo' \in [Command -> SUBSET Item]
        /\ at' \in [Command -> Item \union {NoItem}]
        /\ read' \in [Command -> State]
        /\ pc' \in [Command -> Steps]
    <3>1. CASE Break(c)
      BY <3>1, BreakType
    <3>2. CASE Goto(c, "removed") /\ UNCHANGED <<todo, at, read>>
      BY <3>2, <1>pc, GotoType, StepKinds DEF TypeOK
    <3> QED BY <1>5, <3>1, <3>2 DEF Unlink
  <2> QED BY <1>5, <2>1 DEF Unlink, TypeOK
<1>6. ASSUME ReadAfterRemoval(c) \/ ReadToMarkError(c) PROVE TypeOK'
  <2>1. pc' \in [Command -> Steps]
    <3>1. Goto(c, "putback") \/ Goto(c, "marking")
      BY <1>6 DEF ReadAfterRemoval, ReadToMarkError
    <3> QED BY <3>1, <1>pc, GotoType, StepKinds
  <2>2. read' \in [Command -> State]
    BY <1>6 DEF ReadAfterRemoval, ReadToMarkError, TypeOK, Put
  <2> QED BY <1>6, <2>1, <2>2 DEF ReadAfterRemoval, ReadToMarkError, TypeOK
<1>7. ASSUME PutBack(c) PROVE TypeOK'
  BY <1>7, <1>st, GoOnType DEF PutBack, TypeOK
<1>8. ASSUME Keep(c) PROVE TypeOK'
  <2>1. at[c] \in Record /\ ~Clash(c)
    BY <1>8 DEF Keep, AtInv, Ends
  <2>2. Kept(c) \in Listed
    BY <2>1, <1>st, KeepFits DEF State, Kept
  <2>3. state' \in State
    BY <1>8, <1>st, <2>2 DEF Keep, State
  <2>4. pc' \in [Command -> Steps]
    BY <1>8, <1>pc, GotoType, StepKinds DEF Keep
  <2> QED BY <1>8, <2>3, <2>4 DEF Keep, TypeOK
<1>12. ASSUME Evict(c) PROVE TypeOK'
  <2>1. CASE Clash(c)
    BY <1>12, <2>1, BreakType DEF Evict, TypeOK
  <2>2. CASE ~Clash(c)
    <3>1. Goto(c, "keep") /\ quarantine' \subseteq quarantine /\ UNCHANGED <<todo, at, read>>
      BY <1>12, <2>2 DEF Evict
    <3>2. pc' \in [Command -> Steps]
      BY <3>1, <1>pc, GotoType, StepKinds
    <3> QED BY <1>12, <3>1, <3>2 DEF Evict, TypeOK
  <2> QED BY <2>1, <2>2
<1>9. ASSUME Rename(c) PROVE TypeOK'
  <2>1. CASE at[c] \in outbox \ quarantine
    BY <1>9, <2>1, GoOnType DEF Rename, TypeOK
  <2>2. CASE at[c] \notin outbox \ quarantine
    BY <1>9, <2>2, BreakType DEF Rename, TypeOK
  <2> QED BY <2>1, <2>2
<1>10. ASSUME MarkError(c) PROVE TypeOK'
  BY <1>10, <1>st, BreakType DEF MarkError, TypeOK
<1>11. ASSUME Unreadable(c) PROVE TypeOK'
  BY <1>11, BreakType DEF Unreadable, TypeOK
<1> QED BY <1>1, <1>2, <1>3, <1>4, <1>5, <1>6, <1>7, <1>8, <1>9, <1>10, <1>11, <1>12 DEF Sending

(* What goes on around the steps of a command.                             *)
Around ==
    \/ \E c \in Command : Die(c) \/ Start(c)
    \/ \E a \in Artifact, d \in Digest : Edit(a, d)

LEMMA AroundType ==
    ASSUME TypeOK, Around
    PROVE  TypeOK'
<1> USE DEF history, local, bounds
<1>1. ASSUME NEW c \in Command, Die(c) PROVE TypeOK'
  <2>1. faults' \in 0 .. MaxFaults
    BY <1>1, OutboxAssumption DEF Die, TypeOK
  <2> QED BY <1>1, <2>1, BreakType DEF Die, TypeOK
<1>2. ASSUME NEW c \in Command, Start(c) PROVE TypeOK'
  <2>1. pc' \in [Command -> Steps]
    <3>1. Goto(c, "queue") \/ Goto(c, "send")
      BY <1>2 DEF Start
    <3> QED BY <3>1, GotoType, StepKinds DEF TypeOK
  <2>2. starts' \in 0 .. MaxStarts
    BY <1>2, OutboxAssumption DEF Start, TypeOK
  <2> QED BY <1>2, <2>1, <2>2 DEF Start, TypeOK
<1>3. ASSUME NEW a \in Artifact, NEW d \in Digest, Edit(a, d) PROVE TypeOK'
  <2>1. changes' \in 0 .. MaxChanges
    BY <1>3, OutboxAssumption DEF Edit, TypeOK
  <2> QED BY <1>3, <2>1 DEF Edit, TypeOK
<1> QED BY <1>1, <1>2, <1>3 DEF Around

LEMMA TypeStep == ASSUME Inv, Next PROVE TypeOK'
<1>1. ASSUME NEW c \in Command, Queueing(c) PROVE TypeOK'
  BY <1>1, QueueingType DEF Inv
<1>2. ASSUME NEW c \in Command, Sending(c) PROVE TypeOK'
  BY <1>2, SendingType DEF Inv
<1>3. ASSUME Around PROVE TypeOK'
  BY <1>3, AroundType DEF Inv
<1> QED BY <1>1, <1>2, <1>3 DEF Next, Around

--------------------------------------------------------------------------------
(* What is known stays known: verdicts are never taken back, and the two   *)
(* actions that remove a record from the queue have a verdict on it.       *)
LEMMA QueueingKeeps ==
    ASSUME NEW c \in Command, Queueing(c)
    PROVE  accepted \subseteq accepted' /\ refused \subseteq refused' /\ outbox \subseteq outbox'
<1> USE DEF history, local, bounds
<1>1. ASSUME NEW S \in SUBSET Artifact, Discover(c, S)
      PROVE  UNCHANGED <<accepted, refused, outbox>>
  BY <1>1 DEF Discover
<1>2. ASSUME NEW i \in todo[c], Unchanged(c, i) \/ Changed(c, i)
      PROVE  UNCHANGED <<accepted, refused, outbox>>
  BY <1>2 DEF Unchanged, Changed
<1>5. ASSUME NEW r \in outbox, FoundQueued(c, r) PROVE UNCHANGED <<accepted, refused, outbox>>
  BY <1>5 DEF FoundQueued
<1>6. CASE AlreadyQueued(c) \/ Overflow(c) \/ HasRoom(c) \/ Number(c)
  BY <1>6 DEF AlreadyQueued, Overflow, HasRoom, Number
<1>3. CASE Reconcile(c) \/ QueueDone(c) \/ Late(c) \/ Advance(c) \/ ReadToMark(c) \/ MarkQueued(c)
  BY <1>3 DEF Reconcile, QueueDone, Late, Advance, ReadToMark, MarkQueued
<1>4. CASE WriteRecord(c)
  BY <1>4 DEF WriteRecord
<1> QED BY <1>1, <1>2, <1>3, <1>4, <1>5, <1>6 DEF Queueing

LEMMA SendingKeeps ==
    ASSUME NEW c \in Command, Sending(c)
    PROVE  /\ accepted \subseteq accepted' /\ refused \subseteq refused'
           /\ outbox \subseteq outbox' \/ Unlink(c) \/ Rename(c)
<1> USE DEF history, local, bounds
<1>1. ASSUME NEW r \in todo[c], Accepted(c, r) \/ Refused(c, r) \/ NoAnswer(c, r)
      PROVE  accepted \subseteq accepted' /\ refused \subseteq refused' /\ outbox' = outbox
  BY <1>1 DEF Accepted, Refused, NoAnswer
<1>2. CASE List(c) \/ ReadAfterRemoval(c) \/ PutBack(c) \/ Evict(c) \/ Keep(c) \/ ReadToMarkError(c)
           \/ MarkError(c) \/ Unreadable(c)
  BY <1>2 DEF List, ReadAfterRemoval, PutBack, Evict, Keep, ReadToMarkError, MarkError, Unreadable
<1>3. CASE Unlink(c) \/ Rename(c)
  BY <1>3 DEF Unlink, Rename
<1> QED BY <1>1, <1>2, <1>3 DEF Sending

LEMMA AroundKeeps ==
    ASSUME Around
    PROVE  UNCHANGED <<accepted, refused, outbox, state, quarantine>>
  BY DEF Around, Die, Start, Edit, history

LEMMA RemovalIsJudged ==
    ASSUME Inv, NEW c \in Command, Unlink(c) \/ Rename(c)
    PROVE  \A r \in outbox \ outbox' :
             Rev(r) \in accepted \/ (Rev(r) \in refused /\ r \in quarantine')
<1> USE DEF history, local, bounds
<1>1. AtInv(c)
  BY DEF Inv
<1>2. CASE Unlink(c)
  <2>1. outbox' = outbox \ {at[c]} /\ Rev(at[c]) \in accepted
    BY <1>1, <1>2 DEF Unlink, AtInv
  <2> QED BY <2>1
<1>3. CASE Rename(c)
  <2>1. Rev(at[c]) \in refused
    BY <1>1, <1>3 DEF Rename, AtInv
  <2>2. outbox' = outbox \/ (outbox' = outbox \ {at[c]} /\ quarantine' = quarantine \union {at[c]})
    BY <1>3 DEF Rename
  <2> QED BY <2>1, <2>2
<1> QED BY <1>2, <1>3

LEMMA StepKeeps ==
    ASSUME Inv, Next
    PROVE  /\ accepted \subseteq accepted' /\ refused \subseteq refused'
           /\ LeavesJudged
           /\ Known \subseteq Known'
<1>1. ASSUME NEW c \in Command, Queueing(c)
      PROVE  accepted \subseteq accepted' /\ refused \subseteq refused' /\ outbox \subseteq outbox'
  BY <1>1, QueueingKeeps
<1>2. ASSUME NEW c \in Command, Sending(c)
      PROVE  accepted \subseteq accepted' /\ refused \subseteq refused' /\ LeavesJudged
  <2>1. outbox \subseteq outbox' \/ Unlink(c) \/ Rename(c)
    BY <1>2, SendingKeeps
  <2>2. LeavesJudged
    BY <2>1, RemovalIsJudged DEF LeavesJudged
  <2> QED BY <1>2, <2>2, SendingKeeps
<1>3. ASSUME Around
      PROVE  accepted \subseteq accepted' /\ refused \subseteq refused' /\ outbox \subseteq outbox'
  BY <1>3, AroundKeeps
<1>4. accepted \subseteq accepted' /\ refused \subseteq refused' /\ LeavesJudged
  BY <1>1, <1>2, <1>3 DEF Next, Around, LeavesJudged
<1>5. Known \subseteq Known'
  BY <1>4 DEF Known, LeavesJudged
<1> QED BY <1>4, <1>5

--------------------------------------------------------------------------------
(* No copy of state.json takes for queued what is not known.               *)
LEMMA CoveredGrows ==
    ASSUME NEW s, NEW K, NEW L, Covered(s, K), K \subseteq L
    PROVE  Covered(s, L)
  BY DEF Covered

LEMMA QueueingCovers ==
    ASSUME Inv, NEW c \in Command, Queueing(c)
    PROVE  Covered(state', Known)
<1> USE DEF history, local, bounds
<1>st. read[c] \in State /\ Covered(state, Known) /\ Covered(read[c], Known) /\ AtInv(c)
  BY DEF Inv, TypeOK
<1>1. ASSUME NEW S \in SUBSET Artifact, Discover(c, S) PROVE state' = state
  BY <1>1 DEF Discover
<1>2. ASSUME NEW i \in todo[c], Unchanged(c, i) \/ Changed(c, i) PROVE state' = state
  BY <1>2 DEF Unchanged, Changed
<1>7. ASSUME NEW r \in outbox, FoundQueued(c, r) PROVE state' = state
  BY <1>7 DEF FoundQueued
<1>8. ASSUME AlreadyQueued(c) \/ Overflow(c) \/ HasRoom(c) \/ Number(c) PROVE state' = state
  BY <1>8 DEF AlreadyQueued, Overflow, HasRoom, Number
<1>3. ASSUME QueueDone(c) \/ Late(c) \/ ReadToMark(c) \/ WriteRecord(c) PROVE state' = state
  BY <1>3 DEF QueueDone, Late, ReadToMark, WriteRecord
<1>4. ASSUME Reconcile(c) PROVE Covered(state', Known)
  <2> DEFINE found == {i.id : i \in todo[c]}
             left == [a \in Artifact |-> IF a \in found THEN read[c].artifacts[a] ELSE None]
  <2>1. state' = state \/ state'.artifacts = left
    <3> HIDE DEF found
    <3>1. state' = state \/ state' = [read[c] EXCEPT !.artifacts = left]
      BY <1>4 DEF Reconcile, found
    <3> HIDE DEF left
    <3> QED BY <3>1, <1>st DEF State
  <2> HIDE DEF found
  <2>2. \A a \in Artifact : left[a] = read[c].artifacts[a] \/ left[a] = None
    OBVIOUS
  <2> HIDE DEF left
  <2> QED BY <1>st, <2>1, <2>2 DEF Covered
<1>5. ASSUME Advance(c) PROVE Covered(state', Known)
  <2>1. state' = [read[c] EXCEPT !.next = at[c].seq + 1]
    BY <1>5 DEF Advance
  <2>2. state'.artifacts = read[c].artifacts
    BY <1>st, <2>1 DEF State
  <2> QED BY <1>st, <2>2 DEF Covered
<1>6. ASSUME MarkQueued(c) PROVE Covered(state', Known)
  <2>1. state' = [read[c] EXCEPT !.artifacts = [read[c].artifacts EXCEPT ![at[c].id] = at[c].digest]]
    BY <1>6 DEF MarkQueued
  <2>2. at[c] \in Record /\ Rev(at[c]) \in Known
    BY <1>6, <1>st DEF MarkQueued, AtInv, Begins
  <2>3. state'.artifacts = [read[c].artifacts EXCEPT ![at[c].id] = at[c].digest]
    BY <1>st, <2>1 DEF State
  <2>4. read[c].artifacts \in [Artifact -> Digest \union {None}]
    BY <1>st, StateFields
  <2>5. \A a \in Artifact : state'.artifacts[a] = IF a = at[c].id THEN at[c].digest ELSE read[c].artifacts[a]
    BY <2>3, <2>4
  <2> QED BY <1>st, <2>2, <2>5 DEF Covered, Rev
<1> QED BY <1>st, <1>1, <1>2, <1>3, <1>4, <1>5, <1>6, <1>7, <1>8 DEF Queueing

LEMMA SendingCovers ==
    ASSUME Inv, NEW c \in Command, Sending(c)
    PROVE  Covered(state', Known)
<1> USE DEF history, local, bounds
<1>st. read[c] \in State /\ Covered(state, Known) /\ Covered(read[c], Known)
  BY DEF Inv, TypeOK
<1>1. ASSUME NEW r \in todo[c], Accepted(c, r) \/ Refused(c, r) \/ NoAnswer(c, r) PROVE state' = state
  BY <1>1 DEF Accepted, Refused, NoAnswer
<1>2. ASSUME List(c) \/ Unlink(c) \/ ReadAfterRemoval(c) \/ Evict(c) \/ Rename(c) \/ ReadToMarkError(c)
             \/ Unreadable(c)
      PROVE  state' = state
  BY <1>2 DEF List, Unlink, ReadAfterRemoval, Evict, Rename, ReadToMarkError, Unreadable
<1>3. ASSUME PutBack(c) \/ MarkError(c) PROVE state' = read[c]
  BY <1>3 DEF PutBack, MarkError
<1>4. ASSUME Keep(c) PROVE Covered(state', Known)
  <2>2. state'.artifacts = read[c].artifacts
    BY <1>st, <1>4 DEF Keep, State
  <2> QED BY <1>st, <2>2 DEF Covered
<1> QED BY <1>st, <1>1, <1>2, <1>3, <1>4 DEF Sending

--------------------------------------------------------------------------------
(* A step of a command changes what that command has in memory, and what   *)
(* it has read is a copy of the state or nothing.                          *)
Local(c) ==
    /\ read' \in {read, Put(read, c, state), Put(read, c, NoState)}
    /\ \A d \in Command \ {c} : pc'[d] = pc[d] /\ at'[d] = at[d] /\ todo'[d] = todo[d]

LEMMA BreakIsLocal ==
    ASSUME TypeOK, NEW c \in Command, Break(c) \/ Finish(c)
    PROVE  Local(c) /\ pc'[c] \in {"error", "idle"}
  BY DEF TypeOK, Break, Finish, Goto, Forget, Put, Local

LEMMA QueueingIsLocal ==
    ASSUME TypeOK, NEW c \in Command, Queueing(c)
    PROVE  Local(c)
<1> USE DEF history, local, bounds
<1>1. ASSUME NEW S \in SUBSET Artifact, Discover(c, S) PROVE Local(c)
  BY <1>1 DEF TypeOK, Discover, Goto, Put, Local
<1>2. ASSUME QueueDone(c) \/ Late(c) PROVE Local(c)
  BY <1>2, BreakIsLocal DEF QueueDone, Late
<1>3. ASSUME NEW i \in todo[c], Unchanged(c, i) \/ Changed(c, i) PROVE Local(c)
  BY <1>3 DEF TypeOK, Unchanged, Changed, Goto, Put, Local
<1>6. ASSUME NEW r \in outbox, FoundQueued(c, r) PROVE Local(c)
  BY <1>6 DEF TypeOK, FoundQueued, Goto, Put, Local
<1>7. ASSUME AlreadyQueued(c) \/ HasRoom(c) \/ Number(c) PROVE Local(c)
  BY <1>7 DEF TypeOK, AlreadyQueued, HasRoom, Number, Goto, Put, Local
<1>4. ASSUME Overflow(c) PROVE Local(c)
  BY <1>4, BreakIsLocal DEF Overflow
<1>5. ASSUME Reconcile(c) \/ WriteRecord(c) \/ Advance(c) \/ ReadToMark(c) \/ MarkQueued(c) PROVE Local(c)
  BY <1>5 DEF TypeOK, Reconcile, WriteRecord, Advance, ReadToMark, MarkQueued, Goto, Put, Local
<1> QED BY <1>1, <1>2, <1>3, <1>4, <1>5, <1>6, <1>7 DEF Queueing

LEMMA SendingIsLocal ==
    ASSUME TypeOK, NEW c \in Command, Sending(c)
    PROVE  Local(c)
<1> USE DEF history, local, bounds
<1>1. ASSUME NEW r \in todo[c], Accepted(c, r) \/ Refused(c, r) PROVE Local(c)
  BY <1>1 DEF TypeOK, Accepted, Refused, Goto, Put, Local
<1>2. ASSUME NEW r \in todo[c], NoAnswer(c, r) PROVE Local(c)
  BY <1>2, BreakIsLocal DEF NoAnswer
<1>3. ASSUME GoOn(c) PROVE Local(c)
  BY <1>3 DEF TypeOK, GoOn, Goto, Put, Local
<1>4. ASSUME List(c) PROVE Local(c)
  <2>1. CASE Finish(c)
    BY <2>1, BreakIsLocal
  <2>2. CASE ~Finish(c)
    BY <1>4, <2>2 DEF TypeOK, List, Goto, Put, Local
  <2> QED BY <2>1, <2>2
<1>5. ASSUME Unlink(c) PROVE Local(c)
  <2>1. CASE Break(c)
    BY <2>1, BreakIsLocal
  <2>2. CASE ~Break(c)
    BY <1>5, <2>2 DEF TypeOK, Unlink, Goto, Put, Local
  <2> QED BY <2>1, <2>2
<1>6. ASSUME Evict(c) PROVE Local(c)
  <2>1. CASE Clash(c)
    BY <1>6, <2>1, BreakIsLocal DEF Evict
  <2>2. CASE ~Clash(c)
    <3>1. Goto(c, "keep") /\ UNCHANGED <<todo, at, read>>
      BY <1>6, <2>2 DEF Evict
    <3> QED BY <3>1 DEF TypeOK, Goto, Local
  <2> QED BY <2>1, <2>2
<1>11. ASSUME Keep(c) PROVE Local(c)
  BY <1>11 DEF TypeOK, Keep, Goto, Local
<1>7. ASSUME Rename(c) PROVE Local(c)
  BY <1>3, <1>7, BreakIsLocal DEF Rename
<1>8. ASSUME PutBack(c) PROVE Local(c)
  BY <1>3, <1>8 DEF PutBack
<1>9. ASSUME MarkError(c) \/ Unreadable(c) PROVE Local(c)
  BY <1>9, BreakIsLocal DEF MarkError, Unreadable
<1>10. ASSUME ReadAfterRemoval(c) \/ ReadToMarkError(c) PROVE Local(c)
  BY <1>10 DEF TypeOK, ReadAfterRemoval, ReadToMarkError, Goto, Put, Local
<1> QED BY <1>1, <1>2, <1>4, <1>5, <1>6, <1>7, <1>8, <1>9, <1>10, <1>11 DEF Sending

(* What the command itself is at.                                          *)
LEMMA QueueingAt ==
    ASSUME Inv, NEW c \in Command, Queueing(c), Known \subseteq Known'
    PROVE  AtInv(c)'
<1> USE DEF history, local, bounds
<1>ty. TypeOK /\ AtInv(c)
  BY DEF Inv
<1>1. ASSUME NEW S \in SUBSET Artifact, Discover(c, S) PROVE pc'[c] = "reconcile"
  BY <1>1, <1>ty DEF TypeOK, Discover, Goto
<1>2. ASSUME QueueDone(c) \/ Late(c) PROVE pc'[c] \in {"error", "idle"}
  BY <1>2, <1>ty, BreakIsLocal DEF QueueDone, Late
<1>3. ASSUME Overflow(c) PROVE pc'[c] \in {"error", "idle"}
  BY <1>3, <1>ty, BreakIsLocal DEF Overflow
<1>4. ASSUME NEW i \in todo[c], Unchanged(c, i) PROVE pc'[c] = "look"
  BY <1>4, <1>ty DEF TypeOK, Unchanged, Picks
<1>5. ASSUME Reconcile(c) \/ MarkQueued(c) PROVE pc'[c] = "look"
  BY <1>5, <1>ty DEF TypeOK, Reconcile, MarkQueued, Goto
<1>6. ASSUME NEW r \in outbox, FoundQueued(c, r) PROVE AtInv(c)'
  <2>1. r \in Record /\ Rev(r) \in Known'
    BY <1>ty DEF TypeOK, Known
  <2>2. at'[c] = r /\ pc'[c] = "found"
    BY <1>6, <1>ty DEF TypeOK, FoundQueued, Goto, Put
  <2> QED BY <2>1, <2>2 DEF AtInv, Ends
<1>7. ASSUME Number(c) PROVE AtInv(c)'
  <2>1. at[c] \in Item /\ state.next \in Sequence
    BY <1>7, <1>ty, StateFields, OutboxAssumption DEF TypeOK, Number, Sequence, AtInv
  <2>2. [at[c] EXCEPT !.seq = state.next] \in Record
    BY <2>1 DEF Item, Record
  <2>3. pc'[c] = "record" /\ at'[c] = [at[c] EXCEPT !.seq = state.next]
    BY <1>7, <1>ty DEF TypeOK, Number, Goto, Put
  <2> QED BY <2>2, <2>3 DEF AtInv, Ends
<1>11. ASSUME AlreadyQueued(c) PROVE AtInv(c)'
  <2>1. at[c] \in Record /\ Rev(at[c]) \in Known'
    BY <1>11, <1>ty DEF AlreadyQueued, AtInv, Begins
  <2>2. at' = at /\ pc'[c] \in {"advance", "mark"}
    BY <1>11, <1>ty DEF TypeOK, AlreadyQueued, Goto
  <2> QED BY <2>1, <2>2 DEF AtInv, Ends
<1>12. ASSUME NEW i \in todo[c], Changed(c, i) PROVE AtInv(c)'
  <2>1. pc'[c] = "pending" /\ at'[c] = i /\ i \in Item
    BY <1>12, <1>ty DEF TypeOK, Changed, Goto, Put
  <2> QED BY <2>1 DEF AtInv, Begins, Ends
<1>13. ASSUME HasRoom(c) PROVE AtInv(c)'
  <2>1. pc'[c] = "number" /\ at' = at /\ at[c] \in Item
    BY <1>13, <1>ty DEF TypeOK, HasRoom, Goto, AtInv
  <2> QED BY <2>1 DEF AtInv, Begins, Ends
<1>8. ASSUME WriteRecord(c) PROVE AtInv(c)'
  <2>1. at[c] \in Record /\ at' = at /\ pc'[c] = "advance" /\ at[c] \in outbox'
    BY <1>8, <1>ty DEF TypeOK, WriteRecord, Goto, AtInv, Begins
  <2>2. Rev(at[c]) \in Known'
    BY <2>1 DEF Known
  <2> QED BY <2>1, <2>2 DEF AtInv, Ends
<1>9. ASSUME Advance(c) \/ ReadToMark(c) PROVE AtInv(c)'
  <2>1. at' = at /\ pc[c] \in {"advance", "mark"} /\ pc'[c] \in {"mark", "marked"}
    BY <1>9, <1>ty DEF TypeOK, Advance, ReadToMark, Goto
  <2>2. at[c] \in Record /\ Rev(at[c]) \in Known'
    BY <1>ty, <2>1 DEF AtInv, Begins
  <2> QED BY <2>1, <2>2 DEF AtInv, Ends
<1>10. ASSUME pc'[c] \in {"idle", "error", "reconcile", "look"} PROVE AtInv(c)'
  BY <1>10 DEF AtInv, Begins, Ends
<1> QED BY <1>1, <1>2, <1>3, <1>4, <1>5, <1>6, <1>7, <1>8, <1>9, <1>10, <1>11, <1>12, <1>13 DEF Queueing

LEMMA SendingAt ==
    ASSUME Inv, NEW c \in Command, Sending(c)
    PROVE  AtInv(c)'
<1> USE DEF history, local, bounds
<1>ty. TypeOK /\ AtInv(c)
  BY DEF Inv
<1>0. ASSUME pc'[c] \in {"idle", "error", "marking"} PROVE AtInv(c)'
  BY <1>0 DEF AtInv, Begins, Ends
<1>br. ASSUME Break(c) \/ Finish(c) PROVE AtInv(c)'
  BY <1>0, <1>br, <1>ty, BreakIsLocal
<1>go. ASSUME GoOn(c), todo[c] \subseteq Record PROVE AtInv(c)'
  <2>1. pc'[c] \in {"error", "put"} /\ todo'[c] \subseteq Record
    BY <1>go, <1>ty DEF TypeOK, GoOn, Goto, Put
  <2> QED BY <2>1 DEF AtInv, Begins, Ends
<1>1. ASSUME List(c) PROVE AtInv(c)'
  <2>1. CASE outbox # {}
    <3>1. pc'[c] = "put" /\ todo'[c] = outbox
      BY <1>1, <1>ty, <2>1 DEF TypeOK, List, Goto, Put
    <3> QED BY <1>ty, <3>1 DEF TypeOK, AtInv, Begins, Ends
  <2>2. CASE outbox = {}
    BY <1>1, <1>br, <2>2 DEF List
  <2> QED BY <2>1, <2>2
<1>2. ASSUME NEW r \in todo[c], Accepted(c, r) PROVE AtInv(c)'
  <2>1. todo[c] \subseteq Record /\ r \in Record
    BY <1>2, <1>ty DEF Accepted, Sends, AtInv
  <2>2. pc'[c] = "unlink" /\ at'[c] = r /\ todo' = todo /\ Rev(r) \in accepted'
    BY <1>2, <1>ty DEF TypeOK, Accepted, Goto, Put
  <2> QED BY <2>1, <2>2 DEF AtInv, Begins
<1>3. ASSUME NEW r \in todo[c], Refused(c, r) PROVE AtInv(c)'
  <2>1. todo[c] \subseteq Record /\ r \in Record
    BY <1>3, <1>ty DEF Refused, Sends, AtInv
  <2>2. pc'[c] = "evict" /\ at'[c] = r /\ todo' = todo /\ Rev(r) \in refused'
    BY <1>3, <1>ty DEF TypeOK, Refused, Goto, Put
  <2> QED BY <2>1, <2>2 DEF AtInv, Begins
<1>4. ASSUME NEW r \in todo[c], NoAnswer(c, r) PROVE AtInv(c)'
  BY <1>4, <1>br DEF NoAnswer
<1>5. ASSUME Unlink(c) \/ ReadAfterRemoval(c) PROVE AtInv(c)'
  <2>1. CASE Break(c)
    BY <2>1, <1>br
  <2>2. CASE ~Break(c)
    <3>1. pc[c] \in {"unlink", "removed"} /\ pc'[c] \in {"removed", "putback"} /\ at' = at /\ todo' = todo
      BY <1>5, <1>ty, <2>2 DEF TypeOK, Unlink, ReadAfterRemoval, Goto
    <3>2. at[c] \in Record /\ todo[c] \subseteq Record
      BY <1>ty, <3>1 DEF AtInv, Ends
    <3> QED BY <3>1, <3>2 DEF AtInv, Begins
  <2> QED BY <2>1, <2>2
<1>6. ASSUME PutBack(c) PROVE AtInv(c)'
  BY <1>6, <1>ty, <1>go DEF PutBack, AtInv, Ends
<1>7. ASSUME Keep(c) PROVE AtInv(c)'
  <2>1. pc[c] = "keep" /\ pc'[c] = "rename" /\ UNCHANGED <<at, todo, refused>>
    BY <1>7, <1>ty DEF TypeOK, Keep, Goto
  <2> QED BY <1>ty, <2>1 DEF AtInv, Begins, Ends
<1>11. ASSUME Evict(c) PROVE AtInv(c)'
  <2>1. CASE Clash(c)
    BY <1>11, <1>br, <2>1 DEF Evict
  <2>2. CASE ~Clash(c)
    <3>1. Goto(c, "keep") /\ pc[c] = "evict" /\ UNCHANGED <<at, todo, read, refused>>
      BY <1>11, <2>2 DEF Evict
    <3>2. pc'[c] = "keep"
      BY <1>ty, <3>1 DEF TypeOK, Goto
    <3>3. ~Clash(c)'
      BY <2>2, <3>1 DEF Clash
    <3> QED BY <1>ty, <3>1, <3>2, <3>3 DEF AtInv, Begins, Ends
  <2> QED BY <2>1, <2>2
<1>8. ASSUME Rename(c) PROVE AtInv(c)'
  BY <1>8, <1>ty, <1>go, <1>br DEF Rename, AtInv, Ends
<1>9. ASSUME MarkError(c) \/ Unreadable(c) PROVE AtInv(c)'
  BY <1>9, <1>br DEF MarkError, Unreadable
<1>10. ASSUME ReadToMarkError(c) PROVE AtInv(c)'
  <2>1. pc'[c] = "marking"
    BY <1>10, <1>ty DEF TypeOK, ReadToMarkError, Goto
  <2> QED BY <1>0, <2>1
<1> QED BY <1>1, <1>2, <1>3, <1>4, <1>5, <1>6, <1>7, <1>8, <1>9, <1>10, <1>11 DEF Sending

(* What goes on around touches no more than the command's own memory.      *)
LEMMA AroundAt ==
    ASSUME Inv, Around, NEW d \in Command
    PROVE  AtInv(d)' /\ (read'[d] = read[d] \/ read'[d] = NoState)
<1> USE DEF history, local, bounds
<1>ty. TypeOK /\ AtInv(d)
  BY DEF Inv
<1>1. ASSUME NEW c \in Command, Die(c) PROVE AtInv(d)' /\ (read'[d] = read[d] \/ read'[d] = NoState)
  <2>1. read'[d] = read[d] \/ read'[d] = NoState
    BY <1>1, <1>ty DEF TypeOK, Die, Finish, Forget, Put
  <2>2. CASE c = d
    <3>1. pc'[d] = "idle"
      BY <1>1, <1>ty, <2>2 DEF TypeOK, Die, Finish, Goto
    <3> QED BY <2>1, <3>1 DEF AtInv, Begins, Ends
  <2>3. CASE c # d
    <3>1. /\ pc'[d] = pc[d] /\ at'[d] = at[d] /\ todo'[d] = todo[d] /\ read'[d] = read[d]
          /\ UNCHANGED <<accepted, refused, outbox>>
      BY <1>1, <1>ty, <2>3 DEF TypeOK, Die, Finish, Forget, Goto, Put
    <3> QED BY <1>ty, <2>1, <3>1 DEF AtInv, Known, Clash
  <2> QED BY <2>2, <2>3
<1>2. ASSUME NEW c \in Command, Start(c) PROVE AtInv(d)' /\ (read'[d] = read[d] \/ read'[d] = NoState)
  <2>1. pc'[d] = pc[d] \/ pc'[d] \in {"queue", "send"}
    BY <1>2, <1>ty DEF TypeOK, Start, Goto
  <2>2. UNCHANGED <<todo, at, read, accepted, refused, outbox>>
    BY <1>2 DEF Start
  <2> QED BY <1>ty, <2>1, <2>2 DEF AtInv, Known, Clash, Begins, Ends
<1>3. ASSUME NEW a \in Artifact, NEW x \in Digest, Edit(a, x)
      PROVE  AtInv(d)' /\ (read'[d] = read[d] \/ read'[d] = NoState)
  <2>1. UNCHANGED <<pc, todo, at, read, accepted, refused, outbox>>
    BY <1>3 DEF Edit
  <2> QED BY <1>ty, <2>1 DEF AtInv, Known, Clash
<1> QED BY <1>1, <1>2, <1>3 DEF Around

LEMMA CommandStep ==
    ASSUME Inv, Next, NEW c \in Command, Queueing(c) \/ Sending(c)
    PROVE  /\ Covered(state', Known')
           /\ \A d \in Command : Covered(read'[d], Known')
           /\ \A d \in Command : AtInv(d)'
<1>ty. TypeOK
  BY DEF Inv
<1>1. accepted \subseteq accepted' /\ refused \subseteq refused' /\ Known \subseteq Known'
  BY StepKeeps
<1>2. Covered(state', Known)
  BY QueueingCovers, SendingCovers
<1>3. Covered(state', Known')
  BY <1>1, <1>2, CoveredGrows
<1>4. Local(c)
  BY <1>ty, QueueingIsLocal, SendingIsLocal
<1>5. ASSUME NEW d \in Command PROVE Covered(read'[d], Known')
  <2>1. read'[d] \in {read[d], state, NoState}
    BY <1>4, <1>ty DEF Local, TypeOK, Put
  <2>2. Covered(read[d], Known) /\ Covered(state, Known) /\ Covered(NoState, Known)
    BY EmptyState DEF Inv
  <2>3. Covered(read'[d], Known)
    BY <2>1, <2>2
  <2> QED BY <1>1, <2>3, CoveredGrows
<1>6. ASSUME NEW d \in Command PROVE AtInv(d)'
  <2>1. CASE d = c
    BY <1>1, <2>1, QueueingAt, SendingAt
  <2>2. CASE d # c
    <3>1. pc'[d] = pc[d] /\ at'[d] = at[d] /\ todo'[d] = todo[d] /\ read'[d] = read[d]
      BY <1>4, <1>ty, <2>2 DEF Local, TypeOK, Put
    <3>2. AtInv(d)
      BY DEF Inv
    <3> QED BY <1>1, <3>1, <3>2 DEF AtInv, Clash
  <2> QED BY <2>1, <2>2
<1> QED BY <1>3, <1>5, <1>6

LEMMA InvInit == Init => Inv
<1> SUFFICES ASSUME Init PROVE Inv
  OBVIOUS
<1>1. Covered(state, Known) /\ \A c \in Command : Covered(read[c], Known)
  BY EmptyState DEF Init
<1>2. \A c \in Command : AtInv(c)
  BY DEF Init, AtInv, Begins, Ends
<1> QED BY <1>1, <1>2, TypeInit DEF Inv

LEMMA InvNext == Inv /\ [Next]_vars => Inv'
<1> SUFFICES ASSUME Inv, [Next]_vars PROVE Inv'
  OBVIOUS
<1>1. ASSUME NEW c \in Command, Next, Queueing(c) \/ Sending(c) PROVE Inv'
  <2>1. TypeOK'
    BY <1>1, TypeStep
  <2> QED BY <1>1, <2>1, CommandStep DEF Inv
<1>2. ASSUME Next, Around PROVE Inv'
  <2>1. TypeOK'
    BY <1>2, TypeStep
  <2>2. Covered(state', Known') /\ Known' = Known
    BY <1>2, AroundKeeps DEF Inv, Known
  <2>3. \A d \in Command : Covered(read'[d], Known')
    BY <1>2, <2>2, AroundAt, EmptyState DEF Inv
  <2>4. \A d \in Command : AtInv(d)'
    BY <1>2, AroundAt
  <2> QED BY <2>1, <2>2, <2>3, <2>4 DEF Inv
<1>3. ASSUME UNCHANGED vars PROVE Inv'
  <2>1. TypeOK'
    BY <1>3 DEF Inv, TypeOK, vars, history, local, bounds
  <2>2. Covered(state', Known') /\ \A c \in Command : Covered(read'[c], Known')
    BY <1>3 DEF Inv, Covered, Known, vars, history, local, bounds
  <2>3. \A c \in Command : AtInv(c)'
    BY <1>3 DEF Inv, AtInv, Known, Clash, vars, history, local, bounds
  <2> QED BY <2>1, <2>2, <2>3 DEF Inv
<1> QED BY <1>1, <1>2, <1>3 DEF Next, Around

--------------------------------------------------------------------------------
(* Evidence leaves the quarantine only for newer evidence.                 *)
LEMMA KeepsNewer ==
    ASSUME Inv, NEW c \in Command, Evict(c)
    PROVE  KeptForNewer
<1> SUFFICES ASSUME NEW r \in quarantine \ quarantine'
             PROVE  \E q \in Listing' : q.seq >= r.seq
  BY DEF KeptForNewer
<1>ty. TypeOK /\ AtInv(c) /\ read[c] \in State
  BY DEF Inv, TypeOK
<1> DEFINE S == read[c].quarantined \union {at[c]}
<1>1. at[c] \in Record /\ ~Clash(c)
  BY <1>ty DEF Evict, AtInv, Ends
<1>2. r \in read[c].quarantined \ Kept(c)
  BY <1>1 DEF Evict
<1>3. Kept(c) = Retained(S)
  BY <1>2 DEF Kept
<1>4. S \in SUBSET Record /\ Distinct(S) /\ r \in S
  BY <1>ty, <1>1, <1>2, KeepFits
<1>5. \E q \in Retained(S) : q.seq >= r.seq
  <2> HIDE DEF S
  <2> QED BY <1>4, NewestStays
<1>6. pc'[c] = "keep" /\ UNCHANGED <<at, read>>
  BY <1>1, <1>ty DEF Evict, TypeOK, Goto
<1>7. Kept(c)' = Kept(c)
  BY <1>6 DEF Kept
<1>8. Kept(c)' \subseteq Listing'
  BY <1>6 DEF Listing
<1> QED BY <1>3, <1>5, <1>7, <1>8

LEMMA QueueingKeepsEvidence ==
    ASSUME NEW c \in Command, Queueing(c)
    PROVE  quarantine' = quarantine
<1> USE DEF history, local, bounds
<1>1. ASSUME NEW S \in SUBSET Artifact, Discover(c, S) PROVE quarantine' = quarantine
  BY <1>1 DEF Discover
<1>2. ASSUME NEW i \in todo[c], Unchanged(c, i) \/ Changed(c, i) PROVE quarantine' = quarantine
  BY <1>2 DEF Unchanged, Changed
<1>4. ASSUME NEW r \in outbox, FoundQueued(c, r) PROVE quarantine' = quarantine
  BY <1>4 DEF FoundQueued
<1>5. CASE AlreadyQueued(c) \/ Overflow(c) \/ HasRoom(c) \/ Number(c)
  BY <1>5 DEF AlreadyQueued, Overflow, HasRoom, Number
<1>3. CASE Reconcile(c) \/ QueueDone(c) \/ Late(c) \/ WriteRecord(c) \/ Advance(c) \/ ReadToMark(c) \/ MarkQueued(c)
  BY <1>3 DEF Reconcile, QueueDone, Late, WriteRecord, Advance, ReadToMark, MarkQueued
<1> QED BY <1>1, <1>2, <1>3, <1>4, <1>5 DEF Queueing

LEMMA SendingKeepsEvidence ==
    ASSUME NEW c \in Command, Sending(c)
    PROVE  quarantine \subseteq quarantine' \/ Evict(c)
<1> USE DEF history, local, bounds
<1>1. ASSUME NEW r \in todo[c], Accepted(c, r) \/ Refused(c, r) \/ NoAnswer(c, r)
      PROVE  quarantine' = quarantine
  BY <1>1 DEF Accepted, Refused, NoAnswer
<1>2. CASE List(c) \/ Unlink(c) \/ ReadAfterRemoval(c) \/ PutBack(c) \/ Keep(c)
           \/ ReadToMarkError(c) \/ MarkError(c) \/ Unreadable(c)
  BY <1>2 DEF List, Unlink, ReadAfterRemoval, PutBack, Keep, ReadToMarkError, MarkError, Unreadable
<1>3. CASE Rename(c)
  BY <1>3 DEF Rename
<1> QED BY <1>1, <1>2, <1>3 DEF Sending

LEMMA EvidenceStep == Inv /\ [Next]_vars => [LeavesJudged /\ KeptForNewer]_vars
<1> SUFFICES ASSUME Inv, Next PROVE LeavesJudged /\ KeptForNewer
  OBVIOUS
<1>1. LeavesJudged
  BY StepKeeps
<1>2. ASSUME NEW c \in Command, Queueing(c) PROVE KeptForNewer
  BY <1>2, QueueingKeepsEvidence DEF KeptForNewer
<1>3. ASSUME NEW c \in Command, Sending(c) PROVE KeptForNewer
  <2>1. quarantine \subseteq quarantine' \/ Evict(c)
    BY <1>3, SendingKeepsEvidence
  <2>2. CASE quarantine \subseteq quarantine'
    BY <2>2 DEF KeptForNewer
  <2> QED BY <2>1, <2>2, KeepsNewer
<1>4. ASSUME Around PROVE KeptForNewer
  BY <1>4, AroundKeeps DEF KeptForNewer
<1>5. KeptForNewer
  BY <1>2, <1>3, <1>4 DEF Next, Around
<1> QED BY <1>1, <1>5

--------------------------------------------------------------------------------
(* The invariant of the outbox.                                            *)
THEOREM OutboxInvariant == Spec => []Inv
  BY InvInit, InvNext, PTL DEF Spec

(* Whatever commands put back, state.json stays one that every command     *)
(* reads: its list of quarantined records fits, with distinct numbers      *)
(* (checkpointState, quarantine).                                          *)
THEOREM TypeCorrect == Spec => []TypeOK
<1>1. Inv => TypeOK
  BY DEF Inv
<1> QED BY <1>1, OutboxInvariant, PTL

(* A digest that suppresses discovery is in the queue, accepted or refused *)
(* (enqueue, markQueued, reconcileArtifacts).                              *)
THEOREM NothingIsForgotten == Spec => []NothingForgotten
<1>1. Inv => NothingForgotten
  BY DEF Inv, Covered, Known, NothingForgotten
<1> QED BY <1>1, OutboxInvariant, PTL

(* A record leaves the queue for a verdict, and the quarantine for newer   *)
(* evidence (remove, quarantine).                                          *)
THEOREM EvidenceIsKept == Spec => EvidenceKept
  BY InvInit, InvNext, EvidenceStep, PTL DEF Spec, EvidenceKept
================================================================================
