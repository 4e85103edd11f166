------------------------- MODULE CaptureServiceProofs -------------------------
(***************************************************************************)
(* The capture service of a machine: the commands that set it up and take  *)
(* it down (CaptureSetup), and the queue its relay keeps (NativeOutbox).   *)
(*                                                                         *)
(* However requests, drains, evictions and stops of the relay interleave,  *)
(* for any number of records and bindings and any bounds, the queue never  *)
(* exceeds its bound, and what was once stored is there, received, or told *)
(* of by its binding's evictedCount.                                       *)
(*                                                                         *)
(* However commands fail, undo, fail to undo and die, for any checkouts,   *)
(* destinations, commands and faults: what they report is true, the hosts  *)
(* send only to a service that runs, a setup can repair what they leave,   *)
(* and a purge gives up the identity only under a receipt that is true.    *)
(***************************************************************************)
EXTENDS CaptureSetup, NativeOutbox, FiniteSetTheorems, TLAPS

--------------------------------------------------------------------------------
(* The operators.                                                          *)

LEMMA MinOfTwo ==
    ASSUME NEW a \in Int, NEW b \in Int
    PROVE  Min({a, b}) = IF a <= b THEN a ELSE b
<1> DEFINE m == IF a <= b THEN a ELSE b
<1>1. m \in {a, b} /\ \A y \in {a, b} : m <= y
  OBVIOUS
<1>2. \A x \in {a, b} : (\A y \in {a, b} : x <= y) => x = m
  OBVIOUS
<1> HIDE DEF m
<1>3. Min({a, b}) = m
  BY <1>1, <1>2 DEF Min
<1> QED BY <1>3 DEF m

LEMMA MaxOfTwo ==
    ASSUME NEW a \in Int, NEW b \in Int
    PROVE  Max({a, b}) = IF a >= b THEN a ELSE b
<1> DEFINE m == IF a >= b THEN a ELSE b
<1>1. m \in {a, b} /\ \A y \in {a, b} : m >= y
  OBVIOUS
<1>2. \A x \in {a, b} : (\A y \in {a, b} : x >= y) => x = m
  OBVIOUS
<1> HIDE DEF m
<1>3. Max({a, b}) = m
  BY <1>1, <1>2 DEF Max
<1> QED BY <1>3 DEF m

(* Every set of records is finite.                                         *)
LEMMA RecordsAreFinite ==
    ASSUME NEW S \in SUBSET Rec
    PROVE  IsFiniteSet(S) /\ Cardinality(S) \in Nat
<1>1. IsFiniteSet(Rec)
  BY FS_Interval, OutboxAssumption DEF Rec
<1>2. IsFiniteSet(S)
  BY <1>1, FS_Subset
<1> QED BY <1>2, FS_CardinalityType

(* What a drain takes is a list of records.                                *)
LEMMA BatchIsList ==
    ASSUME NEW S \in SUBSET Rec, NEW n \in Nat
    PROVE  Batch(S, n) \subseteq Seq(Rec)
<1>1. Cardinality(S) \in Nat
  BY RecordsAreFinite
<1>2. Min({n, Cardinality(S)}) \in Nat
  BY <1>1, MinOfTwo
<1>3. \A m \in Nat : [1..m -> S] \subseteq Seq(Rec)
  OBVIOUS
<1> QED BY <1>2, <1>3 DEF Batch

(* evictedCount stays within its bound.                                    *)
LEMMA PlusIsMin ==
    ASSUME NEW c \in 0..CountCap, NEW n \in Nat
    PROVE  Plus(c, n) = (IF CountCap <= c + n THEN CountCap ELSE c + n)
BY MinOfTwo, OutboxAssumption DEF Plus

LEMMA CountIsBounded ==
    ASSUME QueueTypeOK, NEW V \in SUBSET Rec
    PROVE  CountOf(V) \in [Binding -> 0..CountCap]
<1> SUFFICES ASSUME NEW b \in Binding
             PROVE  Plus(count[b], Cardinality({r \in V : own[r] = b})) \in 0..CountCap
  BY DEF CountOf
<1>1. Cardinality({r \in V : own[r] = b}) \in Nat
  BY RecordsAreFinite
<1>2. count[b] \in 0..CountCap
  BY DEF QueueTypeOK
<1> QED BY <1>1, <1>2, PlusIsMin, OutboxAssumption

--------------------------------------------------------------------------------
(* The type invariant, part by part.                                       *)

StoreType ==
    /\ records \subseteq Rec /\ aged \subseteq records
    /\ wait \in [Rec -> 0..MaxWait]
    /\ count \in [Binding -> 0..CountCap]

DrainType ==
    /\ inFlight \subseteq Rec
    /\ draining \in BOOLEAN /\ list \in Seq(Rec) /\ cur \in Rec \union {NoRec}
    /\ seenConfig \subseteq Binding

RestType ==
    /\ received \subseteq Rec /\ stored \subseteq Rec
    /\ own \in [Rec -> Binding]
    /\ req \in [Rec -> Phases]
    /\ mode \in {"up", "closing", "last", "down"}
    /\ config \subseteq Binding
    /\ troubles \in 0..MaxTroubles

LEMMA TypeInParts == QueueTypeOK <=> StoreType /\ DrainType /\ RestType
BY DEF QueueTypeOK, StoreType, DrainType, RestType

LEMMA KeepKeepsType ==
    ASSUME QueueTypeOK, NEW F \in SUBSET Rec, NEW w \in [Rec -> 0..MaxWait], Keep(F, w),
           count' \in [Binding -> 0..CountCap]
    PROVE  StoreType'
BY OutboxAssumption DEF Keep, StoreType

LEMMA DeferKeepsType ==
    ASSUME QueueTypeOK, NEW r \in Rec, Defer(r), UNCHANGED count
    PROVE  StoreType'
BY DEF Defer, StoreType, QueueTypeOK

LEMMA EvictionStopsKeepsType ==
    ASSUME QueueTypeOK, NEW V \in SUBSET Rec, EvictionStops(V)
    PROVE  StoreType'
<1>1. PICK C \in Oldest(V), U \in Oldest(V) : Keep(records \ U, wait) /\ count' = CountOf(C)
  BY DEF EvictionStops
<1>2. C \in SUBSET Rec /\ records \ U \in SUBSET Rec /\ wait \in [Rec -> 0..MaxWait]
  BY DEF Oldest, QueueTypeOK
<1>3. count' \in [Binding -> 0..CountCap]
  BY <1>1, <1>2, CountIsBounded
<1> QED BY <1>1, <1>2, <1>3, KeepKeepsType

LEMMA TakeKeepsType ==
    ASSUME QueueTypeOK, NEW slots \in Nat, NEW w \in [Rec -> 0..MaxWait], Take(slots, w),
           UNCHANGED inFlight
    PROVE  StoreType' /\ DrainType'
<1>1. aged \in SUBSET Rec /\ records \ aged \in SUBSET Rec /\ config \subseteq Binding
  BY DEF QueueTypeOK
<1>2. StoreType'
  BY <1>1, CountIsBounded, KeepKeepsType DEF Take
<1>3. Ready(records \ aged, w) \in SUBSET Rec
  BY <1>1 DEF Ready
<1>4. list' \in Seq(Rec)
  BY <1>3, BatchIsList DEF Take
<1>5. DrainType'
  BY <1>1, <1>4 DEF Take, DrainType, QueueTypeOK
<1> QED BY <1>2, <1>5

LEMMA NothingToDrain ==
    ASSUME inFlight = {}, draining = FALSE, list = <<>>, cur = NoRec, seenConfig = {}
    PROVE  DrainType
<1>1. <<>> \in Seq(Rec)
  OBVIOUS
<1> QED BY <1>1 DEF DrainType

LEMMA GoneHasNothingToDrain == Gone => DrainType'
<1>1. <<>> \in Seq(Rec)
  OBVIOUS
<1> QED BY <1>1 DEF Gone, DrainType

LEMMA InitIsTyped == QueueInit => QueueTypeOK
<1> USE OutboxAssumption DEF QueueInit
<1>1. QueueInit => StoreType
  BY DEF StoreType
<1>2. QueueInit => DrainType
  BY NothingToDrain
<1>3. QueueInit => RestType
  BY DEF RestType, Phases
<1> QED BY <1>1, <1>2, <1>3, TypeInParts

LEMMA StepKeepsType == QueueTypeOK /\ [QueueNext]_queueVars => QueueTypeOK'
<1> SUFFICES ASSUME QueueTypeOK, [QueueNext]_queueVars
             PROVE  StoreType' /\ DrainType' /\ RestType'
  BY TypeInParts DEF QueueTypeOK, StoreType, DrainType, RestType
<1> USE OutboxAssumption
<1>0. StoreType /\ DrainType /\ RestType
  BY TypeInParts
<1>1. ASSUME NEW r \in Rec, Arrive(r) PROVE StoreType' /\ DrainType' /\ RestType'
  BY <1>0, <1>1 DEF Arrive, StoreType, DrainType, RestType, Phases, store, drain
<1>2. ASSUME NEW r \in Rec, Admit(r) PROVE StoreType' /\ DrainType' /\ RestType'
  <2>1. PICK V \in Oldest(records) : Keep((records \ V) \union {r}, wait) /\ count' = CountOf(V)
    BY <1>2 DEF Admit
  <2>2. V \in SUBSET Rec /\ (records \ V) \union {r} \in SUBSET Rec
    BY DEF Oldest, QueueTypeOK
  <2>3. StoreType'
    BY <2>1, <2>2, CountIsBounded, KeepKeepsType DEF QueueTypeOK
  <2>4. DrainType' /\ RestType'
    BY <1>0, <1>2 DEF Admit, DrainType, RestType, Phases, drain
  <2> QED BY <2>3, <2>4
<1>3. ASSUME NEW r \in Rec, Refuse(r) PROVE StoreType' /\ DrainType' /\ RestType'
  <2>1. StoreType'
    BY <1>3, EvictionStopsKeepsType DEF Refuse, QueueTypeOK
  <2>2. DrainType' /\ RestType'
    BY <1>0, <1>3 DEF Refuse, DrainType, RestType, Phases, drain
  <2> QED BY <2>1, <2>2
<1>4. ASSUME NEW r \in Rec, Sent(r) PROVE StoreType' /\ DrainType' /\ RestType'
  <2>1. records \ {r} \in SUBSET Rec /\ records \in SUBSET Rec
    BY DEF QueueTypeOK
  <2>2. StoreType'
    BY <1>4, <2>1, KeepKeepsType DEF Sent, QueueTypeOK
  <2>3. DrainType' /\ RestType'
    BY <1>0, <1>4 DEF Sent, DrainType, RestType, Phases, drain
  <2> QED BY <2>2, <2>3
<1>5. ASSUME NEW r \in Rec, NotSent(r) PROVE StoreType' /\ DrainType' /\ RestType'
  <2>1. StoreType'
    BY <1>5, DeferKeepsType DEF NotSent
  <2>2. DrainType' /\ RestType'
    BY <1>0, <1>5 DEF NotSent, DrainType, RestType, Phases, drain
  <2> QED BY <2>1, <2>2
<1>6. ASSUME NEW r \in Rec, Age(r) PROVE StoreType' /\ DrainType' /\ RestType'
  BY <1>0, <1>6 DEF Age, StoreType, DrainType, RestType, drain
<1>7. CASE Tick
  <2> DEFINE w == [r \in Rec |-> IF wait[r] = 0 THEN 0 ELSE wait[r] - 1]
  <2>1. w \in [Rec -> 0..MaxWait]
    BY DEF QueueTypeOK
  <2>2. RestType'
    BY <1>0, <1>7 DEF Tick, RestType
  <2>3. CASE draining /\ Keep(records, w) /\ UNCHANGED <<count, drain>>
    <3>1. StoreType'
      BY <2>1, <2>3, KeepKeepsType DEF QueueTypeOK
    <3>2. DrainType'
      BY <1>0, <1>7, <2>3 DEF Tick, DrainType, drain
    <3> QED BY <2>2, <3>1, <3>2
  <2>4. CASE Take(Slots, w)
    BY <1>7, <2>1, <2>2, <2>4, TakeKeepsType DEF Tick
  <2> QED BY <1>7, <2>3, <2>4 DEF Tick
<1>8. CASE TickFails
  <2>1. StoreType'
    BY <1>8, EvictionStopsKeepsType DEF TickFails, QueueTypeOK
  <2>2. DrainType' /\ RestType'
    BY <1>0, <1>8 DEF TickFails, DrainType, RestType, drain
  <2> QED BY <2>1, <2>2
<1>9. CASE DrainSkip
  BY <1>0, <1>9 DEF DrainSkip, StoreType, DrainType, RestType, store
<1>10. CASE DrainDefer
  <2>1. Head(list) \in Rec /\ Tail(list) \in Seq(Rec)
    BY <1>0, <1>10 DEF DrainDefer, DrainType
  <2>2. StoreType'
    BY <1>10, <2>1, DeferKeepsType DEF DrainDefer
  <2>3. DrainType' /\ RestType'
    BY <1>0, <1>10, <2>1 DEF DrainDefer, DrainType, RestType
  <2> QED BY <2>2, <2>3
<1>11. CASE DrainSend
  <2>1. Head(list) \in Rec /\ Tail(list) \in Seq(Rec)
    BY <1>0, <1>11 DEF DrainSend, DrainType
  <2> QED BY <1>0, <1>11, <2>1 DEF DrainSend, StoreType, DrainType, RestType, store
<1>12. CASE DrainSent
  <2>1. cur \in Rec /\ records \ {cur} \in SUBSET Rec
    BY <1>12 DEF DrainSent, QueueTypeOK
  <2>2. StoreType'
    BY <1>12, <2>1, DeferKeepsType, KeepKeepsType DEF DrainSent, QueueTypeOK
  <2>3. DrainType' /\ RestType'
    BY <1>0, <1>12, <2>1 DEF DrainSent, DrainType, RestType, Forget
  <2> QED BY <2>2, <2>3
<1>13. CASE DrainNotSent
  <2>1. cur \in Rec
    BY <1>13 DEF DrainNotSent, QueueTypeOK
  <2>2. StoreType'
    BY <1>13, <2>1, DeferKeepsType DEF DrainNotSent
  <2>3. DrainType' /\ RestType'
    BY <1>0, <1>13, <2>1 DEF DrainNotSent, DrainType, RestType, Forget
  <2> QED BY <2>2, <2>3
<1>14. CASE DrainEnds
  BY <1>0, <1>14 DEF DrainEnds, StoreType, DrainType, RestType, store
<1>15. CASE RelayDies
  <2>1. StoreType'
    BY <1>15, EvictionStopsKeepsType DEF RelayDies, QueueTypeOK
  <2>2. DrainType'
    BY <1>15, GoneHasNothingToDrain DEF RelayDies
  <2>3. RestType'
    BY <1>0, <1>15 DEF RelayDies, Gone, Trouble, RestType, DrainType, Phases
  <2> QED BY <2>1, <2>2, <2>3
<1>16. CASE Close
  BY <1>0, <1>16 DEF Close, Trouble, StoreType, DrainType, RestType, store, drain
<1>17. CASE LastDrain
  <2>1. RestType'
    BY <1>0, <1>17 DEF LastDrain, RestType
  <2>2. CASE UNCHANGED <<records, wait, aged, count, drain>>
    BY <1>0, <1>17, <2>1, <2>2 DEF LastDrain, StoreType, DrainType, drain
  <2>3. CASE Take(1, wait)
    BY <1>17, <2>1, <2>3, TakeKeepsType DEF LastDrain, QueueTypeOK
  <2> QED BY <1>17, <2>2, <2>3 DEF LastDrain
<1>18. CASE Exit
  <2>1. StoreType'
    BY <1>0, <1>18 DEF Exit, StoreType, store
  <2>2. RestType'
    BY <1>0, <1>18 DEF Exit, Gone, RestType, Phases, store
  <2>3. DrainType'
    BY <1>18, GoneHasNothingToDrain DEF Exit
  <2> QED BY <2>1, <2>2, <2>3
<1>19. CASE RelayRestarts
  <2>1. RestType'
    BY <1>0, <1>19 DEF RelayRestarts, RestType
  <2> QED BY <1>19, <2>1, TakeKeepsType DEF RelayRestarts, QueueTypeOK
<1>20. ASSUME NEW b \in Binding, Configure(b) PROVE StoreType' /\ DrainType' /\ RestType'
  BY <1>0, <1>20 DEF Configure, Trouble, StoreType, DrainType, RestType, store, drain
<1>21. CASE UNCHANGED queueVars
  BY <1>0, <1>21 DEF queueVars, store, drain, StoreType, DrainType, RestType
<1> QED
  BY <1>1, <1>2, <1>3, <1>4, <1>5, <1>6, <1>7, <1>8, <1>9, <1>10, <1>11, <1>12, <1>13,
     <1>14, <1>15, <1>16, <1>17, <1>18, <1>19, <1>20, <1>21 DEF QueueNext, Request, DrainStep

(* The state of the relay keeps its shape: TypeOK of the run.              *)
THEOREM QueueTypeCorrect == QueueSpec => []QueueTypeOK
<1>1. QueueInit => QueueTypeOK
  BY InitIsTyped
<1>2. QueueTypeOK /\ [QueueNext]_queueVars => QueueTypeOK'
  BY StepKeepsType
<1> QED BY <1>1, <1>2, PTL DEF QueueSpec

--------------------------------------------------------------------------------
(* The bound of the queue.                                                 *)

(* A step that only takes records away keeps the bound.                    *)
LEMMA FewerStayBounded ==
    ASSUME QueueTypeOK, Bounded, records' \subseteq records
    PROVE  Bounded'
<1>1. records \in SUBSET Rec /\ records' \in SUBSET records
  BY DEF QueueTypeOK
<1>2. IsFiniteSet(records) /\ Cardinality(records) \in Nat /\ Cardinality(records') \in Nat
  BY <1>1, RecordsAreFinite
<1>3. Cardinality(records') <= Cardinality(records)
  BY <1>1, <1>2, FS_Subset
<1> QED BY <1>2, <1>3, OutboxAssumption DEF Bounded

LEMMA FilesType == ASSUME QueueTypeOK PROVE records \in SUBSET Rec /\ aged \in SUBSET records
BY DEF QueueTypeOK

(* The new record comes in when enough of the others have left.            *)
LEMMA AdmitKeepsBound ==
    ASSUME QueueTypeOK, NEW r \in Rec, Admit(r)
    PROVE  Bounded'
<1>1. PICK V \in Oldest(records) : Cardinality(V) >= MustGo /\ Keep((records \ V) \union {r}, wait)
  BY DEF Admit
<1>2. V \in SUBSET records /\ records \in SUBSET Rec /\ aged \in SUBSET Rec /\ records \intersect V = V
  BY DEF Oldest, QueueTypeOK
<1>3. /\ IsFiniteSet(records) /\ Cardinality(records) \in Nat
      /\ Cardinality(V) \in Nat /\ Cardinality(aged) \in Nat
  BY <1>2, RecordsAreFinite
<1>4. /\ IsFiniteSet(records \ V)
      /\ Cardinality(records \ V) = Cardinality(records) - Cardinality(V)
  BY <1>2, <1>3, FS_Difference
<1>5. MustGo >= (Cardinality(records) + 1) - MaxRecords
  BY <1>3, MaxOfTwo, OutboxAssumption DEF MustGo
<1>6. Cardinality((records \ V) \union {r}) \in {Cardinality(records \ V), Cardinality(records \ V) + 1}
  BY <1>4, FS_AddElement
<1>7. Cardinality((records \ V) \union {r}) \in Nat /\ MustGo \in Int
  BY <1>2, <1>3, RecordsAreFinite, MaxOfTwo, OutboxAssumption DEF MustGo
<1> DEFINE more == Cardinality((records \ V) \union {r})
<1>8. more <= MaxRecords
  <2> HIDE DEF more
  <2>1. more <= (Cardinality(records) - Cardinality(V)) + 1 /\ more \in Nat
    BY <1>4, <1>6, <1>7 DEF more
  <2>2. Cardinality(V) >= (Cardinality(records) + 1) - MaxRecords
    BY <1>1, <1>3, <1>5, <1>7, OutboxAssumption
  <2> QED BY <1>3, <2>1, <2>2, OutboxAssumption
<1> QED BY <1>1, <1>8 DEF Bounded, Keep

(* No other step adds a file.                                              *)
LEMMA OnlyAdmitAdds ==
    ASSUME QueueTypeOK, [QueueNext]_queueVars, \A r \in Rec : ~Admit(r)
    PROVE  records' \subseteq records
<1>1. \A V : EvictionStops(V) => records' \subseteq records
  BY DEF EvictionStops, Keep
<1>2. \A slots, w : Take(slots, w) => records' \subseteq records
  BY DEF Take, Keep
<1>3. \A r : Defer(r) => records' \subseteq records
  BY DEF Defer
<1>4. ASSUME NEW r \in Rec, Request(r) \/ Age(r) PROVE records' \subseteq records
  BY <1>1, <1>3, <1>4 DEF Request, Arrive, Refuse, Sent, NotSent, Age, Keep, store
<1>5. CASE Tick \/ TickFails
  BY <1>1, <1>2, <1>5 DEF Tick, TickFails, Keep
<1>6. CASE DrainStep
  BY <1>3, <1>6 DEF DrainStep, DrainSkip, DrainDefer, DrainSend, DrainSent, DrainNotSent, DrainEnds,
                    Keep, store
<1>7. CASE RelayDies \/ Close \/ LastDrain \/ Exit \/ RelayRestarts
  BY <1>1, <1>2, <1>7 DEF RelayDies, Close, LastDrain, Exit, RelayRestarts, store
<1>8. CASE (\E b \in Binding : Configure(b)) \/ UNCHANGED queueVars
  BY <1>8 DEF Configure, queueVars, store
<1> QED BY <1>4, <1>5, <1>6, <1>7, <1>8 DEF QueueNext

(* The queue never holds more than its bound (Bounded of the run), over    *)
(* any number of restarts and of evictions that stopped half way.          *)
THEOREM QueueIsBounded == QueueSpec => []Bounded
<1>1. QueueInit => Bounded
  BY FS_EmptySet, OutboxAssumption DEF QueueInit, Bounded
<1>2. QueueTypeOK /\ Bounded /\ [QueueNext]_queueVars => Bounded'
  BY AdmitKeepsBound, OnlyAdmitAdds, FewerStayBounded
<1> QED BY <1>1, <1>2, QueueTypeCorrect, PTL DEF QueueSpec

--------------------------------------------------------------------------------
(* What is lost is counted.                                                *)

Missing == stored \ (records \union received)

LEMMA LostType == ASSUME QueueTypeOK PROVE Missing \in SUBSET Rec
BY DEF Missing, QueueTypeOK

(* A step that counts the records V loses no others.                       *)
LEMMA CountedLoss ==
    ASSUME QueueTypeOK, QueueTypeOK', NothingLostSilently, UNCHANGED own,
           NEW V \in SUBSET Rec, count' = CountOf(V), Missing' \subseteq Missing \union V
    PROVE  NothingLostSilently'
<1> SUFFICES ASSUME NEW b \in Binding
             PROVE  Cardinality(LostUncounted(b)') <= count'[b] \/ count'[b] = CountCap
  BY DEF NothingLostSilently
<1> DEFINE G == {r \in V : own[r] = b}
<1>1. LostUncounted(b) \in SUBSET Rec /\ LostUncounted(b)' \in SUBSET Rec /\ G \in SUBSET Rec
  BY DEF QueueTypeOK, LostUncounted
<1>2. LostUncounted(b)' \in SUBSET (LostUncounted(b) \union G)
  BY DEF Missing, LostUncounted
<1> HIDE DEF G
<1>3. /\ IsFiniteSet(LostUncounted(b)) /\ Cardinality(LostUncounted(b)) \in Nat
      /\ IsFiniteSet(G) /\ Cardinality(G) \in Nat
      /\ Cardinality(LostUncounted(b)') \in Nat
  BY <1>1, RecordsAreFinite
<1>4. Cardinality(LostUncounted(b) \intersect G) \in Nat
  BY <1>1, RecordsAreFinite
<1>5. /\ IsFiniteSet(LostUncounted(b) \union G)
      /\ Cardinality(LostUncounted(b) \union G)
           = Cardinality(LostUncounted(b)) + Cardinality(G) - Cardinality(LostUncounted(b) \intersect G)
  BY <1>3, FS_Union
<1>6. Cardinality(LostUncounted(b)') <= Cardinality(LostUncounted(b) \union G)
  BY <1>2, <1>5, FS_Subset
<1>7. count[b] \in 0..CountCap /\ count'[b] = Plus(count[b], Cardinality(G))
  BY DEF QueueTypeOK, CountOf, G
<1>8. count'[b] = IF CountCap <= count[b] + Cardinality(G) THEN CountCap ELSE count[b] + Cardinality(G)
  BY <1>3, <1>7, PlusIsMin
<1>9. Cardinality(LostUncounted(b)) <= count[b] \/ count[b] = CountCap
  BY DEF NothingLostSilently
<1> QED BY <1>3, <1>4, <1>5, <1>6, <1>7, <1>8, <1>9, OutboxAssumption

(* A step that counts nothing loses nothing.                               *)
LEMMA NoLoss ==
    ASSUME QueueTypeOK, NothingLostSilently, UNCHANGED <<own, count>>, Missing' \subseteq Missing
    PROVE  NothingLostSilently'
<1> SUFFICES ASSUME NEW b \in Binding
             PROVE  Cardinality(LostUncounted(b)') <= count[b] \/ count[b] = CountCap
  BY DEF NothingLostSilently
<1>1. LostUncounted(b) \in SUBSET Rec
  BY DEF QueueTypeOK, LostUncounted
<1>2. LostUncounted(b)' \in SUBSET LostUncounted(b)
  BY DEF Missing, LostUncounted
<1>3. IsFiniteSet(LostUncounted(b)) /\ Cardinality(LostUncounted(b)) \in Nat
      /\ Cardinality(LostUncounted(b)') \in Nat
  BY <1>1, <1>2, RecordsAreFinite
<1>4. Cardinality(LostUncounted(b)') <= Cardinality(LostUncounted(b))
  BY <1>2, <1>3, FS_Subset
<1>5. count[b] \in 0..CountCap
  BY DEF QueueTypeOK
<1> QED BY <1>3, <1>4, <1>5, OutboxAssumption DEF NothingLostSilently

(* An eviction that stops half way has counted all it unlinked.            *)
LEMMA StoppedEvictionLoss ==
    ASSUME QueueTypeOK, NEW V \in SUBSET Rec, EvictionStops(V), UNCHANGED stored,
           received \subseteq received'
    PROVE  \E C \in SUBSET Rec : count' = CountOf(C) /\ Missing' \subseteq Missing \union C
<1>1. PICK C \in Oldest(V), U \in Oldest(V) :
        U \subseteq C /\ Keep(records \ U, wait) /\ count' = CountOf(C)
  BY DEF EvictionStops
<1>2. C \in SUBSET Rec /\ Missing' \subseteq Missing \union C
  BY <1>1 DEF Oldest, Keep, Missing
<1> QED BY <1>1, <1>2

(* What is too old is counted as the drain begins.                         *)
LEMMA TakeLoss ==
    ASSUME QueueTypeOK, NEW slots, NEW w, Take(slots, w), UNCHANGED <<stored, received>>
    PROVE  count' = CountOf(aged) /\ Missing' \subseteq Missing \union aged
BY DEF Take, Keep, Missing

LEMMA KeepsCount ==
    ASSUME QueueTypeOK, QueueTypeOK', NothingLostSilently, [QueueNext]_queueVars
    PROVE  NothingLostSilently'
<1>0. records \in SUBSET Rec /\ aged \in SUBSET Rec
  BY DEF QueueTypeOK
<1>1. ASSUME NEW r \in Rec, Admit(r) PROVE NothingLostSilently'
  <2>1. PICK V \in Oldest(records) : Keep((records \ V) \union {r}, wait) /\ count' = CountOf(V)
    BY <1>1 DEF Admit
  <2>2. V \in SUBSET Rec /\ UNCHANGED own
    BY <1>0, <1>1 DEF Oldest, Admit
  <2>3. Missing' \subseteq Missing \union V
    BY <1>1, <2>1 DEF Admit, Keep, Missing
  <2> QED BY <2>1, <2>2, <2>3, CountedLoss
<1>2. ASSUME NEW r \in Rec, Refuse(r) PROVE NothingLostSilently'
  <2>1. EvictionStops(records) /\ UNCHANGED <<own, stored, received>>
    BY <1>2 DEF Refuse
  <2> QED BY <1>0, <2>1, StoppedEvictionLoss, CountedLoss
<1>3. ASSUME NEW r \in Rec, Sent(r) PROVE NothingLostSilently'
  <2>1. UNCHANGED <<own, count>> /\ Missing' \subseteq Missing
    BY <1>3 DEF Sent, Keep, Missing
  <2> QED BY <2>1, NoLoss
<1>4. ASSUME NEW r \in Rec, Arrive(r) \/ NotSent(r) \/ Age(r) PROVE NothingLostSilently'
  <2>1. UNCHANGED <<own, count>> /\ Missing' \subseteq Missing
    BY <1>4 DEF Arrive, NotSent, Age, Defer, Missing, store
  <2> QED BY <2>1, NoLoss
<1>5. CASE Tick
  <2> DEFINE w == [r \in Rec |-> IF wait[r] = 0 THEN 0 ELSE wait[r] - 1]
  <2>1. CASE Keep(records, w) /\ UNCHANGED <<count, drain>>
    <3>1. UNCHANGED <<own, count>> /\ Missing' \subseteq Missing
      BY <1>5, <2>1 DEF Tick, Keep, Missing
    <3> QED BY <3>1, NoLoss
  <2>2. CASE Take(Slots, w)
    <3>1. UNCHANGED <<own, stored, received>>
      BY <1>5 DEF Tick
    <3> QED BY <1>0, <2>2, <3>1, TakeLoss, CountedLoss
  <2> QED BY <1>5, <2>1, <2>2 DEF Tick
<1>6. CASE TickFails
  <2>1. EvictionStops(aged) /\ UNCHANGED <<own, stored, received>>
    BY <1>6 DEF TickFails
  <2> QED BY <1>0, <2>1, StoppedEvictionLoss, CountedLoss
<1>7. CASE DrainStep
  <2>1. UNCHANGED <<own, count>> /\ Missing' \subseteq Missing
    BY <1>7 DEF DrainStep, DrainSkip, DrainDefer, DrainSend, DrainSent, DrainNotSent, DrainEnds,
                Keep, Defer, Missing, store
  <2> QED BY <2>1, NoLoss
<1>8. CASE RelayDies
  <2>1. UNCHANGED <<own, stored>> /\ received \subseteq received'
    BY <1>8 DEF RelayDies
  <2>2. EvictionStops(records) \/ EvictionStops(aged)
    BY <1>8 DEF RelayDies
  <2> QED BY <1>0, <2>1, <2>2, StoppedEvictionLoss, CountedLoss
<1>9. CASE Close \/ Exit \/ \E b \in Binding : Configure(b)
  <2>1. UNCHANGED <<own, count>> /\ Missing' \subseteq Missing
    BY <1>9 DEF Close, Exit, Configure, Missing, store
  <2> QED BY <2>1, NoLoss
<1>10. CASE LastDrain
  <2>1. UNCHANGED <<own, stored, received>>
    BY <1>10 DEF LastDrain
  <2>2. CASE UNCHANGED <<records, wait, aged, count, drain>>
    BY <2>1, <2>2, NoLoss DEF Missing
  <2>3. CASE Take(1, wait)
    BY <1>0, <2>1, <2>3, TakeLoss, CountedLoss
  <2> QED BY <1>10, <2>2, <2>3 DEF LastDrain
<1>11. CASE RelayRestarts
  <2>1. Take(Slots, wait) /\ UNCHANGED <<own, stored, received>>
    BY <1>11 DEF RelayRestarts
  <2> QED BY <1>0, <2>1, TakeLoss, CountedLoss
<1>12. CASE UNCHANGED queueVars
  BY <1>12, NoLoss DEF queueVars, store, Missing
<1> QED
  BY <1>1, <1>2, <1>3, <1>4, <1>5, <1>6, <1>7, <1>8, <1>9, <1>10, <1>11, <1>12 DEF QueueNext, Request

(* Wherever the relay dies, a record that was once stored is in the queue, *)
(* has been received, or is told of (NothingLostSilently of the run).      *)
THEOREM NothingIsLostSilently == QueueSpec => []NothingLostSilently
<1>1. QueueInit => NothingLostSilently
  <2> SUFFICES ASSUME QueueInit, NEW b \in Binding
               PROVE  Cardinality(LostUncounted(b)) <= count[b]
    BY DEF NothingLostSilently
  <2>1. LostUncounted(b) = {} /\ count[b] = 0
    BY DEF QueueInit, LostUncounted
  <2> QED BY <2>1, FS_EmptySet
<1>2. QueueTypeOK /\ QueueTypeOK' /\ NothingLostSilently /\ [QueueNext]_queueVars => NothingLostSilently'
  BY KeepsCount
<1> QED BY <1>1, <1>2, QueueTypeCorrect, PTL DEF QueueSpec

--------------------------------------------------------------------------------
(* The commands of the setup.  What a command may rely on at each step is  *)
(* SetupInv, in parts: which command a step belongs to (PhaseInv), what    *)
(* holds of the machine at any time (MachineInv), what a setup found and   *)
(* goes back to (FoundInv), how far it came (ApplyInv), what it has still  *)
(* to undo (UndoInv), what a removal took and may give back (RemovalInv),  *)
(* and what a purge with its receipt relies on (CompletingInv).            *)

Applying == {"probe", "enroll", "service", "native", "hooks", "verify"}
Undoing == {"u_host", "u_state", "u_service", "u_revoke"}
Removing == {"d_service", "x_service", "p_stop", "p_revoke", "p_receipt", "r_start", "r_host"}
Completing == {"p_finish", "p_files", "p_end"}

(* The three files belong together.                                        *)
Coherent(F) ==
    /\ F.ingress \in {0, F.identity.inst}
    /\ F.relay.inst # 0 => Owns(F.identity, F.relay)

(* The global files H send to a service S that runs and knows their        *)
(* binding, and so do the checkouts.                                       *)
Routed(H, F, S) ==
    \A f \in Native : H[f] # 0 =>
      S.st = "running" /\ H[f] = F.identity.inst /\ F.relay.inst = F.identity.inst
Bound(H, F, S, O) ==
    \A r \in Repo \ O : H[r] # 0 => S.st = "running" /\ H[r] = F.relay.bind[r]

(* The two halves of NoDeadRoute.                                          *)
NativeRoute ==
    ~torn => \A f \in Native : host[f] # 0 =>
      service.st = "running" /\ host[f] = files.identity.inst /\ files.relay.inst = files.identity.inst
CheckoutRoute ==
    ~torn => \A r \in Repo \ orphans : host[r] # 0 =>
      /\ service.st = "running"
      /\ host[r] = files.relay.bind[r] \/ (Rebinding /\ host[r] = was.files.relay.bind[r])

Strays(H, F) == {r \in Repo : H[r] \notin {0, F.identity.bind[r]}}
Bare == \A r \in Repo \ orphans : host[r] = 0

(* Which command a step belongs to, and when an undo can have failed.      *)
PhaseInv ==
    /\ pc # "idle" \/ receipt.there => commands > 0
    /\ pc # "idle" => report = "none"
    /\ pc \in Applying \union Undoing => op = "setup" /\ ~receipt.there
    /\ pc \in Removing => op \in Removals /\ ~receipt.there
    /\ pc = "d_service" => op = "disable"
    /\ pc = "x_service" => op = "uninstall"
    /\ pc \in {"p_stop", "p_revoke", "p_receipt"} \union Completing => op = "purge"
    /\ pc \in Completing => receipt.there
    /\ hidden \/ bad => torn
    /\ pc \in Applying \union (Removing \ {"r_host"}) => ~hidden /\ ~bad
    /\ \A t \in live : t.tok <= commands
    /\ service.st = "absent" => service = NoService

(* There is an identity, a receipt, or nothing at all.                      *)
Rooted ==
    \/ receipt.there
    \/ files.identity.inst # 0
    \/ pc = "idle" /\ files = NoFiles /\ service = NoService /\ ~queue

(* What holds of the machine whoever works on it.                          *)
MachineInv ==
    /\ Rooted
    /\ ~receipt.there /\ ~torn => Coherent(files)
    /\ ~torn => service.st # "torn"
    /\ NativeRoute /\ CheckoutRoute
    /\ pc \notin Applying \union Undoing => Strays(host, files) \subseteq orphans

(* What a setup has found stays what it will go back to.                   *)
FoundInv ==
    pc \in Applying \union Undoing =>
      /\ files.identity.inst = was.files.identity.inst
      /\ was.files.identity.inst # 0 /\ Coherent(was.files)
      /\ was.service.st # "torn" /\ (was.service.st = "absent" => was.service = NoService)
      /\ ~torn => Routed(was.host, was.files, was.service) /\ Bound(was.host, was.files, was.service, orphans)
      /\ Strays(was.host, was.files) \subseteq orphans
      /\ \A t \in live : t.tok = commands =>
           t \in unreceived \/ (t.inst = was.files.identity.inst /\ t.dest \in minted)

(* How far a setup has come.                                               *)
ApplyInv ==
    /\ pc \in {"probe", "enroll"} => files = was.files /\ applied = {}
    /\ pc \in {"probe", "enroll", "service"} => service = was.service
    /\ pc \in {"probe", "enroll", "service", "native"} => host = was.host
    /\ pc \in Applying \ {"probe", "enroll"} => files = Target /\ "state" \in applied
    /\ pc = "service" => applied = {"state"}
    /\ pc = "native" => applied = {"state", "service"}
    /\ pc \in {"hooks", "verify"} =>
         /\ {"service", "native"} \subseteq applied
         /\ \A f \in Native : host[f] = files.identity.inst
         /\ \A r \in Repo : host[r] = files.identity.bind[r] \/ (r \in orphans /\ files.identity.bind[r] = 0)
         /\ "hooks" \in applied \/ host["hooks"] = was.host["hooks"]
    /\ pc \in Applying \union {"u_host", "u_state", "u_service"} /\ "service" \in applied =>
         service = [st |-> "running", rt |-> shipped] /\ was.service.st # "partial"

(* What a setup that failed has still to take back.                        *)
UndoInv ==
    /\ pc \in Undoing /\ "native" \in applied => "service" \in applied
    /\ pc \in Undoing /\ "service" \in applied => "state" \in applied
    /\ pc \in {"u_host", "u_state"} /\ "state" \in applied => files = Target
    /\ pc \in Undoing /\ ~hidden /\ ~bad =>
         /\ files = was.files \/ (pc \in {"u_host", "u_state"} /\ "state" \in applied)
         /\ \/ service.st = was.service.st /\ service.rt = was.service.rt
            \/ pc # "u_revoke" /\ "service" \in applied
         /\ \A f \in HostFile :
              \/ host[f] = was.host[f]
              \/ pc = "u_host" /\ (IF f = "hooks" THEN "hooks" ELSE "native") \in applied

(* What a removal has taken away and may give back.                        *)
RemovalInv ==
    pc \in Removing =>
      /\ files = was.files /\ service.rt = was.service.rt
      /\ \A f \in Native : host[f] = 0
      /\ \A r \in Listed(files.identity) : host[r] = 0
      /\ ~torn => Routed(was.host, was.files, was.service) /\ Bound(was.host, was.files, was.service, orphans)
      /\ Strays(was.host, was.files) \subseteq orphans
      /\ pc \in {"d_service", "x_service", "p_stop"} => service.st = was.service.st
      /\ pc \in {"d_service", "p_stop"} => Installed
      /\ pc \in {"p_revoke", "p_receipt"} =>
           \/ service.st = "absent" /\ was.service.st = "absent"
           \/ service.st = "stopped" /\ was.service.st \in {"stopped", "running"}
      /\ pc = "r_start" => was.service.st = "running" \/ service.st = was.service.st
      /\ pc = "r_host" /\ ~bad => service.st = was.service.st
      /\ pc \in {"x_service", "p_stop", "p_revoke", "p_receipt"} => Unconfigured
      /\ pc = "p_receipt" => ~Present

(* What a purge may rely on once the receipt is written.                   *)
CompletingInv ==
    /\ ReceiptIsTrue
    /\ receipt.there => Bare
    /\ pc \in {"p_files", "p_end"} => service = NoService /\ ~queue
    /\ pc = "p_end" => files = NoFiles

SetupInv ==
    /\ TypeOK /\ PhaseInv /\ MachineInv /\ FoundInv /\ ApplyInv /\ UndoInv
    /\ RemovalInv /\ CompletingInv /\ ReportsAreTrue
USE DEF Applying, Undoing, Removing, Completing

--------------------------------------------------------------------------------
(* What the commands compute.                                              *)

LEMMA TargetIsFiles ==
    ASSUME TypeOK
    PROVE  /\ Target \in Files
           /\ Target.identity.dest = wants
           /\ was.files.identity.inst # 0 => Target.identity.inst = was.files.identity.inst
           /\ Target.relay.inst = Target.identity.inst /\ Target.ingress = Target.identity.inst
           /\ Target.relay.bind = Target.identity.bind
           /\ \A r \in Repo : wants[r] = Nowhere => Target.identity.bind[r] = 0
           /\ \A d \in Destinations(wants) \intersect Dest : Target.relay.tok[d] = creds[d]
<1> DEFINE id == Reconciled(was.files.identity, wants, commands)
           relay == RelayFor(id, creds)
<1>1. was.files.identity \in IdentityFile /\ commands \in Number /\ wants \in Policies
      /\ creds \in Credentials /\ 0 \in Number
  BY SetupAssumption DEF TypeOK, Snapshots, Files, Number
<1>2. /\ id \in IdentityFile /\ id.dest = wants
      /\ was.files.identity.inst # 0 => id.inst = was.files.identity.inst
      /\ \A r \in Repo : wants[r] = Nowhere => id.bind[r] = 0
  <2>1. [r \in Repo |-> IF wants[r] = Nowhere THEN 0
                        ELSE IF was.files.identity.dest[r] = wants[r] THEN was.files.identity.bind[r]
                        ELSE commands] \in [Repo -> Number]
    BY <1>1 DEF IdentityFile, Policies
  <2> QED BY <1>1, <2>1 DEF Reconciled, IdentityFile, Policies
<1>3. /\ relay \in RelayFile /\ relay.inst = id.inst /\ relay.bind = id.bind
      /\ \A d \in Destinations(wants) \intersect Dest : relay.tok[d] = creds[d]
  BY <1>1, <1>2 DEF RelayFor, RelayFile, IdentityFile, Credentials
<1>4. Target = [identity |-> id, relay |-> relay, ingress |-> id.inst]
  BY DEF Target
<1> HIDE DEF id, relay
<1> QED BY <1>2, <1>3, <1>4 DEF Files, IdentityFile

LEMMA WrittenIsFiles ==
    ASSUME TypeOK, NEW k \in 0 .. 3
    PROVE  /\ Written(k) \in Files
           /\ was.files.identity.inst # 0 => Written(k).identity.inst = was.files.identity.inst
           /\ k = 0 => Written(k) = was.files
           /\ k = 3 => Written(k) = Target
<1>1. Target \in Files /\ was.files \in Files
  BY TargetIsFiles DEF TypeOK, Snapshots
<1>2. Target = [identity |-> Target.identity, relay |-> Target.relay, ingress |-> Target.ingress]
      /\ was.files = [identity |-> was.files.identity, relay |-> was.files.relay, ingress |-> was.files.ingress]
  BY <1>1 DEF Files
<1> QED BY <1>1, <1>2, TargetIsFiles DEF Written, Files

LEMMA HostsAreHosts ==
    ASSUME TypeOK
    PROVE  /\ InstalledHost \in Hosts
           /\ HostBefore \in Hosts
           /\ \A id : Unhosted(id) \in Hosts
           /\ \A S, to : to \in Hosts => Partly(S, to) \in Hosts
<1>1. host \in Hosts /\ was.host \in Hosts /\ 0 \in Number
      /\ Target.identity.inst \in Number /\ Target.identity.bind \in [Repo -> Number]
      /\ Listed(Target.identity) \subseteq Repo
  BY SetupAssumption, TargetIsFiles DEF TypeOK, Number, Snapshots, Files, IdentityFile, Listed
<1>2. InstalledHost \in Hosts
  <2>1. \A f \in HostFile : InstalledHost[f] \in Number
    BY <1>1, SetupAssumption DEF Hosts, HostFile, Native, InstalledHost, ClaudeGlobalSettings,
       CodexOtelConfig, ClaudeRepositorySettings
  <2> QED BY <2>1 DEF InstalledHost, Hosts
<1>3. HostBefore \in Hosts
  BY <1>1 DEF HostBefore, Hosts
<1>4. \A id : Unhosted(id) \in Hosts
  <2>1. \A id : \A f \in HostFile : Unhosted(id)[f] \in Number
    BY <1>1 DEF Hosts, HostFile, Native, Unhosted, ClaudeGlobalSettings, CodexOtelConfig, CodexHooks,
       ClaudeRepositorySettings
  <2> QED BY <2>1 DEF Unhosted, Hosts
<1>5. \A S, to : to \in Hosts => Partly(S, to) \in Hosts
  BY <1>1 DEF Partly, Hosts
<1> QED BY <1>2, <1>3, <1>4, <1>5

LEMMA UnlistedIsUnbound ==
    TypeOK => /\ \A r \in Repo : r \notin Listed(files.identity) => files.identity.bind[r] = 0
              /\ \A r \in Repo : r \notin Listed(was.files.identity) => was.files.identity.bind[r] = 0
BY DEF TypeOK, Snapshots, Files, IdentityFile, Listed

(* What an uninstall makes of the files of the hosts.                      *)
LEMMA UnhostedIsBare ==
    ASSUME NEW id
    PROVE  /\ Unhosted(id)["claude"] = 0 /\ Unhosted(id)["codex"] = 0 /\ Unhosted(id)["hooks"] = 0
           /\ \A r \in Repo : Unhosted(id)[r] = IF r \in Listed(id) THEN 0 ELSE host[r]
BY SetupAssumption DEF Hosts, HostFile, Native, Unhosted, ClaudeGlobalSettings, CodexOtelConfig,
   CodexHooks, ClaudeRepositorySettings

(* What an install makes of them.                                          *)
LEMMA InstalledIsBound ==
    /\ InstalledHost["claude"] = Target.identity.inst /\ InstalledHost["codex"] = Target.identity.inst
    /\ InstalledHost["hooks"] = host["hooks"]
    /\ \A r \in Repo : InstalledHost[r] = IF r \in Listed(Target.identity) THEN Target.identity.bind[r]
                                          ELSE IF r \in Listed(was.files.identity) THEN 0 ELSE host[r]
<1> DEFINE T == Listed(Target.identity)
           W == Listed(was.files.identity)
<1>2. T \subseteq Repo /\ W \subseteq Repo
  BY DEF Listed
<1>3. InstalledHost = [f \in HostFile |->
       CASE f = "claude" -> Target.identity.inst
         [] f = "codex" -> Target.identity.inst
         [] f \in T -> Target.identity.bind[f]
         [] f \in W \ T -> 0
         [] OTHER -> host[f]]
  BY DEF Hosts, HostFile, Native, InstalledHost, ClaudeGlobalSettings, CodexOtelConfig,
     ClaudeRepositorySettings
<1> HIDE DEF T, W
<1>4. "claude" \notin Repo /\ "codex" \notin Repo /\ "hooks" \notin Repo
  BY SetupAssumption
<1>5. "hooks" \notin T /\ "hooks" \notin W
  BY <1>2, <1>4
<1>6. InstalledHost["claude"] = Target.identity.inst /\ InstalledHost["codex"] = Target.identity.inst
  BY <1>2, <1>3, <1>4 DEF HostFile, Native
<1>7. InstalledHost["hooks"] = host["hooks"]
  BY <1>3, <1>5 DEF HostFile, Native
<1>8. ASSUME NEW r \in Repo
      PROVE  InstalledHost[r] = IF r \in T THEN Target.identity.bind[r] ELSE IF r \in W THEN 0 ELSE host[r]
  <2>1. r # "claude" /\ r # "codex" /\ r \in HostFile
    BY <1>4 DEF HostFile, Native
  <2>2. CASE r \in T
    BY <1>3, <2>1, <2>2
  <2>3. CASE r \in W \ T
    BY <1>3, <2>1, <2>3
  <2>4. CASE r \notin W \union T
    BY <1>3, <2>1, <2>4
  <2> QED BY <2>2, <2>3, <2>4
<1> QED BY <1>6, <1>7, <1>8 DEF T, W

LEMMA PartlyIsEither ==
    \A S, to : \A f \in HostFile : Partly(S, to)[f] \in {host[f], to[f]} /\ (f \notin S => Partly(S, to)[f] = host[f])
BY DEF Partly

LEMMA ConstantsAreTyped ==
    /\ NoFiles \in Files /\ NoHost \in Hosts /\ NoService \in Service /\ NoReceipt \in Receipts
    /\ NoWants \in Policies /\ NoCreds \in Credentials /\ NotFound \in Snapshots
    /\ NoIdentity \in IdentityFile /\ NoRelay \in RelayFile /\ 0 \in Number /\ Number \subseteq Nat
<1>1. 0 \in Number /\ Number \subseteq Nat
  BY SetupAssumption DEF Number
<1>2. NoIdentity \in IdentityFile /\ NoRelay \in RelayFile
  BY <1>1 DEF NoIdentity, NoRelay, IdentityFile, RelayFile, Destination
<1>3. NoFiles \in Files /\ NoHost \in Hosts /\ NoService \in Service
  BY <1>1, <1>2 DEF NoFiles, Files, NoHost, Hosts, NoService, Service
<1>4. NoWants \in Policies /\ NoCreds \in Credentials
  BY <1>1, SetupAssumption DEF NoWants, Policies, Destination, NoCreds, Credentials
<1> QED BY <1>1, <1>2, <1>3, <1>4 DEF NotFound, Snapshots, NoReceipt, Receipts

LEMMA ReconciledIsIdentity ==
    ASSUME NEW id \in IdentityFile, NEW w \in Policies, NEW n \in Number
    PROVE  /\ Reconciled(id, w, n) \in IdentityFile /\ Reconciled(id, w, n).dest = w
           /\ Reconciled(id, w, n).inst = IF id.inst = 0 THEN n ELSE id.inst
<1>1. [r \in Repo |-> IF w[r] = Nowhere THEN 0 ELSE IF id.dest[r] = w[r] THEN id.bind[r] ELSE n] \in [Repo -> Number]
  BY ConstantsAreTyped DEF IdentityFile
<1>2. id.inst \in Number /\ w \in [Repo -> Destination]
  BY DEF IdentityFile, Policies
<1> QED BY <1>1, <1>2 DEF Reconciled, IdentityFile

LEMMA FaultIsTyped == TypeOK /\ Fault => faults' \in 0 .. MaxFaults
BY SetupAssumption DEF TypeOK, Fault

LEMMA ServiceIsTyped ==
    TypeOK => /\ \A s \in {"stopped", "running", "partial", "torn", service.st} : [service EXCEPT !.st = s] \in Service
              /\ [st |-> "running", rt |-> shipped] \in Service
              /\ Compensated \in Service
BY ConstantsAreTyped DEF TypeOK, Service, Compensated, Snapshots

LEMMA FilesAreTyped ==
    ASSUME TypeOK
    PROVE  /\ was.files \in Files /\ was.host \in Hosts /\ was.service \in Service
           /\ files.identity \in IdentityFile /\ files.relay \in RelayFile
           /\ \A i \in IdentityFile : [files EXCEPT !.identity = i] \in Files
           /\ [files EXCEPT !.identity = NoIdentity, !.relay = NoRelay] \in Files
           /\ Found \in Snapshots /\ \A F \in Files : [Found EXCEPT !.files = F] \in Snapshots
           /\ [there |-> TRUE, files |-> files] \in Receipts
BY ConstantsAreTyped DEF TypeOK, Snapshots, Files, Found, Receipts

LEMMA TokensAreTyped ==
    ASSUME TypeOK
    PROVE  /\ \A d \in Dest : Minted(d) \in Token /\ Others(d) \subseteq live
           /\ \A d \in Dest : [creds EXCEPT ![d] = commands] \in Credentials
           /\ [d \in Dest |-> IF d \in Destinations(wants) /\ Accepts(d, files.relay.tok[d])
                                  THEN files.relay.tok[d] ELSE 0] \in Credentials
<1>1. files.identity.inst \in Number /\ files.relay.tok \in [Dest -> Number] /\ commands \in Number
      /\ creds \in [Dest -> Number]
  BY FilesAreTyped DEF TypeOK, IdentityFile, RelayFile, Credentials
<1> QED BY <1>1, ConstantsAreTyped DEF Minted, Token, Others, Credentials

(* What the steps write is of its kind.                                    *)
WritesAreTyped ==
    /\ was.files \in Files /\ was.host \in Hosts /\ was.service \in Service
    /\ Target \in Files /\ \A k \in 0 .. 3 : Written(k) \in Files
    /\ Reconciled(NoIdentity, policy, commands + 1) \in IdentityFile \/ commands = MaxCommands
    /\ \A i \in IdentityFile : [files EXCEPT !.identity = i] \in Files
    /\ [files EXCEPT !.identity = NoIdentity, !.relay = NoRelay] \in Files
    /\ NoFiles \in Files /\ NoIdentity \in IdentityFile
    /\ Found \in Snapshots /\ NotFound \in Snapshots
    /\ \A F \in Files : [Found EXCEPT !.files = F] \in Snapshots
    /\ [there |-> TRUE, files |-> files] \in Receipts /\ NoReceipt \in Receipts
    /\ \A s \in {"stopped", "running", "partial", "torn", service.st} : [service EXCEPT !.st = s] \in Service
    /\ [st |-> "running", rt |-> shipped] \in Service /\ Compensated \in Service /\ NoService \in Service
    /\ \A d \in Dest : /\ Minted(d) \in Token /\ Others(d) \subseteq live
                       /\ [creds EXCEPT ![d] = commands] \in Credentials
    /\ [d \in Dest |-> IF d \in Destinations(wants) /\ Accepts(d, files.relay.tok[d])
                           THEN files.relay.tok[d] ELSE 0] \in Credentials
    /\ NoCreds \in Credentials /\ NoWants \in Policies
    /\ InstalledHost \in Hosts /\ HostBefore \in Hosts /\ Unhosted(files.identity) \in Hosts
    /\ pc # "idle" => [host EXCEPT !["hooks"] = CodexHooks("install")] \in Hosts
    /\ [Unhosted(files.identity) EXCEPT !["hooks"] = host["hooks"]] \in Hosts
    /\ \A S : /\ Partly(S, InstalledHost) \in Hosts /\ Partly(S, HostBefore) \in Hosts
             /\ Partly(S, was.host) \in Hosts /\ Partly(S, Unhosted(files.identity)) \in Hosts

LEMMA WritesTyped == TypeOK /\ PhaseInv => WritesAreTyped
<1> SUFFICES ASSUME TypeOK, PhaseInv PROVE WritesAreTyped
  OBVIOUS
<1>1. Target \in Files /\ \A k \in 0 .. 3 : Written(k) \in Files
  BY TargetIsFiles, WrittenIsFiles
<1>2. Reconciled(NoIdentity, policy, commands + 1) \in IdentityFile \/ commands = MaxCommands
  <2>1. commands + 1 \in Number \/ commands = MaxCommands
    BY SetupAssumption DEF TypeOK, Number
  <2> QED BY <2>1, ReconciledIsIdentity, ConstantsAreTyped DEF TypeOK
<1>3. InstalledHost \in Hosts /\ HostBefore \in Hosts /\ Unhosted(files.identity) \in Hosts
  BY HostsAreHosts
<1>4. \A S : /\ Partly(S, InstalledHost) \in Hosts /\ Partly(S, HostBefore) \in Hosts
           /\ Partly(S, was.host) \in Hosts /\ Partly(S, Unhosted(files.identity)) \in Hosts
  BY HostsAreHosts, FilesAreTyped, <1>3
<1>5. pc # "idle" => [host EXCEPT !["hooks"] = CodexHooks("install")] \in Hosts
  <2>1. pc # "idle" => 1 \in Number
    BY SetupAssumption DEF TypeOK, PhaseInv, Number
  <2> QED BY <2>1 DEF TypeOK, Hosts, CodexHooks
<1>6. [Unhosted(files.identity) EXCEPT !["hooks"] = host["hooks"]] \in Hosts
  BY <1>3 DEF TypeOK, Hosts, HostFile
<1> QED BY <1>1, <1>2, <1>3, <1>4, <1>5, <1>6, FilesAreTyped, ServiceIsTyped, TokensAreTyped,
     ConstantsAreTyped
    DEF WritesAreTyped

LEMMA TypeSetups == TypeOK /\ PhaseInv /\ Setups => TypeOK'
<1> SUFFICES ASSUME TypeOK, PhaseInv, Setups PROVE TypeOK'
  OBVIOUS
<1>typ. WritesAreTyped
  BY WritesTyped
<1>num. /\ commands \in Number /\ (commands < MaxCommands => commands + 1 \in Number /\ commands # MaxCommands)
        /\ faults \in 0 .. MaxFaults /\ shipped \in 1 .. 2 /\ 2 \in 1 .. 2
        /\ (Fault => faults' \in 0 .. MaxFaults)
  BY SetupAssumption, FaultIsTyped DEF TypeOK, Number
<1>fil. /\ Written(3) \in Files /\ \A k \in 0 .. 2 : Written(k) \in Files
        /\ \A k \in 1 .. 2 : Written(k) \in Files
        /\ \A k \in 1 .. 3 : Written(k) \in Files
  BY <1>typ DEF WritesAreTyped
<1>oth. /\ Others(Home) \subseteq Token /\ (\A S : live \ S \subseteq Token)
        /\ Lost \subseteq Repo /\ Lost' \subseteq Repo
  BY SetupAssumption DEF TypeOK, Others, Lost
<1> USE <1>typ, <1>num, <1>fil, <1>oth DEF TypeOK, WritesAreTyped, Reports, Ops, Steps, Tokens, Parts,
     machine, command, history
<1>1. CASE Setup
  <2>1. ~receipt.there /\ commands < MaxCommands /\ commands' = commands + 1
    BY <1>1 DEF Setup, Begin, MaySetUp
  <2>2. files' \in Files
    <3>1. CASE files.identity.inst = 0
      BY <1>1, <2>1, <3>1 DEF Setup
    <3>2. CASE files.identity.inst # 0
      BY <1>1, <3>2 DEF Setup
    <3> QED BY <3>1, <3>2
  <2>3. was' \in Snapshots
    BY <1>1, <2>2 DEF Setup
  <2> QED BY <1>1, <2>1, <2>2, <2>3 DEF Setup, Begin
<1>2. CASE Probe
  BY <1>2 DEF Probe, Goto
<1>3. CASE ProbeFails
  BY <1>3 DEF ProbeFails, End
<1>4. ASSUME NEW d \in Dest, Enroll(d) PROVE TypeOK'
  BY <1>4 DEF Enroll, Goto
<1>5. ASSUME NEW d \in Dest, EnrollFails(d) PROVE TypeOK'
  BY <1>5 DEF EnrollFails, Goto
<1>6. CASE ApplyState
  BY <1>6 DEF ApplyState, Goto
<1>7. CASE ApplyStateFails
  BY <1>7 DEF ApplyStateFails, Goto
<1>8. CASE SetupRuntime
  BY <1>8 DEF SetupRuntime, Goto
<1>9. CASE SetupRuntimeRefused
  BY <1>9 DEF SetupRuntimeRefused, Goto
<1>10. CASE SetupRuntimeFails
  BY <1>10 DEF SetupRuntimeFails, Goto
<1>11. CASE ApplyNative
  BY <1>11 DEF ApplyNative, Goto
<1>12. CASE ApplyNativeFails
  BY <1>12 DEF ApplyNativeFails, Goto
<1>13. CASE ApplyHooks
  <2>1. host' \in Hosts /\ applied' \subseteq Parts /\ faults' \in 0 .. MaxFaults
    BY <1>13 DEF ApplyHooks
  <2> QED BY <1>13, <2>1 DEF ApplyHooks, Goto
<1>14. CASE Verify
  BY <1>14 DEF Verify, End, StillOrphans
<1>15. CASE VerifyFails
  BY <1>15 DEF VerifyFails, Goto
<1>16. CASE UndoHost
  BY <1>16 DEF UndoHost, Goto
<1>17. CASE UndoHostFails
  BY <1>17 DEF UndoHostFails, Goto
<1>18. CASE UndoState
  BY <1>18 DEF UndoState, Goto
<1>19. CASE UndoStateFails
  BY <1>19 DEF UndoStateFails, Goto
<1>20. CASE CompensateLifecycle
  BY <1>20 DEF CompensateLifecycle, Goto
<1>21. CASE CompensateLifecycleFails
  BY <1>21 DEF CompensateLifecycleFails, Goto
<1>22. CASE RevokeMinted
  BY <1>22 DEF RevokeMinted, End
<1>23. CASE RevokeMintedFails
  BY <1>23 DEF RevokeMintedFails, End
<1>24. CASE Upgrade
  BY <1>24 DEF Upgrade
<1> QED BY <1>1, <1>2, <1>3, <1>4, <1>5, <1>6, <1>7, <1>8, <1>9, <1>10, <1>11, <1>12, <1>13, <1>14,
     <1>15, <1>16, <1>17, <1>18, <1>19, <1>20, <1>21, <1>22, <1>23, <1>24 DEF Setups

LEMMA TypeRemoval == TypeOK /\ PhaseInv /\ Removal => TypeOK'
<1> SUFFICES ASSUME TypeOK, PhaseInv, Removal PROVE TypeOK'
  OBVIOUS
<1>typ. WritesAreTyped
  BY WritesTyped
<1>num. /\ commands \in Number /\ (commands < MaxCommands => commands + 1 \in Number /\ commands # MaxCommands)
        /\ faults \in 0 .. MaxFaults /\ shipped \in 1 .. 2 /\ 2 \in 1 .. 2
        /\ (Fault => faults' \in 0 .. MaxFaults)
  BY SetupAssumption, FaultIsTyped DEF TypeOK, Number
<1>fil. /\ Written(3) \in Files /\ \A k \in 0 .. 2 : Written(k) \in Files
        /\ \A k \in 1 .. 2 : Written(k) \in Files
        /\ \A k \in 1 .. 3 : Written(k) \in Files
  BY <1>typ DEF WritesAreTyped
<1>oth. /\ Others(Home) \subseteq Token /\ (\A S : live \ S \subseteq Token)
        /\ Lost \subseteq Repo /\ Lost' \subseteq Repo
  BY SetupAssumption DEF TypeOK, Others, Lost
<1> USE <1>typ, <1>num, <1>fil, <1>oth DEF TypeOK, WritesAreTyped, Reports, Ops, Steps, Tokens, Parts,
     machine, command, history
<1>1. ASSUME NEW o \in Removals, RemoveHosts(o) PROVE TypeOK'
  <2>1. AfterHosts(o) \in Steps
    BY DEF AfterHosts, Removals
  <2>2. host' \in Hosts /\ faults' \in 0 .. MaxFaults
    BY <1>1 DEF RemoveHosts
  <2>3. commands' \in Number
    BY <1>1 DEF RemoveHosts, Begin
  <2> QED BY <1>1, <2>1, <2>2, <2>3 DEF RemoveHosts, Begin, Removals
<1>2. ASSUME NEW o \in Removals, RemoveHostsFails(o) PROVE TypeOK'
  <2>1. host' \in Hosts /\ faults' \in 0 .. MaxFaults
    BY <1>2 DEF RemoveHostsFails
  <2>2. commands' \in Number
    BY <1>2 DEF RemoveHostsFails, Begin
  <2>3. torn' \in BOOLEAN
    BY <1>2 DEF RemoveHostsFails
  <2> QED BY <1>2, <2>1, <2>2, <2>3 DEF RemoveHostsFails, Begin, Removals
<1>3. CASE Disable
  BY <1>3 DEF Disable, End, StillOrphans
<1>4. CASE StopFails
  BY <1>4 DEF StopFails, Goto
<1>5. CASE Uninstall
  BY <1>5 DEF Uninstall, End, StillOrphans
<1>6. CASE UninstallFails
  <2>1. service' \in Service
    BY <1>6 DEF UninstallFails
  <2>2. pc' \in Steps /\ report' \in Reports /\ UNCHANGED <<op, wants, was>>
    BY <1>6 DEF UninstallFails, Goto, End
  <2> QED BY <1>6, <2>1, <2>2 DEF UninstallFails
<1>7. CASE Restart
  BY <1>7 DEF Restart, Goto
<1>8. CASE RestartFails
  <2>1. service' \in Service
    BY <1>8 DEF RestartFails
  <2>0. op \in Removals
    BY <1>8 DEF RestartFails, PhaseInv
  <2>2. /\ pc' \in Steps /\ report' \in Reports /\ bad' \in BOOLEAN /\ torn' \in BOOLEAN
                         /\ UNCHANGED <<op, wants, was>>
    BY <1>8, <2>0 DEF RestartFails, Goto, End, Removals
  <2> QED BY <1>8, <2>1, <2>2 DEF RestartFails
<1>9. CASE RestoreHosts
  BY <1>9 DEF RestoreHosts, End
<1>10. CASE RestoreHostsFails
  BY <1>10 DEF RestoreHostsFails, End
<1> QED BY <1>1, <1>2, <1>3, <1>4, <1>5, <1>6, <1>7, <1>8, <1>9, <1>10 DEF Removal

LEMMA TypePurge == TypeOK /\ PhaseInv /\ Purge => TypeOK'
<1> SUFFICES ASSUME TypeOK, PhaseInv, Purge PROVE TypeOK'
  OBVIOUS
<1>typ. WritesAreTyped
  BY WritesTyped
<1>num. /\ commands \in Number /\ (commands < MaxCommands => commands + 1 \in Number /\ commands # MaxCommands)
        /\ faults \in 0 .. MaxFaults /\ shipped \in 1 .. 2 /\ 2 \in 1 .. 2
        /\ (Fault => faults' \in 0 .. MaxFaults)
  BY SetupAssumption, FaultIsTyped DEF TypeOK, Number
<1>fil. /\ Written(3) \in Files /\ \A k \in 0 .. 2 : Written(k) \in Files
        /\ \A k \in 1 .. 2 : Written(k) \in Files
        /\ \A k \in 1 .. 3 : Written(k) \in Files
  BY <1>typ DEF WritesAreTyped
<1>oth. /\ Others(Home) \subseteq Token /\ (\A S : live \ S \subseteq Token)
        /\ Lost \subseteq Repo /\ Lost' \subseteq Repo
  BY SetupAssumption DEF TypeOK, Others, Lost
<1> USE <1>typ, <1>num, <1>fil, <1>oth DEF TypeOK, WritesAreTyped, Reports, Ops, Steps, Tokens, Parts,
     machine, command, history
<1>1. CASE PurgeStop
  BY <1>1 DEF PurgeStop, Goto
<1>2. CASE Revoke
  BY <1>2 DEF Revoke, Goto
<1>3. CASE NotRevoked
  BY <1>3 DEF NotRevoked, Goto
<1>4. CASE Unconfirmed
  BY <1>4 DEF Unconfirmed, End
<1>5. CASE WriteReceipt
  BY <1>5 DEF WriteReceipt, Goto, StillOrphans
<1>6. CASE WriteReceiptFails
  BY <1>6 DEF WriteReceiptFails, End
<1>7. CASE Resume
  BY <1>7 DEF Resume, Begin
<1>8. CASE PurgeService
  BY <1>8 DEF PurgeService, Goto
<1>9. CASE PurgeServiceFails
  BY <1>9 DEF PurgeServiceFails, End
<1>10. CASE RemoveCredentials
  BY <1>10 DEF RemoveCredentials, Goto
<1>11. CASE RemoveCredentialsFails
  BY <1>11 DEF RemoveCredentialsFails, End
<1>12. CASE RemoveReceipt
  BY <1>12 DEF RemoveReceipt, End
<1>13. CASE RemoveReceiptFails
  BY <1>13 DEF RemoveReceiptFails, End
<1> QED BY <1>1, <1>2, <1>3, <1>4, <1>5, <1>6, <1>7, <1>8, <1>9, <1>10, <1>11, <1>12, <1>13 DEF Purge

LEMMA TypeAround == TypeOK /\ PhaseInv /\ Around => TypeOK'
<1> SUFFICES ASSUME TypeOK, PhaseInv, Around PROVE TypeOK'
  OBVIOUS
<1>typ. WritesAreTyped
  BY WritesTyped
<1>num. /\ commands \in Number /\ (commands < MaxCommands => commands + 1 \in Number /\ commands # MaxCommands)
        /\ faults \in 0 .. MaxFaults /\ shipped \in 1 .. 2 /\ 2 \in 1 .. 2
        /\ (Fault => faults' \in 0 .. MaxFaults)
  BY SetupAssumption, FaultIsTyped DEF TypeOK, Number
<1>fil. /\ Written(3) \in Files /\ \A k \in 0 .. 2 : Written(k) \in Files
        /\ \A k \in 1 .. 2 : Written(k) \in Files
        /\ \A k \in 1 .. 3 : Written(k) \in Files
  BY <1>typ DEF WritesAreTyped
<1>oth. /\ Others(Home) \subseteq Token /\ (\A S : live \ S \subseteq Token)
        /\ Lost \subseteq Repo /\ Lost' \subseteq Repo
  BY SetupAssumption DEF TypeOK, Others, Lost
<1> USE <1>typ, <1>num, <1>fil, <1>oth DEF TypeOK, WritesAreTyped, Reports, Ops, Steps, Tokens, Parts,
     machine, command, history
<1>1. CASE Die
  BY <1>1 DEF Die, End, DieWithin
<1>2. CASE Ship
  BY <1>2 DEF Ship, Idle
<1>3. CASE Record
  BY <1>3 DEF Record, Idle
<1>4. ASSUME NEW p \in Policies, ChangePolicy(p) PROVE TypeOK'
  BY <1>4 DEF ChangePolicy, Idle
<1>5. ASSUME NEW t \in live, RevokeElsewhere(t) PROVE TypeOK'
  <2>1. live' \subseteq Token /\ faults' \in 0 .. MaxFaults
    BY <1>5 DEF RevokeElsewhere
  <2>2. report' \in Reports
    BY <1>5 DEF RevokeElsewhere
  <2> QED BY <1>5, <2>1, <2>2 DEF RevokeElsewhere
<1> QED BY <1>1, <1>2, <1>3, <1>4, <1>5 DEF Around

--------------------------------------------------------------------------------
(* The steps of the commands.                                              *)
LEMMA NumbersAreNat ==
    ASSUME TypeOK
    PROVE  /\ commands \in Nat /\ commands + 1 \in Nat
           /\ \A t \in live : t.tok \in Nat /\ (t.tok <= commands => t.tok <= commands + 1)
<1>1. commands \in Nat /\ \A t \in live : t.tok \in Number
  BY ConstantsAreTyped DEF TypeOK, Token
<1>2. \A t \in live : t.tok \in Nat
  BY <1>1, ConstantsAreTyped
<1> QED BY <1>1, <1>2

LEMMA PhaseSetups == TypeOK /\ PhaseInv /\ Setups => PhaseInv'
<1> SUFFICES ASSUME TypeOK, PhaseInv, Setups PROVE PhaseInv'
  OBVIOUS
<1>typ. /\ service \in Service /\ commands \in Nat /\ commands + 1 \in Nat
        /\ \A t \in live : t.tok \in Nat /\ (t.tok <= commands => t.tok <= commands + 1)
  BY NumbersAreNat DEF TypeOK
<1> USE <1>typ DEF PhaseInv, Removals, Service, Tokens, machine, command, history
<1>1. CASE Setup
  BY <1>1 DEF Setup, Begin, MaySetUp
<1>2. CASE Probe
  BY <1>2 DEF Probe, Goto
<1>3. CASE ProbeFails
  BY <1>3 DEF ProbeFails, End
<1>4. ASSUME NEW d \in Dest, Enroll(d) PROVE PhaseInv'
  BY <1>4 DEF Enroll, Goto, Others, Minted
<1>5. ASSUME NEW d \in Dest, EnrollFails(d) PROVE PhaseInv'
  BY <1>5 DEF EnrollFails, Goto, Others, Minted
<1>6. CASE ApplyState
  BY <1>6 DEF ApplyState, Goto
<1>7. CASE ApplyStateFails
  BY <1>7 DEF ApplyStateFails, Goto
<1>8. CASE SetupRuntime
  BY <1>8 DEF SetupRuntime, Goto
<1>9. CASE SetupRuntimeRefused
  BY <1>9 DEF SetupRuntimeRefused, Goto
<1>10. CASE SetupRuntimeFails
  BY <1>10 DEF SetupRuntimeFails, Goto
<1>11. CASE ApplyNative
  BY <1>11 DEF ApplyNative, Goto
<1>12. CASE ApplyNativeFails
  BY <1>12 DEF ApplyNativeFails, Goto
<1>13. CASE ApplyHooks
  BY <1>13 DEF ApplyHooks, Goto
<1>14. CASE Verify
  BY <1>14 DEF Verify, End
<1>15. CASE VerifyFails
  BY <1>15 DEF VerifyFails, Goto
<1>16. CASE UndoHost
  BY <1>16 DEF UndoHost, Goto
<1>17. CASE UndoHostFails
  BY <1>17 DEF UndoHostFails, Goto
<1>18. CASE UndoState
  BY <1>18 DEF UndoState, Goto
<1>19. CASE UndoStateFails
  BY <1>19 DEF UndoStateFails, Goto
<1>20. CASE CompensateLifecycle
  BY <1>20 DEF CompensateLifecycle, Goto, Compensated, NoService
<1>21. CASE CompensateLifecycleFails
  BY <1>21 DEF CompensateLifecycleFails, Goto
<1>22. CASE RevokeMinted
  BY <1>22 DEF RevokeMinted, End
<1>23. CASE RevokeMintedFails
  BY <1>23 DEF RevokeMintedFails, End
<1>24. CASE Upgrade
  BY <1>24 DEF Upgrade
<1> QED BY <1>1, <1>2, <1>3, <1>4, <1>5, <1>6, <1>7, <1>8, <1>9, <1>10, <1>11, <1>12, <1>13, <1>14,
     <1>15, <1>16, <1>17, <1>18, <1>19, <1>20, <1>21, <1>22, <1>23, <1>24 DEF Setups

LEMMA PhaseRemoval == TypeOK /\ PhaseInv /\ Removal => PhaseInv'
<1> SUFFICES ASSUME TypeOK, PhaseInv, Removal PROVE PhaseInv'
  OBVIOUS
<1>typ. /\ service \in Service /\ commands \in Nat /\ commands + 1 \in Nat
        /\ \A t \in live : t.tok \in Nat /\ (t.tok <= commands => t.tok <= commands + 1)
  BY NumbersAreNat DEF TypeOK
<1> USE <1>typ DEF PhaseInv, Removals, Service, Tokens, machine, command, history
<1>1. ASSUME NEW o \in Removals, RemoveHosts(o) PROVE PhaseInv'
  BY <1>1 DEF RemoveHosts, Begin, AfterHosts, MayRemove, NoService
<1>2. ASSUME NEW o \in Removals, RemoveHostsFails(o) PROVE PhaseInv'
  BY <1>2 DEF RemoveHostsFails, Begin, MayRemove
<1>3. CASE Disable
  BY <1>3 DEF Disable, End
<1>4. CASE StopFails
  BY <1>4 DEF StopFails, Goto
<1>5. CASE Uninstall
  BY <1>5 DEF Uninstall, End, NoService
<1>6. CASE UninstallFails
  BY <1>6 DEF UninstallFails, Goto, End
<1>7. CASE Restart
  BY <1>7 DEF Restart, Goto
<1>8. CASE RestartFails
  <2>1. op \in Removals /\ pc = "r_start"
    BY <1>8 DEF RestartFails
  <2>s. service'.st = "absent" => service' = NoService
    BY <1>8 DEF RestartFails
  <2>u. UNCHANGED <<op, hidden, receipt, commands, live>> /\ ~hidden /\ ~bad
    BY <1>8 DEF RestartFails, End, Goto
  <2>2. CASE op \in {"disable", "uninstall"}
    <3>1. pc' = "idle" /\ UNCHANGED <<bad, torn>>
      BY <1>8, <2>1, <2>2 DEF RestartFails, End
    <3> QED BY <2>1, <2>2, <2>s, <2>u, <3>1
  <2>3. CASE op = "purge"
    <3>1. pc' = "r_host" /\ bad' = TRUE /\ torn' = TRUE /\ report' = report
      BY <1>8, <2>1, <2>3 DEF RestartFails, Goto
    <3>2. report' = "none" /\ ~receipt'.there
      BY <2>1, <2>u, <3>1
    <3>3. commands' > 0 /\ \A t \in live' : t.tok <= commands'
      BY <2>1, <2>u
    <3>4. ~(pc' \in Applying \union Undoing) /\ pc' \in Removing /\ pc' \notin (Removing \ {"r_host"}) /\ pc' \notin Completing
      BY <3>1
    <3> QED BY <2>1, <2>3, <2>s, <2>u, <3>1, <3>2, <3>3, <3>4
  <2> QED BY <2>1, <2>2, <2>3
<1>9. CASE RestoreHosts
  BY <1>9 DEF RestoreHosts, End
<1>10. CASE RestoreHostsFails
  BY <1>10 DEF RestoreHostsFails, End
<1> QED BY <1>1, <1>2, <1>3, <1>4, <1>5, <1>6, <1>7, <1>8, <1>9, <1>10 DEF Removal

LEMMA PhasePurge == TypeOK /\ PhaseInv /\ Purge => PhaseInv'
<1> SUFFICES ASSUME TypeOK, PhaseInv, Purge PROVE PhaseInv'
  OBVIOUS
<1>typ. /\ service \in Service /\ commands \in Nat /\ commands + 1 \in Nat
        /\ \A t \in live : t.tok \in Nat /\ (t.tok <= commands => t.tok <= commands + 1)
  BY NumbersAreNat DEF TypeOK
<1> USE <1>typ DEF PhaseInv, Removals, Service, Tokens, machine, command, history
<1>1. CASE PurgeStop
  BY <1>1 DEF PurgeStop, Goto
<1>2. CASE Revoke
  BY <1>2 DEF Revoke, Goto, Others
<1>3. CASE NotRevoked
  BY <1>3 DEF NotRevoked, Goto
<1>4. CASE Unconfirmed
  BY <1>4 DEF Unconfirmed, End, Others
<1>5. CASE WriteReceipt
  BY <1>5 DEF WriteReceipt, Goto
<1>6. CASE WriteReceiptFails
  BY <1>6 DEF WriteReceiptFails, End
<1>7. CASE Resume
  BY <1>7 DEF Resume, Begin
<1>8. CASE PurgeService
  BY <1>8 DEF PurgeService, Goto, NoService
<1>9. CASE PurgeServiceFails
  BY <1>9 DEF PurgeServiceFails, End
<1>10. CASE RemoveCredentials
  BY <1>10 DEF RemoveCredentials, Goto
<1>11. CASE RemoveCredentialsFails
  BY <1>11 DEF RemoveCredentialsFails, End
<1>12. CASE RemoveReceipt
  BY <1>12 DEF RemoveReceipt, End
<1>13. CASE RemoveReceiptFails
  BY <1>13 DEF RemoveReceiptFails, End
<1> QED BY <1>1, <1>2, <1>3, <1>4, <1>5, <1>6, <1>7, <1>8, <1>9, <1>10, <1>11, <1>12, <1>13 DEF Purge

LEMMA PhaseAround == TypeOK /\ PhaseInv /\ Around => PhaseInv'
<1> SUFFICES ASSUME TypeOK, PhaseInv, Around PROVE PhaseInv'
  OBVIOUS
<1>typ. /\ service \in Service /\ commands \in Nat /\ commands + 1 \in Nat
        /\ \A t \in live : t.tok \in Nat /\ (t.tok <= commands => t.tok <= commands + 1)
  BY NumbersAreNat DEF TypeOK
<1> USE <1>typ DEF PhaseInv, Removals, Service, Tokens, machine, command, history
<1>1. CASE Die
  BY <1>1 DEF Die, End, DieWithin
<1>2. CASE Ship
  BY <1>2 DEF Ship, Idle
<1>3. CASE Record
  BY <1>3 DEF Record, Idle
<1>4. ASSUME NEW p \in Policies, ChangePolicy(p) PROVE PhaseInv'
  BY <1>4 DEF ChangePolicy, Idle
<1>5. ASSUME NEW t \in live, RevokeElsewhere(t) PROVE PhaseInv'
  BY <1>5 DEF RevokeElsewhere
<1> QED BY <1>1, <1>2, <1>3, <1>4, <1>5 DEF Around

--------------------------------------------------------------------------------
(* Which parts of the state the steps of a command leave alone.            *)

SetupStep ==
    /\ pc' \in Applying \union Undoing \union {"idle"}
    /\ ~receipt.there /\ UNCHANGED <<receipt, queue, policy, shipped>>

RemovalStep ==
    /\ pc' \in Removing \union {"idle"}
    /\ UNCHANGED <<files, queue, live, receipt, unreceived, shipped>>
    /\ orphans' = orphans \/ (pc' = "idle" /\ UNCHANGED host /\ StillOrphans)

PurgeStep ==
    /\ pc' \in Removing \union Completing \union {"idle"}
    /\ pc' = "idle" \/ ("p_stop" # pc' /\ "d_service" # pc' /\ "x_service" # pc' /\ "r_host" # pc')
    /\ UNCHANGED <<torn, unreceived, shipped>>
    /\ orphans' = orphans \/ (pc' = "p_finish" /\ UNCHANGED <<host, files>> /\ StillOrphans)

AroundStep ==
    /\ pc' = pc \/ pc' = "idle"
    /\ UNCHANGED <<receipt, commands>>

LEMMA SetupSteps == PhaseInv /\ Setups => SetupStep
<1> SUFFICES ASSUME PhaseInv, Setups PROVE SetupStep
  OBVIOUS
<1> USE DEF Tokens, machine, command, history
<1> USE DEF PhaseInv
<1>1. CASE Setup
  BY <1>1 DEF Setup, Begin, SetupStep, MaySetUp
<1>2. CASE Probe
  BY <1>2 DEF Probe, Goto, SetupStep
<1>3. CASE ProbeFails
  BY <1>3 DEF ProbeFails, End, SetupStep
<1>4. ASSUME NEW d \in Dest, Enroll(d) PROVE SetupStep
  BY <1>4 DEF Enroll, Goto, SetupStep
<1>5. ASSUME NEW d \in Dest, EnrollFails(d) PROVE SetupStep
  BY <1>5 DEF EnrollFails, Goto, SetupStep
<1>6. CASE ApplyState
  BY <1>6 DEF ApplyState, Goto, SetupStep
<1>7. CASE ApplyStateFails
  BY <1>7 DEF ApplyStateFails, Goto, SetupStep
<1>8. CASE SetupRuntime
  BY <1>8 DEF SetupRuntime, Goto, SetupStep
<1>9. CASE SetupRuntimeRefused
  BY <1>9 DEF SetupRuntimeRefused, Goto, SetupStep
<1>10. CASE SetupRuntimeFails
  BY <1>10 DEF SetupRuntimeFails, Goto, SetupStep
<1>11. CASE ApplyNative
  BY <1>11 DEF ApplyNative, Goto, SetupStep
<1>12. CASE ApplyNativeFails
  BY <1>12 DEF ApplyNativeFails, Goto, SetupStep
<1>13. CASE ApplyHooks
  BY <1>13 DEF ApplyHooks, Goto, SetupStep
<1>14. CASE Verify
  BY <1>14 DEF Verify, End, SetupStep
<1>15. CASE VerifyFails
  BY <1>15 DEF VerifyFails, Goto, SetupStep
<1>16. CASE UndoHost
  BY <1>16 DEF UndoHost, Goto, SetupStep
<1>17. CASE UndoHostFails
  BY <1>17 DEF UndoHostFails, Goto, SetupStep
<1>18. CASE UndoState
  BY <1>18 DEF UndoState, Goto, SetupStep
<1>19. CASE UndoStateFails
  BY <1>19 DEF UndoStateFails, Goto, SetupStep
<1>20. CASE CompensateLifecycle
  BY <1>20 DEF CompensateLifecycle, Goto, SetupStep
<1>21. CASE CompensateLifecycleFails
  BY <1>21 DEF CompensateLifecycleFails, Goto, SetupStep
<1>22. CASE RevokeMinted
  BY <1>22 DEF RevokeMinted, End, SetupStep
<1>23. CASE RevokeMintedFails
  BY <1>23 DEF RevokeMintedFails, End, SetupStep
<1>24. CASE Upgrade
  BY <1>24 DEF Upgrade, SetupStep
<1> QED BY <1>1, <1>2, <1>3, <1>4, <1>5, <1>6, <1>7, <1>8, <1>9, <1>10, <1>11, <1>12, <1>13, <1>14,
     <1>15, <1>16, <1>17, <1>18, <1>19, <1>20, <1>21, <1>22, <1>23, <1>24 DEF Setups

LEMMA RemovalSteps == PhaseInv /\ Removal => RemovalStep
<1> SUFFICES ASSUME PhaseInv, Removal PROVE RemovalStep
  OBVIOUS
<1> USE DEF Tokens, machine, command, history
<1>1. ASSUME NEW o \in Removals, RemoveHosts(o) PROVE RemovalStep
  <2>1. AfterHosts(o) \in Removing
    BY DEF AfterHosts, Removals
  <2> QED BY <1>1, <2>1 DEF RemoveHosts, Begin, RemovalStep
<1>2. ASSUME NEW o \in Removals, RemoveHostsFails(o) PROVE RemovalStep
  BY <1>2 DEF RemoveHostsFails, Begin, RemovalStep
<1>3. CASE Disable
  BY <1>3 DEF Disable, End, RemovalStep
<1>4. CASE StopFails
  BY <1>4 DEF StopFails, Goto, RemovalStep
<1>5. CASE Uninstall
  BY <1>5 DEF Uninstall, End, RemovalStep
<1>6. CASE UninstallFails
  BY <1>6 DEF UninstallFails, Goto, End, RemovalStep
<1>7. CASE Restart
  BY <1>7 DEF Restart, Goto, RemovalStep
<1>8. CASE RestartFails
  <2>1. op \in Removals /\ pc = "r_start"
    BY <1>8 DEF RestartFails, PhaseInv
  <2>2. pc' \in {"idle", "r_host"}
    BY <1>8, <2>1 DEF RestartFails, End, Goto, Removals
  <2> QED BY <1>8, <2>2 DEF RestartFails, RemovalStep
<1>9. CASE RestoreHosts
  BY <1>9 DEF RestoreHosts, End, RemovalStep
<1>10. CASE RestoreHostsFails
  BY <1>10 DEF RestoreHostsFails, End, RemovalStep
<1> QED BY <1>1, <1>2, <1>3, <1>4, <1>5, <1>6, <1>7, <1>8, <1>9, <1>10 DEF Removal

LEMMA PurgeSteps == PhaseInv /\ Purge => PurgeStep
<1> SUFFICES ASSUME PhaseInv, Purge PROVE PurgeStep
  OBVIOUS
<1> USE DEF Tokens, machine, command, history
<1>1. CASE PurgeStop
  BY <1>1 DEF PurgeStop, Goto, PurgeStep
<1>2. CASE Revoke
  BY <1>2 DEF Revoke, Goto, PurgeStep
<1>3. CASE NotRevoked
  BY <1>3 DEF NotRevoked, Goto, PurgeStep
<1>4. CASE Unconfirmed
  BY <1>4 DEF Unconfirmed, End, PurgeStep
<1>5. CASE WriteReceipt
  BY <1>5 DEF WriteReceipt, Goto, PurgeStep
<1>6. CASE WriteReceiptFails
  BY <1>6 DEF WriteReceiptFails, End, PurgeStep
<1>7. CASE Resume
  BY <1>7 DEF Resume, Begin, PurgeStep
<1>8. CASE PurgeService
  BY <1>8 DEF PurgeService, Goto, PurgeStep
<1>9. CASE PurgeServiceFails
  BY <1>9 DEF PurgeServiceFails, End, PurgeStep
<1>10. CASE RemoveCredentials
  BY <1>10 DEF RemoveCredentials, Goto, PurgeStep
<1>11. CASE RemoveCredentialsFails
  BY <1>11 DEF RemoveCredentialsFails, End, PurgeStep
<1>12. CASE RemoveReceipt
  BY <1>12 DEF RemoveReceipt, End, PurgeStep
<1>13. CASE RemoveReceiptFails
  BY <1>13 DEF RemoveReceiptFails, End, PurgeStep
<1> QED BY <1>1, <1>2, <1>3, <1>4, <1>5, <1>6, <1>7, <1>8, <1>9, <1>10, <1>11, <1>12, <1>13 DEF Purge

LEMMA AroundSteps == PhaseInv /\ Around => AroundStep
<1> SUFFICES ASSUME PhaseInv, Around PROVE AroundStep
  OBVIOUS
<1> USE DEF Tokens, machine, command, history
<1>1. CASE Die
  BY <1>1 DEF Die, End, DieWithin, AroundStep
<1>2. CASE Ship
  BY <1>2 DEF Ship, Idle, AroundStep
<1>3. CASE Record
  BY <1>3 DEF Record, Idle, AroundStep
<1>4. ASSUME NEW p \in Policies, ChangePolicy(p) PROVE AroundStep
  BY <1>4 DEF ChangePolicy, Idle, AroundStep
<1>5. ASSUME NEW t \in live, RevokeElsewhere(t) PROVE AroundStep
  BY <1>5 DEF RevokeElsewhere, AroundStep
<1> QED BY <1>1, <1>2, <1>3, <1>4, <1>5 DEF Around

--------------------------------------------------------------------------------
(* The machine under a setup.                                              *)

LEMMA TargetIsCoherent == TypeOK => Coherent(Target)
<1> SUFFICES ASSUME TypeOK PROVE Coherent(Target)
  OBVIOUS
<1>1. Target.relay.inst = Target.identity.inst /\ Target.ingress = Target.identity.inst
      /\ Target.relay.bind = Target.identity.bind
  BY TargetIsFiles
<1> QED BY <1>1 DEF Coherent, Owns

(* A setup that runs has an identity, and keeps it.                        *)
LEMMA SetupHasIdentity ==
    ASSUME SetupInv, pc \in Applying \union Undoing
    PROVE  /\ files.identity.inst # 0 /\ files.identity.inst = was.files.identity.inst
           /\ Coherent(was.files) /\ Coherent(Target)
           /\ Target.identity.inst = files.identity.inst
           /\ \A k \in 0 .. 3 : Written(k).identity.inst = files.identity.inst
           /\ Written(0) = was.files /\ Written(3) = Target
<1>1. TypeOK /\ FoundInv
  BY DEF SetupInv
<1>2. files.identity.inst # 0 /\ files.identity.inst = was.files.identity.inst /\ Coherent(was.files)
  BY <1>1 DEF FoundInv
<1>3. \A k \in 0 .. 3 : Written(k).identity.inst = was.files.identity.inst
  BY <1>1, <1>2, WrittenIsFiles
<1>4. Written(0) = was.files /\ Written(3) = Target
  BY <1>1, WrittenIsFiles
<1> QED BY <1>1, <1>2, <1>3, <1>4, TargetIsFiles, TargetIsCoherent

LEMMA SetupsKeepIdentity == SetupInv /\ Setups => files'.identity.inst # 0 /\ (pc # "idle" => files'.identity.inst = files.identity.inst)
<1> SUFFICES ASSUME SetupInv, Setups PROVE files'.identity.inst # 0 /\ (pc # "idle" => files'.identity.inst = files.identity.inst)
  OBVIOUS
<1>typ. TypeOK /\ PhaseInv
  BY DEF SetupInv
<1> USE DEF Tokens, machine, command, history
<1>found. pc \in Applying \union Undoing =>
           /\ files.identity.inst # 0
           /\ files.identity.inst = was.files.identity.inst
           /\ Target.identity.inst = files.identity.inst
           /\ \A k \in 0 .. 3 : Written(k).identity.inst = files.identity.inst
  BY SetupHasIdentity
<1>1. CASE Setup
  <2>1. files \in Files /\ commands \in Nat
    BY <1>typ, NumbersAreNat DEF TypeOK
  <2>2. CASE files.identity.inst = 0
    <3>1. files'.identity.inst = commands + 1
      BY <1>1, <2>1, <2>2 DEF Setup, Reconciled, NoIdentity, Files
    <3>2. pc = "idle"
      BY <1>1 DEF Setup, Begin
    <3> QED BY <2>1, <3>1, <3>2
  <2>3. CASE files.identity.inst # 0
    BY <1>1, <2>3 DEF Setup
  <2> QED BY <2>2, <2>3
<1>2. CASE Probe
  BY <1>2, <1>found DEF Probe, Goto
<1>3. CASE ProbeFails
  BY <1>3, <1>found DEF ProbeFails, End
<1>4. ASSUME NEW d \in Dest, Enroll(d) PROVE files'.identity.inst # 0 /\ (pc # "idle" => files'.identity.inst = files.identity.inst)
  BY <1>4, <1>found DEF Enroll, Goto
<1>5. ASSUME NEW d \in Dest, EnrollFails(d) PROVE files'.identity.inst # 0 /\ (pc # "idle" => files'.identity.inst = files.identity.inst)
  BY <1>5, <1>found DEF EnrollFails, Goto
<1>6. CASE ApplyState
  BY <1>6, <1>found DEF ApplyState, Goto
<1>7. CASE ApplyStateFails
  BY <1>7, <1>found DEF ApplyStateFails, Goto
<1>8. CASE SetupRuntime
  BY <1>8, <1>found DEF SetupRuntime, Goto
<1>9. CASE SetupRuntimeRefused
  BY <1>9, <1>found DEF SetupRuntimeRefused, Goto
<1>10. CASE SetupRuntimeFails
  BY <1>10, <1>found DEF SetupRuntimeFails, Goto
<1>11. CASE ApplyNative
  BY <1>11, <1>found DEF ApplyNative, Goto
<1>12. CASE ApplyNativeFails
  BY <1>12, <1>found DEF ApplyNativeFails, Goto
<1>13. CASE ApplyHooks
  BY <1>13, <1>found DEF ApplyHooks, Goto
<1>14. CASE Verify
  BY <1>14, <1>found DEF Verify, End
<1>15. CASE VerifyFails
  BY <1>15, <1>found DEF VerifyFails, Goto
<1>16. CASE UndoHost
  BY <1>16, <1>found DEF UndoHost, Goto
<1>17. CASE UndoHostFails
  BY <1>17, <1>found DEF UndoHostFails, Goto
<1>18. CASE UndoState
  BY <1>18, <1>found DEF UndoState, Goto
<1>19. CASE UndoStateFails
  BY <1>19, <1>found DEF UndoStateFails, Goto
<1>20. CASE CompensateLifecycle
  BY <1>20, <1>found DEF CompensateLifecycle, Goto
<1>21. CASE CompensateLifecycleFails
  BY <1>21, <1>found DEF CompensateLifecycleFails, Goto
<1>22. CASE RevokeMinted
  BY <1>22, <1>found DEF RevokeMinted, End
<1>23. CASE RevokeMintedFails
  BY <1>23, <1>found DEF RevokeMintedFails, End
<1>24. CASE Upgrade
  BY <1>24, <1>found DEF Upgrade, OwnedLocalState
<1> QED BY <1>1, <1>2, <1>3, <1>4, <1>5, <1>6, <1>7, <1>8, <1>9, <1>10, <1>11, <1>12, <1>13, <1>14,
     <1>15, <1>16, <1>17, <1>18, <1>19, <1>20, <1>21, <1>22, <1>23, <1>24 DEF Setups

LEMMA SetupsKeepCoherent == SetupInv /\ Setups => (~torn' => Coherent(files'))
<1> SUFFICES ASSUME SetupInv, Setups PROVE (~torn' => Coherent(files'))
  OBVIOUS
<1>typ. TypeOK /\ PhaseInv
  BY DEF SetupInv
<1> USE DEF Tokens, machine, command, history
<1>found. pc \in Applying \union Undoing => Coherent(was.files) /\ Coherent(Target)
           /\ Written(0) = was.files /\ Written(3) = Target
  BY SetupHasIdentity
<1>co. ~receipt.there /\ ~torn => Coherent(files)
  BY DEF SetupInv, MachineInv, Rooted
<1>step. ~receipt.there
  BY <1>typ, SetupSteps DEF SetupStep
<1>1. CASE Setup
  <2>1. files \in Files /\ commands \in Nat
    BY <1>typ, NumbersAreNat DEF TypeOK
  <2>2. CASE files.identity.inst = 0
    <3>1. files'.relay = files.relay /\ files'.ingress = files.ingress
      BY <1>1, <2>1, <2>2 DEF Setup, Files
    <3>2. files.relay.inst = 0 /\ files.ingress = 0
      BY <1>1, <2>2 DEF Setup, MaySetUp
    <3> QED BY <3>1, <3>2 DEF Coherent
  <2>3. CASE files.identity.inst # 0
    BY <1>1, <2>3 DEF Setup, MaySetUp, Coherent
  <2> QED BY <2>2, <2>3
<1>2. CASE Probe
  BY <1>2, <1>found, <1>co, <1>step DEF Probe, Goto
<1>3. CASE ProbeFails
  BY <1>3, <1>found, <1>co, <1>step DEF ProbeFails, End
<1>4. ASSUME NEW d \in Dest, Enroll(d) PROVE (~torn' => Coherent(files'))
  BY <1>4, <1>found, <1>co, <1>step DEF Enroll, Goto
<1>5. ASSUME NEW d \in Dest, EnrollFails(d) PROVE (~torn' => Coherent(files'))
  BY <1>5, <1>found, <1>co, <1>step DEF EnrollFails, Goto
<1>6. CASE ApplyState
  BY <1>6, <1>found, <1>co, <1>step DEF ApplyState, Goto
<1>7. CASE ApplyStateFails
  BY <1>7, <1>found, <1>co, <1>step DEF ApplyStateFails, Goto
<1>8. CASE SetupRuntime
  BY <1>8, <1>found, <1>co, <1>step DEF SetupRuntime, Goto
<1>9. CASE SetupRuntimeRefused
  BY <1>9, <1>found, <1>co, <1>step DEF SetupRuntimeRefused, Goto
<1>10. CASE SetupRuntimeFails
  BY <1>10, <1>found, <1>co, <1>step DEF SetupRuntimeFails, Goto
<1>11. CASE ApplyNative
  BY <1>11, <1>found, <1>co, <1>step DEF ApplyNative, Goto
<1>12. CASE ApplyNativeFails
  BY <1>12, <1>found, <1>co, <1>step DEF ApplyNativeFails, Goto
<1>13. CASE ApplyHooks
  BY <1>13, <1>found, <1>co, <1>step DEF ApplyHooks, Goto
<1>14. CASE Verify
  <2>1. files = Target
    BY <1>14 DEF Verify, SetupInv, ApplyInv
  <2> QED BY <1>14, <1>found, <2>1 DEF Verify
<1>15. CASE VerifyFails
  BY <1>15, <1>found, <1>co, <1>step DEF VerifyFails, Goto
<1>16. CASE UndoHost
  BY <1>16, <1>found, <1>co, <1>step DEF UndoHost, Goto
<1>17. CASE UndoHostFails
  BY <1>17, <1>found, <1>co, <1>step DEF UndoHostFails, Goto
<1>18. CASE UndoState
  BY <1>18, <1>found, <1>co, <1>step DEF UndoState, Goto
<1>19. CASE UndoStateFails
  BY <1>19, <1>found, <1>co, <1>step DEF UndoStateFails, Goto
<1>20. CASE CompensateLifecycle
  BY <1>20, <1>found, <1>co, <1>step DEF CompensateLifecycle, Goto
<1>21. CASE CompensateLifecycleFails
  BY <1>21, <1>found, <1>co, <1>step DEF CompensateLifecycleFails, Goto
<1>22. CASE RevokeMinted
  BY <1>22, <1>found, <1>co, <1>step DEF RevokeMinted, End
<1>23. CASE RevokeMintedFails
  BY <1>23, <1>found, <1>co, <1>step DEF RevokeMintedFails, End
<1>24. CASE Upgrade
  BY <1>24, <1>found, <1>co, <1>step DEF Upgrade
<1> QED BY <1>1, <1>2, <1>3, <1>4, <1>5, <1>6, <1>7, <1>8, <1>9, <1>10, <1>11, <1>12, <1>13, <1>14,
     <1>15, <1>16, <1>17, <1>18, <1>19, <1>20, <1>21, <1>22, <1>23, <1>24 DEF Setups

LEMMA SetupsKeepService == SetupInv /\ Setups => (~torn' => service'.st # "torn")
<1> SUFFICES ASSUME SetupInv, Setups PROVE (~torn' => service'.st # "torn")
  OBVIOUS
<1>typ. TypeOK /\ PhaseInv
  BY DEF SetupInv
<1> USE DEF Tokens, machine, command, history
<1>ser. /\ service \in Service /\ was.service \in Service
        /\ pc \in Applying \union Undoing => was.service.st # "torn"
        /\ pc \in Applying \union Undoing /\ "service" \in applied /\ pc # "u_revoke" =>
             service = [st |-> "running", rt |-> shipped]
        /\ ~torn => service.st # "torn"
  BY <1>typ, FilesAreTyped DEF TypeOK, SetupInv, FoundInv, ApplyInv, MachineInv, Rooted
<1>1. CASE Setup
  BY <1>1, <1>ser DEF Setup, Begin
<1>2. CASE Probe
  BY <1>2, <1>ser DEF Probe, Goto
<1>3. CASE ProbeFails
  BY <1>3, <1>ser DEF ProbeFails, End
<1>4. ASSUME NEW d \in Dest, Enroll(d) PROVE (~torn' => service'.st # "torn")
  BY <1>4, <1>ser DEF Enroll, Goto
<1>5. ASSUME NEW d \in Dest, EnrollFails(d) PROVE (~torn' => service'.st # "torn")
  BY <1>5, <1>ser DEF EnrollFails, Goto
<1>6. CASE ApplyState
  BY <1>6, <1>ser DEF ApplyState, Goto
<1>7. CASE ApplyStateFails
  BY <1>7, <1>ser DEF ApplyStateFails, Goto
<1>8. CASE SetupRuntime
  BY <1>8, <1>ser DEF SetupRuntime, Goto
<1>9. CASE SetupRuntimeRefused
  BY <1>9, <1>ser DEF SetupRuntimeRefused, Goto
<1>10. CASE SetupRuntimeFails
  BY <1>10, <1>ser DEF SetupRuntimeFails, Goto, Service
<1>11. CASE ApplyNative
  BY <1>11, <1>ser DEF ApplyNative, Goto
<1>12. CASE ApplyNativeFails
  BY <1>12, <1>ser DEF ApplyNativeFails, Goto
<1>13. CASE ApplyHooks
  BY <1>13, <1>ser DEF ApplyHooks, Goto
<1>14. CASE Verify
  BY <1>14, <1>ser DEF Verify, End, Healthy
<1>15. CASE VerifyFails
  BY <1>15, <1>ser DEF VerifyFails, Goto
<1>16. CASE UndoHost
  BY <1>16, <1>ser DEF UndoHost, Goto
<1>17. CASE UndoHostFails
  BY <1>17, <1>ser DEF UndoHostFails, Goto
<1>18. CASE UndoState
  BY <1>18, <1>ser DEF UndoState, Goto
<1>19. CASE UndoStateFails
  BY <1>19, <1>ser DEF UndoStateFails, Goto
<1>20. CASE CompensateLifecycle
  BY <1>20, <1>ser DEF CompensateLifecycle, Goto, Compensated, NoService, Service
<1>21. CASE CompensateLifecycleFails
  BY <1>21, <1>ser DEF CompensateLifecycleFails, Goto, Service
<1>22. CASE RevokeMinted
  BY <1>22, <1>ser DEF RevokeMinted, End
<1>23. CASE RevokeMintedFails
  BY <1>23, <1>ser DEF RevokeMintedFails, End
<1>24. CASE Upgrade
  BY <1>24, <1>ser DEF Upgrade, Service
<1> QED BY <1>1, <1>2, <1>3, <1>4, <1>5, <1>6, <1>7, <1>8, <1>9, <1>10, <1>11, <1>12, <1>13, <1>14,
     <1>15, <1>16, <1>17, <1>18, <1>19, <1>20, <1>21, <1>22, <1>23, <1>24 DEF Setups

LEMMA SetupsKeepRoute == SetupInv /\ Setups => NativeRoute'
<1> SUFFICES ASSUME SetupInv, Setups PROVE NativeRoute'
  OBVIOUS
<1>typ. TypeOK /\ PhaseInv
  BY DEF SetupInv
<1> USE DEF Tokens, machine, command, history
<1>route. ~torn => \A f \in Native : host[f] # 0 => /\ service.st = "running" /\ host[f] = files.identity.inst
                                                 /\ files.relay.inst = files.identity.inst
  BY DEF SetupInv, MachineInv, Rooted, NativeRoute
<1>run. pc \in Applying \union Undoing /\ "service" \in applied /\ pc # "u_revoke" => service.st = "running"
  BY DEF SetupInv, ApplyInv
<1>id. pc \in Applying \union Undoing => /\ files.identity.inst = was.files.identity.inst
                                       /\ Target.identity.inst = files.identity.inst
                                       /\ Target.relay.inst = Target.identity.inst
  BY <1>typ, SetupHasIdentity, TargetIsFiles
<1>was. pc \in Applying \union Undoing /\ ~torn =>
          \A f \in Native : was.host[f] # 0 => was.service.st = "running" /\ was.files.relay.inst = was.files.identity.inst
                                                  /\ was.host[f] = was.files.identity.inst
  BY DEF SetupInv, FoundInv, Routed
<1>ser. service \in Service /\ was.service \in Service /\ (hidden \/ bad => torn) /\ "hooks" \notin Native
  BY <1>typ, FilesAreTyped DEF TypeOK, PhaseInv, Native
<1>1. CASE Setup
  <2>1. CASE files.identity.inst = 0
    BY <1>1, <1>route, <1>run, <1>id, <1>was, <1>ser, <2>1 DEF Setup, MaySetUp, NativeRoute
  <2>2. CASE files.identity.inst # 0
    BY <1>1, <1>route, <1>run, <1>id, <1>was, <1>ser, <2>2 DEF Setup, NativeRoute
  <2> QED BY <2>1, <2>2
<1>2. CASE Probe
  BY <1>2, <1>route, <1>run, <1>id, <1>was, <1>ser DEF Probe, Goto, NativeRoute
<1>3. CASE ProbeFails
  BY <1>3, <1>route, <1>run, <1>id, <1>was, <1>ser DEF ProbeFails, End, NativeRoute
<1>4. ASSUME NEW d \in Dest, Enroll(d) PROVE NativeRoute'
  BY <1>4, <1>route, <1>run, <1>id, <1>was, <1>ser DEF Enroll, Goto, NativeRoute
<1>5. ASSUME NEW d \in Dest, EnrollFails(d) PROVE NativeRoute'
  BY <1>5, <1>route, <1>run, <1>id, <1>was, <1>ser DEF EnrollFails, Goto, NativeRoute
<1>6. CASE ApplyState
  <2>1. files' = Target
    BY <1>6, <1>route, <1>run, <1>id, <1>was, <1>ser, SetupHasIdentity DEF ApplyState
  <2> QED BY <1>6, <1>route, <1>run, <1>id, <1>was, <1>ser, <2>1 DEF ApplyState, NativeRoute
<1>7. CASE ApplyStateFails
  <2>1. files' = files \/ torn'
    BY <1>7, <1>route, <1>run, <1>id, <1>was, <1>ser DEF ApplyStateFails, SetupInv, ApplyInv
  <2> QED BY <1>7, <1>route, <1>run, <1>id, <1>was, <1>ser, <2>1 DEF ApplyStateFails, NativeRoute
<1>8. CASE SetupRuntime
  BY <1>8, <1>route, <1>run, <1>id, <1>was, <1>ser DEF SetupRuntime, Goto, NativeRoute
<1>9. CASE SetupRuntimeRefused
  BY <1>9, <1>route, <1>run, <1>id, <1>was, <1>ser DEF SetupRuntimeRefused, Goto, NativeRoute
<1>10. CASE SetupRuntimeFails
  BY <1>10, <1>route, <1>run, <1>id, <1>was, <1>ser DEF SetupRuntimeFails, Goto, NativeRoute, Service
<1>11. CASE ApplyNative
  <2>1. host'["claude"] = Target.identity.inst /\ host'["codex"] = Target.identity.inst
    BY <1>11, <1>route, <1>run, <1>id, <1>was, <1>ser, InstalledIsBound DEF ApplyNative
  <2>2. files = Target /\ "service" \in applied
    BY <1>11, <1>route, <1>run, <1>id, <1>was, <1>ser DEF ApplyNative, SetupInv, ApplyInv
  <2> QED BY <1>11, <1>route, <1>run, <1>id, <1>was, <1>ser, <2>1, <2>2 DEF ApplyNative, Native, NativeRoute
<1>12. CASE ApplyNativeFails
  <2>1. \A f \in Native : Partly({}, InstalledHost)[f] = host[f]
    BY DEF Partly, HostFile
  <2> QED BY <1>12, <1>route, <1>run, <1>id, <1>was, <1>ser, <2>1 DEF ApplyNativeFails, NativeRoute
<1>13. CASE ApplyHooks
  <2>1. \A f \in Native : host'[f] = host[f]
    BY <1>13, <1>route, <1>run, <1>id, <1>was, <1>ser, <1>typ DEF ApplyHooks, TypeOK, Hosts, HostFile
  <2> QED BY <1>13, <1>route, <1>run, <1>id, <1>was, <1>ser, <2>1 DEF ApplyHooks, NativeRoute
<1>14. CASE Verify
  <2>1. files = Target /\ \A f \in Native : host[f] = files.identity.inst
    BY <1>14, <1>route, <1>run, <1>id, <1>was, <1>ser DEF Verify, SetupInv, ApplyInv
  <2> QED BY <1>14, <1>route, <1>run, <1>id, <1>was, <1>ser, <2>1 DEF Verify, Healthy, NativeRoute
<1>15. CASE VerifyFails
  BY <1>15, <1>route, <1>run, <1>id, <1>was, <1>ser DEF VerifyFails, Goto, NativeRoute
<1>16. CASE UndoHost
  <2>1. \A f \in Native : HostBefore[f] = IF "native" \in applied THEN was.host[f] ELSE host[f]
    BY <1>ser DEF HostBefore, HostFile
  <2>2. CASE "native" \notin applied
    BY <1>16, <1>route, <1>run, <1>id, <1>was, <1>ser, <2>1, <2>2 DEF UndoHost, NativeRoute
  <2>3. CASE "native" \in applied
    <3>1. files = Target /\ "service" \in applied
      BY <1>16, <1>route, <1>run, <1>id, <1>was, <1>ser, <2>3 DEF UndoHost, SetupInv, UndoInv
    <3> QED BY <1>16, <1>route, <1>run, <1>id, <1>was, <1>ser, <2>1, <2>3, <3>1 DEF UndoHost, NativeRoute
  <2> QED BY <2>2, <2>3
<1>17. CASE UndoHostFails
  BY <1>17, <1>route, <1>run, <1>id, <1>was, <1>ser DEF UndoHostFails, Goto, NativeRoute
<1>18. CASE UndoState
  <2>1. CASE "state" \notin applied
    BY <1>18, <1>route, <1>run, <1>id, <1>was, <1>ser, <2>1 DEF UndoState, NativeRoute
  <2>2. CASE "state" \in applied /\ ~torn
    <3>1. \A f \in Native : host[f] = was.host[f]
      BY <1>18, <1>route, <1>run, <1>id, <1>was, <1>ser, <2>2 DEF UndoState, SetupInv, UndoInv, Native,
         HostFile
    <3> QED BY <1>18, <1>route, <1>run, <1>id, <1>was, <1>ser, <2>2, <3>1 DEF UndoState, NativeRoute
  <2> QED BY <1>18, <1>route, <1>run, <1>id, <1>was, <1>ser, <2>1, <2>2 DEF UndoState, NativeRoute
<1>19. CASE UndoStateFails
  BY <1>19, <1>route, <1>run, <1>id, <1>was, <1>ser DEF UndoStateFails, Goto, NativeRoute
<1>20. CASE CompensateLifecycle
  <2>1. CASE "service" \notin applied
    BY <1>20, <1>route, <1>run, <1>id, <1>was, <1>ser, <2>1 DEF CompensateLifecycle, NativeRoute
  <2>2. CASE "service" \in applied /\ ~torn
    <3>1. \A f \in Native : host[f] = was.host[f]
      BY <1>20, <1>route, <1>run, <1>id, <1>was, <1>ser, <2>2 DEF CompensateLifecycle, SetupInv, UndoInv,
         Native, HostFile
    <3>2. was.service.st = "running" => service'.st = "running"
      BY <1>20, <1>route, <1>run, <1>id, <1>was, <1>ser, <2>2 DEF CompensateLifecycle, Compensated, Service
    <3> QED BY <1>20, <1>route, <1>run, <1>id, <1>was, <1>ser, <2>2, <3>1, <3>2 DEF CompensateLifecycle,
         NativeRoute
  <2> QED BY <1>20, <1>route, <1>run, <1>id, <1>was, <1>ser, <2>1, <2>2 DEF CompensateLifecycle, NativeRoute
<1>21. CASE CompensateLifecycleFails
  BY <1>21, <1>route, <1>run, <1>id, <1>was, <1>ser DEF CompensateLifecycleFails, Goto, NativeRoute, Service
<1>22. CASE RevokeMinted
  BY <1>22, <1>route, <1>run, <1>id, <1>was, <1>ser DEF RevokeMinted, End, NativeRoute
<1>23. CASE RevokeMintedFails
  BY <1>23, <1>route, <1>run, <1>id, <1>was, <1>ser DEF RevokeMintedFails, End, NativeRoute
<1>24. CASE Upgrade
  BY <1>24, <1>route, <1>run, <1>id, <1>was, <1>ser DEF Upgrade, NativeRoute, Service, OwnedLocalState
<1> QED BY <1>1, <1>2, <1>3, <1>4, <1>5, <1>6, <1>7, <1>8, <1>9, <1>10, <1>11, <1>12, <1>13, <1>14,
     <1>15, <1>16, <1>17, <1>18, <1>19, <1>20, <1>21, <1>22, <1>23, <1>24 DEF Setups

LEMMA SetupsKeepStrays == SetupInv /\ Setups => (pc' \notin Applying \union Undoing => Strays(host', files') \subseteq orphans')
<1> SUFFICES ASSUME SetupInv, Setups PROVE (pc' \notin Applying \union Undoing => Strays(host', files') \subseteq orphans')
  OBVIOUS
<1>typ. TypeOK /\ PhaseInv
  BY DEF SetupInv
<1> USE DEF Tokens, machine, command, history
<1>1. CASE Setup
  BY <1>1 DEF Setup, Begin
<1>2. CASE Probe
  BY <1>2 DEF Probe, Goto
<1>3. CASE ProbeFails
  <2>1. files = was.files /\ host = was.host /\ Strays(was.host, was.files) \subseteq orphans
    BY <1>3 DEF ProbeFails, SetupInv, ApplyInv, FoundInv
  <2> QED BY <1>3, <2>1 DEF ProbeFails, End
<1>4. ASSUME NEW d \in Dest, Enroll(d) PROVE (pc' \notin Applying \union Undoing => Strays(host', files') \subseteq orphans')
  BY <1>4 DEF Enroll, Goto
<1>5. ASSUME NEW d \in Dest, EnrollFails(d) PROVE (pc' \notin Applying \union Undoing => Strays(host', files') \subseteq orphans')
  BY <1>5 DEF EnrollFails, Goto
<1>6. CASE ApplyState
  BY <1>6 DEF ApplyState, Goto
<1>7. CASE ApplyStateFails
  BY <1>7 DEF ApplyStateFails, Goto
<1>8. CASE SetupRuntime
  BY <1>8 DEF SetupRuntime, Goto
<1>9. CASE SetupRuntimeRefused
  BY <1>9 DEF SetupRuntimeRefused, Goto
<1>10. CASE SetupRuntimeFails
  BY <1>10 DEF SetupRuntimeFails, Goto
<1>11. CASE ApplyNative
  BY <1>11 DEF ApplyNative, Goto
<1>12. CASE ApplyNativeFails
  BY <1>12 DEF ApplyNativeFails, Goto
<1>13. CASE ApplyHooks
  BY <1>13 DEF ApplyHooks, Goto
<1>14. CASE Verify
  <2>1. \A r \in Repo \ orphans : host[r] = files.identity.bind[r]
    BY <1>14 DEF Verify, SetupInv, ApplyInv
  <2> QED BY <1>14, <2>1 DEF Verify, End, Strays, StillOrphans, Lost
<1>15. CASE VerifyFails
  BY <1>15 DEF VerifyFails, Goto
<1>16. CASE UndoHost
  BY <1>16 DEF UndoHost, Goto
<1>17. CASE UndoHostFails
  BY <1>17 DEF UndoHostFails, Goto
<1>18. CASE UndoState
  BY <1>18 DEF UndoState, Goto
<1>19. CASE UndoStateFails
  BY <1>19 DEF UndoStateFails, Goto
<1>20. CASE CompensateLifecycle
  BY <1>20 DEF CompensateLifecycle, Goto
<1>21. CASE CompensateLifecycleFails
  BY <1>21 DEF CompensateLifecycleFails, Goto
<1>22. CASE RevokeMinted
  <2>1. CASE bad \/ hidden
    BY <1>22, <2>1 DEF RevokeMinted, Lost, Strays
  <2>2. CASE ~bad /\ ~hidden
    <3>1. /\ files = was.files /\ \A r \in Repo : host[r] = was.host[r]
          /\ Strays(was.host, was.files) \subseteq orphans
      BY <1>22, <2>2 DEF RevokeMinted, SetupInv, UndoInv, FoundInv, HostFile
    <3> QED BY <1>22, <2>2, <3>1 DEF RevokeMinted, Strays
  <2> QED BY <2>1, <2>2
<1>23. CASE RevokeMintedFails
  BY <1>23 DEF RevokeMintedFails, End, Lost, Strays
<1>24. CASE Upgrade
  <2>1. pc = "idle" /\ Strays(host, files) \subseteq orphans
    BY <1>24 DEF Upgrade, SetupInv, MachineInv, Rooted
  <2> QED BY <1>24, <2>1 DEF Upgrade
<1> QED BY <1>1, <1>2, <1>3, <1>4, <1>5, <1>6, <1>7, <1>8, <1>9, <1>10, <1>11, <1>12, <1>13, <1>14,
     <1>15, <1>16, <1>17, <1>18, <1>19, <1>20, <1>21, <1>22, <1>23, <1>24 DEF Setups

LEMMA SetupsKeepTokens == SetupInv /\ Setups => (pc' \in Applying \union Undoing => \A t \in live' : t.tok = commands' =>
                  t \in unreceived' \/ (t.inst = was'.files.identity.inst /\ t.dest \in minted'))
<1> SUFFICES ASSUME SetupInv, Setups PROVE (pc' \in Applying \union Undoing => \A t \in live' : t.tok = commands' =>
                  t \in unreceived' \/ (t.inst = was'.files.identity.inst /\ t.dest \in minted'))
  OBVIOUS
<1>typ. TypeOK /\ PhaseInv
  BY DEF SetupInv
<1> USE DEF Tokens, machine, command, history
<1>tok. pc \in Applying \union Undoing => \A t \in live : t.tok = commands =>
           t \in unreceived \/ (t.inst = was.files.identity.inst /\ t.dest \in minted)
  BY DEF SetupInv, FoundInv
<1>id. pc \in Applying \union Undoing => files.identity.inst = was.files.identity.inst
  BY SetupHasIdentity
<1>num. commands \in Nat /\ \A t \in live : t.tok \in Nat /\ t.tok <= commands
  BY <1>typ, NumbersAreNat DEF PhaseInv
<1>1. CASE Setup
  BY <1>1, <1>tok, <1>id, <1>num DEF Setup, Begin, MaySetUp
<1>2. CASE Probe
  BY <1>2, <1>tok, <1>id, <1>num DEF Probe, Goto
<1>3. CASE ProbeFails
  BY <1>3, <1>tok, <1>id, <1>num DEF ProbeFails, End
<1>4. ASSUME NEW d \in Dest, Enroll(d) PROVE (pc' \in Applying \union Undoing => \A t \in live' : t.tok = commands' =>
                  t \in unreceived' \/ (t.inst = was'.files.identity.inst /\ t.dest \in minted'))
  BY <1>4, <1>tok, <1>id, <1>num DEF Enroll, Goto, Others, Minted
<1>5. ASSUME NEW d \in Dest, EnrollFails(d) PROVE (pc' \in Applying \union Undoing => \A t \in live' : t.tok = commands' =>
                  t \in unreceived' \/ (t.inst = was'.files.identity.inst /\ t.dest \in minted'))
  BY <1>5, <1>tok, <1>id, <1>num DEF EnrollFails, Goto, Others, Minted
<1>6. CASE ApplyState
  BY <1>6, <1>tok, <1>id, <1>num DEF ApplyState, Goto
<1>7. CASE ApplyStateFails
  BY <1>7, <1>tok, <1>id, <1>num DEF ApplyStateFails, Goto
<1>8. CASE SetupRuntime
  BY <1>8, <1>tok, <1>id, <1>num DEF SetupRuntime, Goto
<1>9. CASE SetupRuntimeRefused
  BY <1>9, <1>tok, <1>id, <1>num DEF SetupRuntimeRefused, Goto
<1>10. CASE SetupRuntimeFails
  BY <1>10, <1>tok, <1>id, <1>num DEF SetupRuntimeFails, Goto
<1>11. CASE ApplyNative
  BY <1>11, <1>tok, <1>id, <1>num DEF ApplyNative, Goto
<1>12. CASE ApplyNativeFails
  BY <1>12, <1>tok, <1>id, <1>num DEF ApplyNativeFails, Goto
<1>13. CASE ApplyHooks
  BY <1>13, <1>tok, <1>id, <1>num DEF ApplyHooks, Goto
<1>14. CASE Verify
  BY <1>14, <1>tok, <1>id, <1>num DEF Verify, End
<1>15. CASE VerifyFails
  BY <1>15, <1>tok, <1>id, <1>num DEF VerifyFails, Goto
<1>16. CASE UndoHost
  BY <1>16, <1>tok, <1>id, <1>num DEF UndoHost, Goto
<1>17. CASE UndoHostFails
  BY <1>17, <1>tok, <1>id, <1>num DEF UndoHostFails, Goto
<1>18. CASE UndoState
  BY <1>18, <1>tok, <1>id, <1>num DEF UndoState, Goto
<1>19. CASE UndoStateFails
  BY <1>19, <1>tok, <1>id, <1>num DEF UndoStateFails, Goto
<1>20. CASE CompensateLifecycle
  BY <1>20, <1>tok, <1>id, <1>num DEF CompensateLifecycle, Goto
<1>21. CASE CompensateLifecycleFails
  BY <1>21, <1>tok, <1>id, <1>num DEF CompensateLifecycleFails, Goto
<1>22. CASE RevokeMinted
  BY <1>22, <1>tok, <1>id, <1>num DEF RevokeMinted, End
<1>23. CASE RevokeMintedFails
  BY <1>23, <1>tok, <1>id, <1>num DEF RevokeMintedFails, End
<1>24. CASE Upgrade
  BY <1>24, <1>tok, <1>id, <1>num DEF Upgrade
<1> QED BY <1>1, <1>2, <1>3, <1>4, <1>5, <1>6, <1>7, <1>8, <1>9, <1>10, <1>11, <1>12, <1>13, <1>14,
     <1>15, <1>16, <1>17, <1>18, <1>19, <1>20, <1>21, <1>22, <1>23, <1>24 DEF Setups

(* A setup under way remembers what it found.                              *)
SetupGoesOn ==
    /\ pc \in Applying \union Undoing
    /\ UNCHANGED <<was, wants, op, commands, orphans, receipt, shipped>> /\ (torn => torn')

LEMMA SetupsGoOn == SetupInv /\ Setups => Setup \/ pc' = "idle" \/ SetupGoesOn
<1> SUFFICES ASSUME SetupInv, Setups PROVE Setup \/ pc' = "idle" \/ SetupGoesOn
  OBVIOUS
<1>typ. TypeOK /\ PhaseInv
  BY DEF SetupInv
<1> USE DEF Tokens, machine, command, history
<1>1. CASE Setup
  BY <1>1 DEF Setup, Begin, SetupGoesOn
<1>2. CASE Probe
  BY <1>2 DEF Probe, Goto, SetupGoesOn
<1>3. CASE ProbeFails
  BY <1>3 DEF ProbeFails, End, SetupGoesOn
<1>4. ASSUME NEW d \in Dest, Enroll(d) PROVE Setup \/ pc' = "idle" \/ SetupGoesOn
  BY <1>4 DEF Enroll, Goto, SetupGoesOn
<1>5. ASSUME NEW d \in Dest, EnrollFails(d) PROVE Setup \/ pc' = "idle" \/ SetupGoesOn
  BY <1>5 DEF EnrollFails, Goto, SetupGoesOn
<1>6. CASE ApplyState
  BY <1>6 DEF ApplyState, Goto, SetupGoesOn
<1>7. CASE ApplyStateFails
  BY <1>7 DEF ApplyStateFails, Goto, SetupGoesOn
<1>8. CASE SetupRuntime
  BY <1>8 DEF SetupRuntime, Goto, SetupGoesOn
<1>9. CASE SetupRuntimeRefused
  BY <1>9 DEF SetupRuntimeRefused, Goto, SetupGoesOn
<1>10. CASE SetupRuntimeFails
  BY <1>10 DEF SetupRuntimeFails, Goto, SetupGoesOn
<1>11. CASE ApplyNative
  BY <1>11 DEF ApplyNative, Goto, SetupGoesOn
<1>12. CASE ApplyNativeFails
  BY <1>12 DEF ApplyNativeFails, Goto, SetupGoesOn
<1>13. CASE ApplyHooks
  BY <1>13 DEF ApplyHooks, Goto, SetupGoesOn
<1>14. CASE Verify
  BY <1>14 DEF Verify, End, SetupGoesOn
<1>15. CASE VerifyFails
  BY <1>15 DEF VerifyFails, Goto, SetupGoesOn
<1>16. CASE UndoHost
  BY <1>16 DEF UndoHost, Goto, SetupGoesOn
<1>17. CASE UndoHostFails
  BY <1>17 DEF UndoHostFails, Goto, SetupGoesOn
<1>18. CASE UndoState
  BY <1>18 DEF UndoState, Goto, SetupGoesOn
<1>19. CASE UndoStateFails
  BY <1>19 DEF UndoStateFails, Goto, SetupGoesOn
<1>20. CASE CompensateLifecycle
  BY <1>20 DEF CompensateLifecycle, Goto, SetupGoesOn
<1>21. CASE CompensateLifecycleFails
  BY <1>21 DEF CompensateLifecycleFails, Goto, SetupGoesOn
<1>22. CASE RevokeMinted
  BY <1>22 DEF RevokeMinted, End, SetupGoesOn
<1>23. CASE RevokeMintedFails
  BY <1>23 DEF RevokeMintedFails, End, SetupGoesOn
<1>24. CASE Upgrade
  BY <1>24 DEF Upgrade, SetupGoesOn
<1> QED BY <1>1, <1>2, <1>3, <1>4, <1>5, <1>6, <1>7, <1>8, <1>9, <1>10, <1>11, <1>12, <1>13, <1>14,
     <1>15, <1>16, <1>17, <1>18, <1>19, <1>20, <1>21, <1>22, <1>23, <1>24 DEF Setups

LEMMA TargetStays == UNCHANGED <<was, wants, commands, creds>> => Target' = Target
BY DEF Target

LEMMA SetupsKeepTarget == SetupInv /\ Setups => (pc' \in (Applying \union Undoing) \ {"probe", "enroll"} => Target' = Target)
<1> SUFFICES ASSUME SetupInv, Setups PROVE (pc' \in (Applying \union Undoing) \ {"probe", "enroll"} => Target' = Target)
  OBVIOUS
<1>typ. TypeOK /\ PhaseInv
  BY DEF SetupInv
<1> USE DEF Tokens, machine, command, history
<1>1. CASE Setup
  BY <1>1, TargetStays DEF Setup, Begin
<1>2. CASE Probe
  BY <1>2, TargetStays DEF Probe, Goto
<1>3. CASE ProbeFails
  BY <1>3, TargetStays DEF ProbeFails, End
<1>4. ASSUME NEW d \in Dest, Enroll(d) PROVE (pc' \in (Applying \union Undoing) \ {"probe", "enroll"} => Target' = Target)
  BY <1>4, TargetStays DEF Enroll, Goto
<1>5. ASSUME NEW d \in Dest, EnrollFails(d) PROVE (pc' \in (Applying \union Undoing) \ {"probe", "enroll"} => Target' = Target)
  BY <1>5, TargetStays DEF EnrollFails, Goto
<1>6. CASE ApplyState
  BY <1>6, TargetStays DEF ApplyState, Goto
<1>7. CASE ApplyStateFails
  BY <1>7, TargetStays DEF ApplyStateFails, Goto
<1>8. CASE SetupRuntime
  BY <1>8, TargetStays DEF SetupRuntime, Goto
<1>9. CASE SetupRuntimeRefused
  BY <1>9, TargetStays DEF SetupRuntimeRefused, Goto
<1>10. CASE SetupRuntimeFails
  BY <1>10, TargetStays DEF SetupRuntimeFails, Goto
<1>11. CASE ApplyNative
  BY <1>11, TargetStays DEF ApplyNative, Goto
<1>12. CASE ApplyNativeFails
  BY <1>12, TargetStays DEF ApplyNativeFails, Goto
<1>13. CASE ApplyHooks
  BY <1>13, TargetStays DEF ApplyHooks, Goto
<1>14. CASE Verify
  BY <1>14, TargetStays DEF Verify, End
<1>15. CASE VerifyFails
  BY <1>15, TargetStays DEF VerifyFails, Goto
<1>16. CASE UndoHost
  BY <1>16, TargetStays DEF UndoHost, Goto
<1>17. CASE UndoHostFails
  BY <1>17, TargetStays DEF UndoHostFails, Goto
<1>18. CASE UndoState
  BY <1>18, TargetStays DEF UndoState, Goto
<1>19. CASE UndoStateFails
  BY <1>19, TargetStays DEF UndoStateFails, Goto
<1>20. CASE CompensateLifecycle
  BY <1>20, TargetStays DEF CompensateLifecycle, Goto
<1>21. CASE CompensateLifecycleFails
  BY <1>21, TargetStays DEF CompensateLifecycleFails, Goto
<1>22. CASE RevokeMinted
  BY <1>22, TargetStays DEF RevokeMinted, End
<1>23. CASE RevokeMintedFails
  BY <1>23, TargetStays DEF RevokeMintedFails, End
<1>24. CASE Upgrade
  BY <1>24, TargetStays DEF Upgrade
<1> QED BY <1>1, <1>2, <1>3, <1>4, <1>5, <1>6, <1>7, <1>8, <1>9, <1>10, <1>11, <1>12, <1>13, <1>14,
     <1>15, <1>16, <1>17, <1>18, <1>19, <1>20, <1>21, <1>22, <1>23, <1>24 DEF Setups

LEMMA SetupsKeepApply == SetupInv /\ Setups => ApplyInv'
<1> SUFFICES ASSUME SetupInv, Setups PROVE ApplyInv'
  OBVIOUS
<1>typ. TypeOK /\ PhaseInv
  BY DEF SetupInv
<1> USE DEF Tokens, machine, command, history
<1>app. ApplyInv
  BY DEF SetupInv
<1>tgt. pc' \in (Applying \union Undoing) \ {"probe", "enroll"} => Target' = Target
  BY SetupsKeepTarget
<1>1. CASE Setup
  <2>1. was'.files = files' /\ was'.host = host' /\ was'.service = service'
    BY <1>1 DEF Setup, Found
  <2> QED BY <1>1, <2>1 DEF Setup, Begin, ApplyInv
<1>2. CASE Probe
  BY <1>2, <1>app, <1>tgt DEF Probe, Goto, ApplyInv
<1>3. CASE ProbeFails
  BY <1>3, <1>app, <1>tgt DEF ProbeFails, End, ApplyInv
<1>4. ASSUME NEW d \in Dest, Enroll(d) PROVE ApplyInv'
  BY <1>4, <1>app, <1>tgt DEF Enroll, Goto, ApplyInv
<1>5. ASSUME NEW d \in Dest, EnrollFails(d) PROVE ApplyInv'
  BY <1>5, <1>app, <1>tgt DEF EnrollFails, Goto, ApplyInv
<1>6. CASE ApplyState
  <2>1. files' = Target
    BY <1>6, SetupHasIdentity DEF ApplyState
  <2> QED BY <1>6, <1>app, <1>tgt, <2>1 DEF ApplyState, Goto, ApplyInv
<1>7. CASE ApplyStateFails
  BY <1>7, <1>app, <1>tgt DEF ApplyStateFails, Goto, ApplyInv
<1>8. CASE SetupRuntime
  BY <1>8, <1>app, <1>tgt DEF SetupRuntime, Goto, ApplyInv
<1>9. CASE SetupRuntimeRefused
  BY <1>9, <1>app, <1>tgt DEF SetupRuntimeRefused, Goto, ApplyInv
<1>10. CASE SetupRuntimeFails
  BY <1>10, <1>app, <1>tgt DEF SetupRuntimeFails, Goto, ApplyInv
<1>11. CASE ApplyNative
  <2>1. /\ host'["claude"] = Target.identity.inst /\ host'["codex"] = Target.identity.inst
        /\ host'["hooks"] = was.host["hooks"]
    BY <1>11, <1>app, InstalledIsBound DEF ApplyNative, ApplyInv
  <2>2. /\ files = Target /\ applied = {"state", "service"} /\ service = [st |-> "running", rt |-> shipped]
        /\ was.service.st # "partial" /\ host = was.host
    BY <1>11, <1>app DEF ApplyNative, ApplyInv
  <2>3. \A r \in Repo : host'[r] = Target.identity.bind[r] \/ (r \in orphans /\ Target.identity.bind[r] = 0)
    <3>1. Strays(was.host, was.files) \subseteq orphans
      BY <1>11 DEF ApplyNative, SetupInv, FoundInv
    <3>2. \A r \in Repo : r \notin Listed(Target.identity) => Target.identity.bind[r] = 0
      BY <1>typ, TargetIsFiles DEF Listed
    <3>3. \A r \in Repo \ orphans : r \notin Listed(was.files.identity) => host[r] = 0
      <4>1. \A r \in Repo : r \notin Listed(was.files.identity) => was.files.identity.bind[r] = 0
        BY <1>typ, UnlistedIsUnbound
      <4> QED BY <3>1, <2>2, <4>1 DEF Strays
    <3> QED BY <1>11, <3>2, <3>3, InstalledIsBound DEF ApplyNative
  <2>4. /\ pc' = "hooks" /\ applied' = {"state", "service", "native"}
        /\ UNCHANGED <<files, service, shipped, was, orphans>>
    BY <1>11, <2>2 DEF ApplyNative, Goto
  <2> QED BY <1>tgt, <2>1, <2>2, <2>3, <2>4 DEF ApplyInv, Native
<1>12. CASE ApplyNativeFails
  BY <1>12, <1>app, <1>tgt DEF ApplyNativeFails, Goto, ApplyInv
<1>13. CASE ApplyHooks
  <2>1. \A f \in HostFile \ {"hooks"} : host'[f] = host[f]
    BY <1>13, <1>typ DEF ApplyHooks, TypeOK, Hosts
  <2>2. "hooks" \notin Native /\ "hooks" \notin Repo /\ Native \subseteq HostFile /\ Repo \subseteq HostFile
    BY SetupAssumption DEF Native, HostFile
  <2>3. "hooks" \in applied' \/ host'["hooks"] = was.host["hooks"]
    BY <1>13, <1>app DEF ApplyHooks, ApplyInv
  <2>4. /\ pc = "hooks" /\ pc' = "verify" /\ applied \subseteq applied'
        /\ UNCHANGED <<files, service, shipped, was, orphans>>
    BY <1>13 DEF ApplyHooks, Goto
  <2>5. /\ files = Target /\ {"state", "service", "native"} \subseteq applied
        /\ service = [st |-> "running", rt |-> shipped] /\ was.service.st # "partial"
        /\ \A f \in Native : host[f] = files.identity.inst
        /\ \A r \in Repo : host[r] = files.identity.bind[r] \/ (r \in orphans /\ files.identity.bind[r] = 0)
    BY <1>app, <2>4 DEF ApplyInv
  <2> QED BY <1>tgt, <2>1, <2>2, <2>3, <2>4, <2>5 DEF ApplyInv
<1>14. CASE Verify
  BY <1>14, <1>app, <1>tgt DEF Verify, End, ApplyInv
<1>15. CASE VerifyFails
  BY <1>15, <1>app, <1>tgt DEF VerifyFails, Goto, ApplyInv
<1>16. CASE UndoHost
  BY <1>16, <1>app, <1>tgt DEF UndoHost, Goto, ApplyInv
<1>17. CASE UndoHostFails
  BY <1>17, <1>app, <1>tgt DEF UndoHostFails, Goto, ApplyInv
<1>18. CASE UndoState
  BY <1>18, <1>app, <1>tgt DEF UndoState, Goto, ApplyInv
<1>19. CASE UndoStateFails
  BY <1>19, <1>app, <1>tgt DEF UndoStateFails, Goto, ApplyInv
<1>20. CASE CompensateLifecycle
  BY <1>20, <1>app, <1>tgt DEF CompensateLifecycle, Goto, ApplyInv
<1>21. CASE CompensateLifecycleFails
  BY <1>21, <1>app, <1>tgt DEF CompensateLifecycleFails, Goto, ApplyInv
<1>22. CASE RevokeMinted
  BY <1>22, <1>app, <1>tgt DEF RevokeMinted, End, ApplyInv
<1>23. CASE RevokeMintedFails
  BY <1>23, <1>app, <1>tgt DEF RevokeMintedFails, End, ApplyInv
<1>24. CASE Upgrade
  BY <1>24, <1>app, <1>tgt DEF Upgrade, ApplyInv
<1> QED BY <1>1, <1>2, <1>3, <1>4, <1>5, <1>6, <1>7, <1>8, <1>9, <1>10, <1>11, <1>12, <1>13, <1>14,
     <1>15, <1>16, <1>17, <1>18, <1>19, <1>20, <1>21, <1>22, <1>23, <1>24 DEF Setups

(* The settings of the checkouts, while a setup writes the state files     *)
(* before them and takes them back before these.                           *)
LEMMA SetupsKeepCheckouts == SetupInv /\ Setups => CheckoutRoute'
<1> SUFFICES ASSUME SetupInv, Setups PROVE CheckoutRoute'
  OBVIOUS
<1>typ. TypeOK /\ PhaseInv
  BY DEF SetupInv
<1> USE DEF Tokens, machine, command, history
<1>route. CheckoutRoute
  BY DEF SetupInv, MachineInv
<1>run. pc \in Applying \union Undoing /\ "service" \in applied /\ pc # "u_revoke" => service.st = "running"
  BY DEF SetupInv, ApplyInv
<1>bind. Target.relay.bind = Target.identity.bind
  BY <1>typ, TargetIsFiles
<1>was. pc \in Applying \union Undoing /\ ~torn =>
          \A r \in Repo \ orphans : was.host[r] # 0 => was.service.st = "running" /\ was.host[r] = was.files.relay.bind[r]
  BY DEF SetupInv, FoundInv, Bound
<1>ser. service \in Service /\ was.service \in Service /\ (hidden \/ bad => torn)
  BY <1>typ, FilesAreTyped DEF TypeOK, PhaseInv
<1>1. CASE Setup
  <2>1. files'.relay = files.relay
    BY <1>typ, <1>1 DEF Setup, TypeOK, Files
  <2> QED BY <1>1, <1>route, <2>1 DEF Setup, Begin, CheckoutRoute, Rebinding
<1>2. CASE Probe
  BY <1>2, <1>route DEF Probe, Goto, CheckoutRoute, Rebinding
<1>3. CASE ProbeFails
  BY <1>3, <1>route DEF ProbeFails, End, CheckoutRoute, Rebinding
<1>4. ASSUME NEW d \in Dest, Enroll(d) PROVE CheckoutRoute'
  BY <1>4, <1>route DEF Enroll, Goto, CheckoutRoute, Rebinding
<1>5. ASSUME NEW d \in Dest, EnrollFails(d) PROVE CheckoutRoute'
  BY <1>5, <1>route DEF EnrollFails, Goto, CheckoutRoute, Rebinding
<1>6. CASE ApplyState
  <2>1. files = was.files
    BY <1>6 DEF ApplyState, SetupInv, ApplyInv
  <2> QED BY <1>6, <1>route, <2>1 DEF ApplyState, Goto, CheckoutRoute, Rebinding
<1>7. CASE ApplyStateFails
  <2>1. files = was.files
    BY <1>7 DEF ApplyStateFails, SetupInv, ApplyInv
  <2> QED BY <1>7, <1>route, <2>1 DEF ApplyStateFails, Goto, CheckoutRoute, Rebinding
<1>8. CASE SetupRuntime
  BY <1>8, <1>route DEF SetupRuntime, Goto, CheckoutRoute, Rebinding
<1>9. CASE SetupRuntimeRefused
  BY <1>9, <1>route DEF SetupRuntimeRefused, Goto, CheckoutRoute, Rebinding
<1>10. CASE SetupRuntimeFails
  BY <1>10, <1>route DEF SetupRuntimeFails, Goto, CheckoutRoute, Rebinding
<1>11. CASE ApplyNative
  <2>1. /\ files = Target /\ "service" \in applied /\ ApplyInv'
    BY <1>11, SetupsKeepApply DEF ApplyNative, SetupInv, ApplyInv, Setups
  <2>2. \A r \in Repo \ orphans' : host'[r] = files'.identity.bind[r]
    BY <1>11, <2>1 DEF ApplyNative, Goto, ApplyInv
  <2> QED BY <1>11, <1>run, <1>bind, <2>1, <2>2 DEF ApplyNative, CheckoutRoute
<1>12. CASE ApplyNativeFails
  <2>1. \A r \in Repo : Partly({}, InstalledHost)[r] = host[r]
    BY PartlyIsEither DEF HostFile
  <2> QED BY <1>12, <1>route, <2>1 DEF ApplyNativeFails, Goto, CheckoutRoute, Rebinding
<1>13. CASE ApplyHooks
  <2>1. \A r \in Repo : host'[r] = host[r]
    BY <1>13, <1>typ, SetupAssumption DEF ApplyHooks, TypeOK, Hosts, HostFile
  <2> QED BY <1>13, <1>route, <2>1 DEF ApplyHooks, Goto, CheckoutRoute, Rebinding
<1>14. CASE Verify
  <2>1. /\ files = Target
        /\ \A r \in Repo \ (orphans \intersect Lost) : host[r] # 0 => host[r] = files.identity.bind[r]
    BY <1>14 DEF Verify, SetupInv, ApplyInv, Lost
  <2> QED BY <1>14, <1>bind, <2>1 DEF Verify, Healthy, StillOrphans, CheckoutRoute
<1>15. CASE VerifyFails
  BY <1>15, <1>route DEF VerifyFails, Goto, CheckoutRoute, Rebinding
<1>16. CASE UndoHost
  <2>1. \A r \in Repo : HostBefore[r] = IF "native" \in applied THEN was.host[r] ELSE host[r]
    BY SetupAssumption DEF HostBefore, HostFile
  <2>2. "native" \in applied => service.st = "running"
    BY <1>16, <1>run DEF UndoHost, SetupInv, UndoInv
  <2> QED BY <1>16, <1>route, <1>was, <2>1, <2>2 DEF UndoHost, Goto, CheckoutRoute, Rebinding
<1>17. CASE UndoHostFails
  BY <1>17, <1>route DEF UndoHostFails, Goto, CheckoutRoute, Rebinding
<1>18. CASE UndoState
  <2>1. ~torn => \A r \in Repo : host[r] = was.host[r]
    BY <1>18, <1>ser DEF UndoState, SetupInv, UndoInv, HostFile
  <2>2. ~torn => files' = was.files
    BY <1>18, <1>ser DEF UndoState, SetupInv, UndoInv
  <2> QED BY <1>18, <1>route, <1>was, <2>1, <2>2 DEF UndoState, CheckoutRoute
<1>19. CASE UndoStateFails
  BY <1>19, <1>route DEF UndoStateFails, Goto, CheckoutRoute, Rebinding
<1>20. CASE CompensateLifecycle
  <2>1. ~torn => \A r \in Repo : host[r] = was.host[r]
    BY <1>20, <1>ser DEF CompensateLifecycle, SetupInv, UndoInv, HostFile
  <2>2. "service" \in applied /\ was.service.st = "running" => service'.st = "running"
    BY <1>20, <1>ser DEF CompensateLifecycle, Compensated, Service
  <2> QED BY <1>20, <1>route, <1>was, <2>1, <2>2 DEF CompensateLifecycle, Goto, CheckoutRoute, Rebinding
<1>21. CASE CompensateLifecycleFails
  BY <1>21, <1>route DEF CompensateLifecycleFails, Goto, CheckoutRoute, Rebinding
<1>22. CASE RevokeMinted
  BY <1>22, <1>route, <1>ser DEF RevokeMinted, End, CheckoutRoute, Rebinding
<1>23. CASE RevokeMintedFails
  BY <1>23, <1>route DEF RevokeMintedFails, End, CheckoutRoute, Rebinding
<1>24. CASE Upgrade
  BY <1>24, <1>route DEF Upgrade, CheckoutRoute, Rebinding
<1> QED BY <1>1, <1>2, <1>3, <1>4, <1>5, <1>6, <1>7, <1>8, <1>9, <1>10, <1>11, <1>12, <1>13, <1>14,
     <1>15, <1>16, <1>17, <1>18, <1>19, <1>20, <1>21, <1>22, <1>23, <1>24 DEF Setups

LEMMA SetupsKeepMachine == SetupInv /\ Setups => MachineInv'
<1> SUFFICES ASSUME SetupInv, Setups PROVE MachineInv'
  OBVIOUS
<1>1. files'.identity.inst # 0
  BY SetupsKeepIdentity
<1>2. ~torn' => Coherent(files')
  BY SetupsKeepCoherent
<1>3. ~torn' => service'.st # "torn"
  BY SetupsKeepService
<1>4. NativeRoute' /\ CheckoutRoute'
  BY SetupsKeepRoute, SetupsKeepCheckouts
<1>5. pc' \notin Applying \union Undoing => Strays(host', files') \subseteq orphans'
  BY SetupsKeepStrays
<1> QED BY <1>1, <1>2, <1>3, <1>4, <1>5 DEF MachineInv, Rooted

LEMMA SetupFinds == SetupInv /\ Setup => FoundInv'
<1> SUFFICES ASSUME SetupInv, Setup PROVE FoundInv'
  OBVIOUS
<1>typ. TypeOK /\ PhaseInv /\ MachineInv
  BY DEF SetupInv
<1>act. /\ MaySetUp /\ pc = "idle" /\ was' = [Found EXCEPT !.files = files']
        /\ UNCHANGED <<host, service, torn, orphans>>
  BY DEF Setup, Begin
<1>was. was'.files = files' /\ was'.host = host /\ was'.service = service
  BY <1>act DEF Found
<1>1. files'.identity.inst # 0
  BY SetupsKeepIdentity DEF Setups
<1>2. Coherent(files')
  <2>1. files \in Files
    BY <1>typ DEF TypeOK
  <2>2. CASE files.identity.inst = 0
    <3>1. files'.relay = files.relay /\ files'.ingress = files.ingress
      BY <2>1, <2>2 DEF Setup, Files
    <3> QED BY <3>1, <2>2, <1>act DEF Coherent, MaySetUp
  <2>3. CASE files.identity.inst # 0
    BY <2>3, <1>act DEF Setup, MaySetUp, Coherent
  <2> QED BY <2>2, <2>3
<1>3. ~torn' => Routed(was'.host, was'.files, was'.service) /\ Bound(was'.host, was'.files, was'.service, orphans')
  <2>1. NativeRoute' /\ CheckoutRoute' /\ ~Rebinding'
    BY SetupsKeepRoute, SetupsKeepCheckouts DEF Setups, Setup, Begin, Rebinding
  <2> QED BY <2>1, <1>was, <1>act DEF NativeRoute, CheckoutRoute, Routed, Bound
<1>4. Strays(was'.host, was'.files) \subseteq orphans'
  <2>1. Strays(host, files) \subseteq orphans
    BY <1>typ, <1>act DEF MachineInv, Rooted
  <2>2. files.identity.inst = 0 => \A r \in Repo : files.identity.bind[r] = 0
    BY <1>typ, <1>act DEF MachineInv, Rooted, NoFiles, NoIdentity, MaySetUp
  <2>3. files.identity.inst # 0 => files' = files
    BY DEF Setup
  <2> QED BY <2>1, <2>2, <2>3, <1>was, <1>act DEF Strays
<1>5. \A t \in live' : t.tok # commands'
  <2>1. live' = live /\ commands' = commands + 1 /\ commands \in Nat /\ \A t \in live : t.tok \in Nat /\ t.tok <= commands
    BY <1>typ, NumbersAreNat, <1>act DEF Setup, Begin, MaySetUp, PhaseInv
  <2> QED BY <2>1
<1>6. was'.service.st # "torn" /\ (was'.service.st = "absent" => was'.service = NoService)
  BY <1>was, <1>act, <1>typ DEF MaySetUp, PhaseInv
<1> QED BY <1>was, <1>1, <1>2, <1>3, <1>4, <1>5, <1>6 DEF FoundInv

LEMMA SetupsKeepFound == SetupInv /\ Setups => FoundInv'
<1> SUFFICES ASSUME SetupInv, Setups PROVE FoundInv'
  OBVIOUS
<1>1. CASE Setup
  BY <1>1, SetupFinds
<1>2. CASE pc' = "idle"
  BY <1>2 DEF FoundInv
<1>3. CASE SetupGoesOn
  <2>1. files'.identity.inst = files.identity.inst
    BY <1>3, SetupsKeepIdentity DEF SetupGoesOn
  <2>2. FoundInv
    BY DEF SetupInv
  <2> QED BY <1>3, <2>1, <2>2, SetupsKeepTokens DEF SetupGoesOn, FoundInv
<1> QED BY <1>1, <1>2, <1>3, SetupsGoOn

LEMMA SetupsKeepUndo == SetupInv /\ Setups => UndoInv'
<1> SUFFICES ASSUME SetupInv, Setups PROVE UndoInv'
  OBVIOUS
<1>typ. TypeOK /\ PhaseInv
  BY DEF SetupInv
<1> USE DEF Tokens, machine, command, history
<1>app. ApplyInv
  BY DEF SetupInv
<1>undo. UndoInv
  BY DEF SetupInv
<1>tgt. pc' \in (Applying \union Undoing) \ {"probe", "enroll"} => Target' = Target
  BY SetupsKeepTarget
<1>1. CASE Setup
  BY <1>1, <1>app, <1>undo, <1>tgt DEF Setup, Begin, ApplyInv, UndoInv
<1>2. CASE Probe
  BY <1>2, <1>app, <1>undo, <1>tgt DEF Probe, Goto, ApplyInv, UndoInv
<1>3. CASE ProbeFails
  BY <1>3, <1>app, <1>undo, <1>tgt DEF ProbeFails, End, ApplyInv, UndoInv
<1>4. ASSUME NEW d \in Dest, Enroll(d) PROVE UndoInv'
  BY <1>4, <1>app, <1>undo, <1>tgt DEF Enroll, Goto, ApplyInv, UndoInv
<1>5. ASSUME NEW d \in Dest, EnrollFails(d) PROVE UndoInv'
  BY <1>5, <1>app, <1>undo, <1>tgt DEF EnrollFails, Goto, ApplyInv, UndoInv
<1>6. CASE ApplyState
  BY <1>6, <1>app, <1>undo, <1>tgt DEF ApplyState, Goto, ApplyInv, UndoInv
<1>7. CASE ApplyStateFails
  BY <1>7, <1>app, <1>undo, <1>tgt DEF ApplyStateFails, Goto, ApplyInv, UndoInv
<1>8. CASE SetupRuntime
  BY <1>8, <1>app, <1>undo, <1>tgt DEF SetupRuntime, Goto, ApplyInv, UndoInv
<1>9. CASE SetupRuntimeRefused
  BY <1>9, <1>app, <1>undo, <1>tgt DEF SetupRuntimeRefused, Goto, ApplyInv, UndoInv
<1>10. CASE SetupRuntimeFails
  BY <1>10, <1>app, <1>undo, <1>tgt DEF SetupRuntimeFails, Goto, ApplyInv, UndoInv
<1>11. CASE ApplyNative
  BY <1>11, <1>app, <1>undo, <1>tgt DEF ApplyNative, Goto, ApplyInv, UndoInv
<1>12. CASE ApplyNativeFails
  <2>1. \A f \in HostFile : Partly({}, InstalledHost)[f] = host[f]
    BY DEF Partly
  <2>2. hidden' \/ \A f \in HostFile : host'[f] = host[f]
    BY <1>12, <2>1 DEF ApplyNativeFails
  <2> QED BY <1>12, <1>app, <1>tgt, <2>2 DEF ApplyNativeFails, Goto, UndoInv, ApplyInv
<1>13. CASE ApplyHooks
  BY <1>13, <1>app, <1>undo, <1>tgt DEF ApplyHooks, Goto, ApplyInv, UndoInv
<1>14. CASE Verify
  BY <1>14, <1>app, <1>undo, <1>tgt DEF Verify, End, ApplyInv, UndoInv
<1>15. CASE VerifyFails
  BY <1>15, <1>app, <1>undo, <1>tgt DEF VerifyFails, Goto, ApplyInv, UndoInv
<1>16. CASE UndoHost
  <2>1. \A f \in HostFile : HostBefore[f] = IF (IF f = "hooks" THEN "hooks" ELSE "native") \in applied
                                           THEN was.host[f] ELSE host[f]
    BY DEF HostBefore
  <2> QED BY <1>16, <1>undo, <1>tgt, <2>1 DEF UndoHost, Goto, UndoInv
<1>17. CASE UndoHostFails
  BY <1>17, <1>app, <1>undo, <1>tgt DEF UndoHostFails, Goto, ApplyInv, UndoInv
<1>18. CASE UndoState
  BY <1>18, <1>app, <1>undo, <1>tgt DEF UndoState, Goto, ApplyInv, UndoInv
<1>19. CASE UndoStateFails
  BY <1>19, <1>app, <1>undo, <1>tgt DEF UndoStateFails, Goto, ApplyInv, UndoInv
<1>20. CASE CompensateLifecycle
  <2>1. CASE "service" \in applied
    <3>1. /\ was.service \in Service /\ was.service.st \notin {"torn", "partial"}
          /\ (was.service.st = "absent" => was.service = NoService)
          /\ service = [st |-> "running", rt |-> shipped]
      BY <1>20, <2>1, <1>app, <1>typ, FilesAreTyped DEF CompensateLifecycle, SetupInv, FoundInv, ApplyInv
    <3>2. Compensated.st = was.service.st /\ Compensated.rt = was.service.rt
      BY <3>1 DEF Compensated, NoService, Service
    <3> QED BY <1>20, <2>1, <3>2, <1>undo, <1>tgt DEF CompensateLifecycle, Goto, UndoInv
  <2>2. CASE "service" \notin applied
    BY <1>20, <2>2, <1>undo, <1>tgt DEF CompensateLifecycle, Goto, UndoInv
  <2> QED BY <2>1, <2>2
<1>21. CASE CompensateLifecycleFails
  BY <1>21, <1>app, <1>undo, <1>tgt DEF CompensateLifecycleFails, Goto, ApplyInv, UndoInv
<1>22. CASE RevokeMinted
  BY <1>22, <1>app, <1>undo, <1>tgt DEF RevokeMinted, End, ApplyInv, UndoInv
<1>23. CASE RevokeMintedFails
  BY <1>23, <1>app, <1>undo, <1>tgt DEF RevokeMintedFails, End, ApplyInv, UndoInv
<1>24. CASE Upgrade
  BY <1>24, <1>app, <1>undo, <1>tgt DEF Upgrade, ApplyInv, UndoInv
<1> QED BY <1>1, <1>2, <1>3, <1>4, <1>5, <1>6, <1>7, <1>8, <1>9, <1>10, <1>11, <1>12, <1>13, <1>14,
     <1>15, <1>16, <1>17, <1>18, <1>19, <1>20, <1>21, <1>22, <1>23, <1>24 DEF Setups

(* The report of a setup is true.                                          *)
LEMMA VerifyIsTrue == SetupInv /\ Verify => SetUp'
<1> SUFFICES ASSUME SetupInv, Verify PROVE SetUp'
  OBVIOUS
<1>typ. TypeOK /\ PhaseInv /\ ApplyInv
  BY DEF SetupInv
<1>act. /\ pc = "verify" /\ Healthy
        /\ UNCHANGED <<files, host, service, shipped, live, wants>> /\ orphans' = orphans \intersect Lost
  BY DEF Verify, End, machine, StillOrphans
<1>1. /\ files = Target /\ "service" \in applied
      /\ \A f \in Native : host[f] = files.identity.inst
      /\ \A r \in Repo \ orphans' : host[r] = files.identity.bind[r]
      /\ service = [st |-> "running", rt |-> shipped]
  BY <1>typ, <1>act DEF ApplyInv, Lost
<1>2. /\ files.identity.dest = wants
      /\ files.relay.inst = files.identity.inst /\ files.relay.bind = files.identity.bind
      /\ files.ingress = files.identity.inst
  BY <1>typ, <1>1, TargetIsFiles
<1>3. \A d \in Destinations(wants) : Accepts(d, files.relay.tok[d])
  <2>1. Destinations(wants) \subseteq Dest
    BY <1>typ, SetupAssumption DEF Destinations, TypeOK, Policies, Destination
  <2>2. \A d \in Destinations(wants) : files.relay.tok[d] = creds[d]
    BY <1>typ, <1>1, <2>1, TargetIsFiles
  <2> QED BY <1>act, <2>2 DEF Healthy
<1>4. \A d \in Destinations(wants') : Accepts(d, files.relay.tok[d])'
  BY <1>3, <1>act DEF Accepts, Destinations
<1> QED BY <1>act, <1>1, <1>2, <1>4 DEF SetUp

LEMMA RevokeIsTrue == SetupInv /\ RevokeMinted /\ ~bad /\ ~hidden => AsFound'
<1> SUFFICES ASSUME SetupInv, RevokeMinted, ~bad, ~hidden PROVE AsFound'
  OBVIOUS
<1>typ. TypeOK /\ UndoInv /\ FoundInv
  BY DEF SetupInv
<1>act. /\ pc = "u_revoke" /\ UNCHANGED <<files, host, service, was, commands, unreceived>>
        /\ live' = {t \in live : ~(t.inst = files.identity.inst /\ t.dest \in minted)}
  BY DEF RevokeMinted, End
<1>1. /\ files = was.files /\ \A f \in HostFile : host[f] = was.host[f]
      /\ service.st = was.service.st /\ service.rt = was.service.rt
  BY <1>typ, <1>act DEF UndoInv
<1>2. host = was.host
  BY <1>typ, <1>1, FilesAreTyped DEF TypeOK, Hosts
<1>3. \A t \in live' : t.tok = commands => t \in unreceived
  BY <1>typ, <1>act DEF FoundInv
<1> QED BY <1>act, <1>1, <1>2, <1>3 DEF AsFound

LEMMA SetupsReport == SetupInv /\ Setups => ReportsAreTrue'
<1> SUFFICES ASSUME SetupInv, Setups PROVE ReportsAreTrue'
  OBVIOUS
<1>typ. TypeOK /\ PhaseInv
  BY DEF SetupInv
<1> USE DEF Tokens, machine, command, history
<1> USE <1>typ DEF PhaseInv, ReportsAreTrue
<1>1. CASE Setup
  BY <1>1 DEF Setup, Begin
<1>2. CASE Probe
  BY <1>2 DEF Probe, Goto
<1>3. CASE ProbeFails
  BY <1>3 DEF ProbeFails, End
<1>4. ASSUME NEW d \in Dest, Enroll(d) PROVE ReportsAreTrue'
  BY <1>4 DEF Enroll, Goto
<1>5. ASSUME NEW d \in Dest, EnrollFails(d) PROVE ReportsAreTrue'
  BY <1>5 DEF EnrollFails, Goto
<1>6. CASE ApplyState
  BY <1>6 DEF ApplyState, Goto
<1>7. CASE ApplyStateFails
  BY <1>7 DEF ApplyStateFails, Goto
<1>8. CASE SetupRuntime
  BY <1>8 DEF SetupRuntime, Goto
<1>9. CASE SetupRuntimeRefused
  BY <1>9 DEF SetupRuntimeRefused, Goto
<1>10. CASE SetupRuntimeFails
  BY <1>10 DEF SetupRuntimeFails, Goto
<1>11. CASE ApplyNative
  BY <1>11 DEF ApplyNative, Goto
<1>12. CASE ApplyNativeFails
  BY <1>12 DEF ApplyNativeFails, Goto
<1>13. CASE ApplyHooks
  BY <1>13 DEF ApplyHooks, Goto
<1>14. CASE Verify
  <2>1. report' = "done"
    BY <1>14 DEF Verify, End
  <2> QED BY <1>14, <2>1, VerifyIsTrue DEF ReportsAreTrue
<1>15. CASE VerifyFails
  BY <1>15 DEF VerifyFails, Goto
<1>16. CASE UndoHost
  BY <1>16 DEF UndoHost, Goto
<1>17. CASE UndoHostFails
  BY <1>17 DEF UndoHostFails, Goto
<1>18. CASE UndoState
  BY <1>18 DEF UndoState, Goto
<1>19. CASE UndoStateFails
  BY <1>19 DEF UndoStateFails, Goto
<1>20. CASE CompensateLifecycle
  BY <1>20 DEF CompensateLifecycle, Goto
<1>21. CASE CompensateLifecycleFails
  BY <1>21 DEF CompensateLifecycleFails, Goto
<1>22. CASE RevokeMinted
  <2>1. report' = "rollback failed" \/ (~bad /\ report' = "restored")
    BY <1>22 DEF RevokeMinted, End
  <2>2. hidden' = hidden
    BY <1>22 DEF RevokeMinted
  <2> QED BY <1>22, <2>1, <2>2, RevokeIsTrue DEF ReportsAreTrue
<1>23. CASE RevokeMintedFails
  BY <1>23 DEF RevokeMintedFails, End
<1>24. CASE Upgrade
  BY <1>24 DEF Upgrade
<1> QED BY <1>1, <1>2, <1>3, <1>4, <1>5, <1>6, <1>7, <1>8, <1>9, <1>10, <1>11, <1>12, <1>13, <1>14,
     <1>15, <1>16, <1>17, <1>18, <1>19, <1>20, <1>21, <1>22, <1>23, <1>24 DEF Setups

LEMMA SetupsKeepInv == SetupInv /\ Setups => SetupInv'
<1> SUFFICES ASSUME SetupInv, Setups PROVE SetupInv'
  OBVIOUS
<1>typ. TypeOK /\ PhaseInv
  BY DEF SetupInv
<1>1. SetupStep
  BY <1>typ, SetupSteps
<1>2. RemovalInv' /\ CompletingInv'
  BY <1>1 DEF SetupStep, RemovalInv, CompletingInv, ReceiptIsTrue
<1> QED BY <1>typ, <1>2, TypeSetups, PhaseSetups, SetupsKeepMachine, SetupsKeepFound, SetupsKeepApply,
     SetupsKeepUndo,
     SetupsReport DEF SetupInv

--------------------------------------------------------------------------------
(* The machine under a removal.                                            *)

LEMMA PartlyUnhosted ==
    ASSUME NEW id, NEW S
    PROVE  \A f \in HostFile : Partly(S, Unhosted(id))[f] \in {host[f], 0}
<1>1. \A f \in HostFile : Unhosted(id)[f] \in {host[f], 0}
  BY UnhostedIsBare DEF HostFile, Native
<1> QED BY <1>1, PartlyIsEither

LEMMA HostsAreRemoved ==
    ASSUME NEW o \in Removals, RemoveHosts(o)
    PROVE  /\ \A f \in Native : host'[f] = 0
           /\ \A r \in Repo : host'[r] = IF r \in Listed(files.identity) THEN 0 ELSE host[r]
           /\ o # "disable" => host'["hooks"] = 0
<1>1. /\ "hooks" \notin Native /\ "hooks" \notin Repo /\ Native \subseteq HostFile /\ Repo \subseteq HostFile
      /\ Native = {"claude", "codex"}
  BY SetupAssumption DEF Native, HostFile
<1>2. \A f \in HostFile \ {"hooks"} :
        [Unhosted(files.identity) EXCEPT !["hooks"] = host["hooks"]][f] = Unhosted(files.identity)[f]
  BY DEF Unhosted
<1> QED BY <1>1, <1>2, UnhostedIsBare DEF RemoveHosts

LEMMA RemovalKeepsIdentity == SetupInv /\ Removal => (receipt.there \/ files.identity.inst # 0)
<1> SUFFICES ASSUME SetupInv, Removal PROVE (receipt.there \/ files.identity.inst # 0)
  OBVIOUS
<1>typ. TypeOK /\ PhaseInv
  BY DEF SetupInv
<1> USE DEF Tokens, machine, command, history
<1>m. pc # "idle" => receipt.there \/ files.identity.inst # 0
  BY DEF SetupInv, MachineInv, Rooted
<1>1. ASSUME NEW o \in Removals, RemoveHosts(o) PROVE (receipt.there \/ files.identity.inst # 0)
  BY <1>1, <1>m DEF RemoveHosts, Begin, AfterHosts, MayRemove, OwnedLocalState
<1>2. ASSUME NEW o \in Removals, RemoveHostsFails(o) PROVE (receipt.there \/ files.identity.inst # 0)
  BY <1>2, <1>m DEF RemoveHostsFails, Begin, MayRemove, OwnedLocalState
<1>3. CASE Disable
  BY <1>3, <1>m DEF Disable, End
<1>4. CASE StopFails
  BY <1>4, <1>m DEF StopFails, Goto
<1>5. CASE Uninstall
  BY <1>5, <1>m DEF Uninstall, End
<1>6. CASE UninstallFails
  BY <1>6, <1>m DEF UninstallFails, Goto, End
<1>7. CASE Restart
  BY <1>7, <1>m DEF Restart, Goto
<1>8. CASE RestartFails
  BY <1>8, <1>m DEF RestartFails, Goto, End
<1>9. CASE RestoreHosts
  BY <1>9, <1>m DEF RestoreHosts, End
<1>10. CASE RestoreHostsFails
  BY <1>10, <1>m DEF RestoreHostsFails, End
<1> QED BY <1>1, <1>2, <1>3, <1>4, <1>5, <1>6, <1>7, <1>8, <1>9, <1>10 DEF Removal

LEMMA RemovalKeepsTorn == PhaseInv /\ Removal => (torn => torn')
<1> SUFFICES ASSUME PhaseInv, Removal PROVE (torn => torn')
  OBVIOUS
<1> USE DEF Tokens, machine, command, history
<1>1. ASSUME NEW o \in Removals, RemoveHosts(o) PROVE (torn => torn')
  BY <1>1 DEF RemoveHosts, Begin, AfterHosts
<1>2. ASSUME NEW o \in Removals, RemoveHostsFails(o) PROVE (torn => torn')
  BY <1>2 DEF RemoveHostsFails, Begin
<1>3. CASE Disable
  BY <1>3 DEF Disable, End
<1>4. CASE StopFails
  BY <1>4 DEF StopFails, Goto
<1>5. CASE Uninstall
  BY <1>5 DEF Uninstall, End
<1>6. CASE UninstallFails
  BY <1>6 DEF UninstallFails, Goto, End
<1>7. CASE Restart
  BY <1>7 DEF Restart, Goto
<1>8. CASE RestartFails
  <2>1. op \in Removals
    BY <1>8 DEF RestartFails, PhaseInv
  <2> QED BY <1>8, <2>1 DEF RestartFails, Removals
<1>9. CASE RestoreHosts
  BY <1>9 DEF RestoreHosts, End
<1>10. CASE RestoreHostsFails
  BY <1>10 DEF RestoreHostsFails, End
<1> QED BY <1>1, <1>2, <1>3, <1>4, <1>5, <1>6, <1>7, <1>8, <1>9, <1>10 DEF Removal

LEMMA RemovalKeepsService == SetupInv /\ Removal => (~torn' => service'.st # "torn")
<1> SUFFICES ASSUME SetupInv, Removal PROVE (~torn' => service'.st # "torn")
  OBVIOUS
<1>typ. TypeOK /\ PhaseInv
  BY DEF SetupInv
<1> USE DEF Tokens, machine, command, history
<1>ser. service \in Service /\ (~torn => service.st # "torn")
  BY <1>typ DEF TypeOK, SetupInv, MachineInv, Rooted
<1>torn. torn => torn'
  BY <1>typ, RemovalKeepsTorn
<1>1. ASSUME NEW o \in Removals, RemoveHosts(o) PROVE (~torn' => service'.st # "torn")
  BY <1>1, <1>ser, <1>torn DEF RemoveHosts, Begin, AfterHosts
<1>2. ASSUME NEW o \in Removals, RemoveHostsFails(o) PROVE (~torn' => service'.st # "torn")
  BY <1>2, <1>ser, <1>torn DEF RemoveHostsFails, Begin
<1>3. CASE Disable
  BY <1>3, <1>ser, <1>torn DEF Disable, End, Service
<1>4. CASE StopFails
  BY <1>4, <1>ser, <1>torn DEF StopFails, Goto, Service
<1>5. CASE Uninstall
  BY <1>5, <1>ser, <1>torn DEF Uninstall, End, NoService
<1>6. CASE UninstallFails
  BY <1>6, <1>ser, <1>torn DEF UninstallFails, Goto, End, Service
<1>7. CASE Restart
  BY <1>7, <1>ser, <1>torn DEF Restart, Goto, Service
<1>8. CASE RestartFails
  BY <1>8, <1>ser, <1>torn DEF RestartFails, Goto, End, Service
<1>9. CASE RestoreHosts
  BY <1>9, <1>ser, <1>torn DEF RestoreHosts, End
<1>10. CASE RestoreHostsFails
  BY <1>10, <1>ser, <1>torn DEF RestoreHostsFails, End
<1> QED BY <1>1, <1>2, <1>3, <1>4, <1>5, <1>6, <1>7, <1>8, <1>9, <1>10 DEF Removal

LEMMA RemovalKeepsRoute == SetupInv /\ Removal => NativeRoute'
<1> SUFFICES ASSUME SetupInv, Removal PROVE NativeRoute'
  OBVIOUS
<1>typ. TypeOK /\ PhaseInv
  BY DEF SetupInv
<1> USE DEF Tokens, machine, command, history
<1>route. ~torn => \A f \in Native : host[f] # 0 => /\ service.st = "running" /\ host[f] = files.identity.inst
                                                 /\ files.relay.inst = files.identity.inst
  BY DEF SetupInv, MachineInv, Rooted, NativeRoute
<1>rem. pc \in Removing => \A f \in Native : host[f] = 0
  BY DEF SetupInv, RemovalInv
<1>torn. torn => torn'
  BY <1>typ, RemovalKeepsTorn
<1>step. UNCHANGED files
  BY <1>typ, RemovalSteps DEF RemovalStep
<1>1. ASSUME NEW o \in Removals, RemoveHosts(o) PROVE NativeRoute'
  BY <1>1, <1>route, <1>rem, <1>torn, <1>step, HostsAreRemoved DEF RemoveHosts, Begin, AfterHosts,
     NativeRoute
<1>2. ASSUME NEW o \in Removals, RemoveHostsFails(o) PROVE NativeRoute'
  <2>1. \A f \in Native : host'[f] \in {host[f], 0}
    BY <1>2, PartlyUnhosted DEF RemoveHostsFails, HostFile
  <2> QED BY <1>2, <1>route, <1>torn, <2>1 DEF RemoveHostsFails, NativeRoute
<1>3. CASE Disable
  BY <1>3, <1>route, <1>rem, <1>torn, <1>step DEF Disable, End, NativeRoute
<1>4. CASE StopFails
  BY <1>4, <1>route, <1>rem, <1>torn, <1>step DEF StopFails, Goto, NativeRoute
<1>5. CASE Uninstall
  BY <1>5, <1>route, <1>rem, <1>torn, <1>step DEF Uninstall, End, NativeRoute
<1>6. CASE UninstallFails
  BY <1>6, <1>route, <1>rem, <1>torn, <1>step DEF UninstallFails, Goto, End, NativeRoute
<1>7. CASE Restart
  BY <1>7, <1>route, <1>rem, <1>torn, <1>step DEF Restart, Goto, NativeRoute
<1>8. CASE RestartFails
  BY <1>8, <1>route, <1>rem, <1>torn, <1>step DEF RestartFails, Goto, End, NativeRoute
<1>9. CASE RestoreHosts
  <2>1. CASE torn
    BY <1>9, <1>torn, <2>1 DEF NativeRoute
  <2>2. CASE ~torn
    <3>1. /\ files = was.files /\ Routed(was.host, was.files, was.service) /\ service.st = was.service.st
      BY <1>9, <2>2, <1>typ DEF RestoreHosts, SetupInv, RemovalInv, PhaseInv
    <3> QED BY <1>9, <3>1 DEF RestoreHosts, NativeRoute, Routed
  <2> QED BY <2>1, <2>2
<1>10. CASE RestoreHostsFails
  BY <1>10, <1>route, <1>rem, <1>torn, <1>step DEF RestoreHostsFails, End, NativeRoute
<1> QED BY <1>1, <1>2, <1>3, <1>4, <1>5, <1>6, <1>7, <1>8, <1>9, <1>10 DEF Removal

(* While a removal is under way no checkout has a binding, but those whose *)
(* settings it does not know.                                              *)
LEMMA RemovalIsBare ==
    ASSUME SetupInv, pc \in Removing
    PROVE  (\A r \in Repo \ (orphans \intersect Lost) : host[r] = 0) /\ Bare
<1>1. \A r \in Repo : r \in Listed(files.identity) => host[r] = 0
  BY DEF SetupInv, RemovalInv, Listed
<1>2. \A r \in Repo : r \notin Listed(files.identity) => files.identity.bind[r] = 0
  BY UnlistedIsUnbound DEF SetupInv
<1>3. Lost \subseteq orphans
  BY DEF SetupInv, MachineInv, Strays, Lost
<1> QED BY <1>1, <1>2, <1>3 DEF Lost, Bare

LEMMA RemovalKeepsCheckouts == SetupInv /\ Removal => CheckoutRoute'
<1> SUFFICES ASSUME SetupInv, Removal PROVE CheckoutRoute'
  OBVIOUS
<1>typ. TypeOK /\ PhaseInv
  BY DEF SetupInv
<1> USE DEF Tokens, machine, command, history
<1>route. pc = "idle" /\ ~torn => \A r \in Repo \ orphans : host[r] # 0 => service.st = "running" /\ host[r] = files.relay.bind[r]
  BY DEF SetupInv, MachineInv, CheckoutRoute, Rebinding
<1>bare. pc \in Removing => \A r \in Repo \ (orphans \intersect Lost) : host[r] = 0
  BY RemovalIsBare
<1>torn. torn => torn'
  BY <1>typ, RemovalKeepsTorn
<1>step. UNCHANGED files
  BY <1>typ, RemovalSteps DEF RemovalStep
<1>1. ASSUME NEW o \in Removals, RemoveHosts(o) PROVE CheckoutRoute'
  BY <1>1, <1>route, <1>torn, <1>step, HostsAreRemoved DEF RemoveHosts, Begin, CheckoutRoute
<1>2. ASSUME NEW o \in Removals, RemoveHostsFails(o) PROVE CheckoutRoute'
  <2>1. \A r \in Repo : host'[r] \in {host[r], 0}
    BY <1>2, PartlyUnhosted DEF RemoveHostsFails, HostFile
  <2> QED BY <1>2, <1>route, <1>torn, <1>step, <2>1 DEF RemoveHostsFails, Begin, CheckoutRoute
<1>3. CASE Disable
  BY <1>3, <1>bare DEF Disable, StillOrphans, CheckoutRoute
<1>4. CASE StopFails
  BY <1>4, <1>bare DEF StopFails, CheckoutRoute
<1>5. CASE Uninstall
  BY <1>5, <1>bare DEF Uninstall, StillOrphans, CheckoutRoute
<1>6. CASE UninstallFails
  BY <1>6, <1>bare DEF UninstallFails, CheckoutRoute
<1>7. CASE Restart
  BY <1>7, <1>bare DEF Restart, CheckoutRoute
<1>8. CASE RestartFails
  BY <1>8, <1>bare DEF RestartFails, CheckoutRoute
<1>9. CASE RestoreHosts
  <2>1. ~torn => files = was.files /\ Bound(was.host, was.files, was.service, orphans) /\ service.st = was.service.st
    BY <1>9, <1>typ DEF RestoreHosts, SetupInv, RemovalInv, PhaseInv
  <2> QED BY <1>9, <2>1 DEF RestoreHosts, CheckoutRoute, Bound
<1>10. CASE RestoreHostsFails
  BY <1>10 DEF RestoreHostsFails, CheckoutRoute
<1> QED BY <1>1, <1>2, <1>3, <1>4, <1>5, <1>6, <1>7, <1>8, <1>9, <1>10 DEF Removal

LEMMA RemovalKeepsStrays == SetupInv /\ Removal => Strays(host', files') \subseteq orphans'
<1> SUFFICES ASSUME SetupInv, Removal PROVE Strays(host', files') \subseteq orphans'
  OBVIOUS
<1>typ. TypeOK /\ PhaseInv
  BY DEF SetupInv
<1> USE DEF Tokens, machine, command, history
<1>str. /\ pc \in Removing \union {"idle"} => Strays(host, files) \subseteq orphans
        /\ pc \in Removing => Strays(was.host, was.files) \subseteq orphans /\ files = was.files
  BY DEF SetupInv, MachineInv, Rooted, RemovalInv
<1>step. UNCHANGED files
  BY <1>typ, RemovalSteps DEF RemovalStep
<1>1. ASSUME NEW o \in Removals, RemoveHosts(o) PROVE Strays(host', files') \subseteq orphans'
  BY <1>1, <1>str, <1>step, HostsAreRemoved DEF RemoveHosts, Begin, AfterHosts, Strays
<1>2. ASSUME NEW o \in Removals, RemoveHostsFails(o) PROVE Strays(host', files') \subseteq orphans'
  <2>1. \A r \in Repo : host'[r] \in {host[r], 0}
    BY <1>2, PartlyUnhosted DEF RemoveHostsFails, HostFile
  <2> QED BY <1>2, <1>str, <1>step, <2>1 DEF RemoveHostsFails, Begin, Strays
<1>3. CASE Disable
  BY <1>3, <1>str, <1>step DEF Disable, End, StillOrphans, Lost, Strays
<1>4. CASE StopFails
  BY <1>4, <1>str, <1>step DEF StopFails, Goto
<1>5. CASE Uninstall
  BY <1>5, <1>str, <1>step DEF Uninstall, End, StillOrphans, Lost, Strays
<1>6. CASE UninstallFails
  BY <1>6, <1>str, <1>step DEF UninstallFails, Goto, End
<1>7. CASE Restart
  BY <1>7, <1>str, <1>step DEF Restart, Goto
<1>8. CASE RestartFails
  BY <1>8, <1>str, <1>step DEF RestartFails, Goto, End
<1>9. CASE RestoreHosts
  BY <1>9, <1>str, <1>step DEF RestoreHosts, End
<1>10. CASE RestoreHostsFails
  <2>1. \A r \in Repo : host'[r] \in {host[r], was.host[r]}
    BY <1>10, PartlyIsEither DEF RestoreHostsFails, HostFile
  <2> QED BY <1>10, <1>str, <1>step, <2>1 DEF RestoreHostsFails, Strays
<1> QED BY <1>1, <1>2, <1>3, <1>4, <1>5, <1>6, <1>7, <1>8, <1>9, <1>10 DEF Removal

LEMMA RemovalKeepsMachine == SetupInv /\ Removal => MachineInv'
<1> SUFFICES ASSUME SetupInv, Removal PROVE MachineInv'
  OBVIOUS
<1>typ. TypeOK /\ PhaseInv
  BY DEF SetupInv
<1>0. UNCHANGED <<files, receipt>> /\ (torn => torn')
  BY <1>typ, RemovalSteps, RemovalKeepsTorn DEF RemovalStep
<1>1. receipt'.there \/ files'.identity.inst # 0
  BY <1>0, RemovalKeepsIdentity
<1>2. ~receipt'.there /\ ~torn' => Coherent(files')
  BY <1>0 DEF SetupInv, MachineInv, Rooted
<1>3. ~torn' => service'.st # "torn"
  BY RemovalKeepsService
<1>4. NativeRoute' /\ CheckoutRoute'
  BY RemovalKeepsRoute, RemovalKeepsCheckouts
<1>5. Strays(host', files') \subseteq orphans'
  BY RemovalKeepsStrays
<1> QED BY <1>1, <1>2, <1>3, <1>4, <1>5 DEF MachineInv, Rooted

(* A removal that has begun remembers what it found.                       *)
LEMMA RemovalBegins == ASSUME NEW o \in Removals, SetupInv, RemoveHosts(o) PROVE RemovalInv'
<1>typ. TypeOK /\ PhaseInv /\ MachineInv
  BY DEF SetupInv
<1>act. /\ MayRemove(o) /\ pc = "idle" /\ pc' = AfterHosts(o) /\ was' = Found
        /\ UNCHANGED <<files, service, torn, orphans, live>>
  BY DEF RemoveHosts, Begin
<1>was. was'.files = files /\ was'.host = host /\ was'.service = service
  BY <1>act DEF Found
<1>1. \A f \in Native : host'[f] = 0
  BY HostsAreRemoved
<1>2. ~torn => Routed(host, files, service) /\ Bound(host, files, service, orphans)
  BY <1>typ, <1>act DEF MachineInv, Rooted, NativeRoute, CheckoutRoute, Rebinding, Routed, Bound
<1>3. Strays(host, files) \subseteq orphans
  BY <1>typ, <1>act DEF MachineInv, Rooted
<1>4. /\ pc' = "d_service" => o = "disable"
      /\ pc' = "x_service" => o = "uninstall"
      /\ pc' \in {"p_stop", "p_revoke"} => o = "purge"
      /\ pc' \in {"d_service", "p_stop"} => Installed
      /\ pc' = "p_revoke" => service.st = "absent"
      /\ pc' \in {"d_service", "x_service", "p_stop", "p_revoke"}
  BY <1>act DEF AfterHosts, MayRemove, Removals, Installed
<1>5. pc' \in {"x_service", "p_stop", "p_revoke", "p_receipt"} => Unconfigured'
  <2> SUFFICES ASSUME o # "disable" PROVE Unconfigured'
    BY <1>4
  <2>1. host'["hooks"] = 0
    BY HostsAreRemoved
  <2> QED BY <1>1, <2>1 DEF Unconfigured, Managed, ClaudeManaged, HostFile, Native
<1>6. Installed' = Installed
  BY <1>act DEF Installed
<1>7. /\ Routed(was.host, was.files, was.service)' = Routed(host, files, service)
      /\ Bound(was.host, was.files, was.service, orphans)' = Bound(host, files, service, orphans)
  BY <1>was, <1>act DEF Routed, Bound
<1>8. \A r \in Listed(files.identity)' : host'[r] = 0
  BY <1>act, HostsAreRemoved DEF Listed
<1>9. Strays(was.host, was.files)' \subseteq orphans'
  BY <1>was, <1>3, <1>act DEF Strays
<1> QED BY <1>act, <1>was, <1>1, <1>2, <1>4, <1>5, <1>6, <1>7, <1>8, <1>9 DEF RemovalInv

LEMMA RemovalKeepsRemoval == SetupInv /\ Removal => RemovalInv'
<1> SUFFICES ASSUME SetupInv, Removal PROVE RemovalInv'
  OBVIOUS
<1>typ. TypeOK /\ PhaseInv
  BY DEF SetupInv
<1> USE DEF Tokens, machine, command, history
<1>ser. service \in Service
  BY <1>typ DEF TypeOK
<1>rem. RemovalInv
  BY DEF SetupInv
<1>torn. torn => torn'
  BY <1>typ, RemovalKeepsTorn
<1>step. UNCHANGED files
  BY <1>typ, RemovalSteps DEF RemovalStep
<1>1. ASSUME NEW o \in Removals, RemoveHosts(o) PROVE RemovalInv'
  <2> QED BY <1>1, RemovalBegins
<1>2. ASSUME NEW o \in Removals, RemoveHostsFails(o) PROVE RemovalInv'
  BY <1>2, <1>ser, <1>rem, <1>torn, <1>step DEF RemoveHostsFails, Begin, RemovalInv, Begin
<1>3. CASE Disable
  BY <1>3, <1>ser, <1>rem, <1>torn, <1>step DEF Disable, End, RemovalInv
<1>4. CASE StopFails
  BY <1>4, <1>ser, <1>rem, <1>torn, <1>step DEF StopFails, Goto, RemovalInv, Installed, Service
<1>5. CASE Uninstall
  BY <1>5, <1>ser, <1>rem, <1>torn, <1>step DEF Uninstall, End, RemovalInv
<1>6. CASE UninstallFails
  BY <1>6, <1>ser, <1>rem, <1>torn, <1>step DEF UninstallFails, Goto, End, RemovalInv, Installed, Service
<1>7. CASE Restart
  BY <1>7, <1>ser, <1>rem, <1>torn, <1>step DEF Restart, Goto, RemovalInv, Service
<1>8. CASE RestartFails
  <2>0. pc = "r_start" /\ op \in Removals
    BY <1>8, <1>typ DEF RestartFails, PhaseInv
  <2>1. CASE op = "purge"
    <3>1. pc' = "r_host" /\ bad' /\ UNCHANGED <<was, host, orphans>> /\ service'.rt = service.rt
      BY <1>8, <2>0, <2>1, <1>ser DEF RestartFails, Goto, Service
    <3> QED BY <3>1, <2>0, <1>rem, <1>torn, <1>step DEF RemovalInv
  <2>2. CASE op # "purge"
    <3>1. pc' = "idle"
      BY <1>8, <2>0, <2>2 DEF RestartFails, End, Removals
    <3> QED BY <3>1 DEF RemovalInv
  <2> QED BY <2>1, <2>2
<1>9. CASE RestoreHosts
  BY <1>9, <1>ser, <1>rem, <1>torn, <1>step DEF RestoreHosts, End, RemovalInv
<1>10. CASE RestoreHostsFails
  BY <1>10, <1>ser, <1>rem, <1>torn, <1>step DEF RestoreHostsFails, End, RemovalInv
<1> QED BY <1>1, <1>2, <1>3, <1>4, <1>5, <1>6, <1>7, <1>8, <1>9, <1>10 DEF Removal

LEMMA RemovalKeepsCompleting == SetupInv /\ Removal => CompletingInv'
<1> SUFFICES ASSUME SetupInv, Removal PROVE CompletingInv'
  OBVIOUS
<1>typ. TypeOK /\ PhaseInv
  BY DEF SetupInv
<1> USE DEF Tokens, machine, command, history
<1>com. CompletingInv
  BY DEF SetupInv
<1>step. RemovalStep
  BY <1>typ, RemovalSteps
<1>1. ASSUME NEW o \in Removals, RemoveHosts(o) PROVE CompletingInv'
  <2>1. ~receipt.there
    BY <1>1, <1>typ DEF RemoveHosts, PhaseInv, MayRemove
  <2> QED BY <1>step, <2>1 DEF RemovalStep, CompletingInv, ReceiptIsTrue
<1>2. ASSUME NEW o \in Removals, RemoveHostsFails(o) PROVE CompletingInv'
  <2>1. pc' = "idle" /\ UNCHANGED <<service, files, live, receipt, orphans>>
    BY <1>2, <1>step DEF RemoveHostsFails, Begin, RemovalStep
  <2>2. \A f \in HostFile : host'[f] \in {host[f], 0}
    BY <1>2, PartlyUnhosted DEF RemoveHostsFails
  <2>3. receipt.there => Bare' /\ Validated' /\ \A t \in live : ~(t.inst = receipt.files.identity.inst /\ t.dest = Home)
    BY <1>com, <2>1, <2>2
       DEF CompletingInv, ReceiptIsTrue, Validated, Unconfigured, Managed, ClaudeManaged, Bare, HostFile, Native
  <2> QED BY <1>com, <2>1, <2>3 DEF CompletingInv, ReceiptIsTrue
<1>3. CASE Disable
  <2>1. ~receipt.there
    BY <1>3, <1>typ DEF Disable, PhaseInv
  <2> QED BY <1>step, <2>1 DEF RemovalStep, CompletingInv, ReceiptIsTrue
<1>4. CASE StopFails
  <2>1. ~receipt.there
    BY <1>4, <1>typ DEF StopFails, PhaseInv
  <2> QED BY <1>step, <2>1 DEF RemovalStep, CompletingInv, ReceiptIsTrue
<1>5. CASE Uninstall
  <2>1. ~receipt.there
    BY <1>5, <1>typ DEF Uninstall, PhaseInv
  <2> QED BY <1>step, <2>1 DEF RemovalStep, CompletingInv, ReceiptIsTrue
<1>6. CASE UninstallFails
  <2>1. ~receipt.there
    BY <1>6, <1>typ DEF UninstallFails, PhaseInv
  <2> QED BY <1>step, <2>1 DEF RemovalStep, CompletingInv, ReceiptIsTrue
<1>7. CASE Restart
  <2>1. ~receipt.there
    BY <1>7, <1>typ DEF Restart, PhaseInv
  <2> QED BY <1>step, <2>1 DEF RemovalStep, CompletingInv, ReceiptIsTrue
<1>8. CASE RestartFails
  <2>1. ~receipt.there
    BY <1>8, <1>typ DEF RestartFails, PhaseInv
  <2> QED BY <1>step, <2>1 DEF RemovalStep, CompletingInv, ReceiptIsTrue
<1>9. CASE RestoreHosts
  <2>1. ~receipt.there
    BY <1>9, <1>typ DEF RestoreHosts, PhaseInv
  <2> QED BY <1>step, <2>1 DEF RemovalStep, CompletingInv, ReceiptIsTrue
<1>10. CASE RestoreHostsFails
  <2>1. ~receipt.there
    BY <1>10, <1>typ DEF RestoreHostsFails, PhaseInv
  <2> QED BY <1>step, <2>1 DEF RemovalStep, CompletingInv, ReceiptIsTrue
<1> QED BY <1>1, <1>2, <1>3, <1>4, <1>5, <1>6, <1>7, <1>8, <1>9, <1>10 DEF Removal

LEMMA RemovalReports == SetupInv /\ Removal => ReportsAreTrue'
<1> SUFFICES ASSUME SetupInv, Removal PROVE ReportsAreTrue'
  OBVIOUS
<1>typ. TypeOK /\ PhaseInv
  BY DEF SetupInv
<1> USE DEF Tokens, machine, command, history
<1> USE <1>typ DEF PhaseInv, ReportsAreTrue
<1>1. ASSUME NEW o \in Removals, RemoveHosts(o) PROVE ReportsAreTrue'
  BY <1>1 DEF RemoveHosts, Begin, AfterHosts
<1>2. ASSUME NEW o \in Removals, RemoveHostsFails(o) PROVE ReportsAreTrue'
  BY <1>2 DEF RemoveHostsFails, Begin
<1>3. CASE Disable
  <2>1. report' = "disabled" /\ service'.st = "stopped" /\ \A f \in Native : host'[f] = 0
    BY <1>3, <1>typ DEF Disable, End, SetupInv, RemovalInv, TypeOK, Service
  <2>2. \A r \in Repo \ orphans' : host'[r] = 0
    BY <1>3, RemovalIsBare DEF Disable, StillOrphans
  <2> QED BY <2>1, <2>2 DEF HostFile
<1>4. CASE StopFails
  BY <1>4 DEF StopFails, Goto
<1>5. CASE Uninstall
  <2>1. report' = "uninstalled" /\ service'.st = "absent" /\ Unconfigured'
    BY <1>5 DEF Uninstall, End, SetupInv, RemovalInv, NoService, Unconfigured, Managed, ClaudeManaged
  <2>2. \A r \in Repo \ orphans' : host'[r] = 0
    BY <1>5, RemovalIsBare DEF Uninstall, StillOrphans
  <2> QED BY <2>1, <2>2 DEF Unconfigured, Managed, ClaudeManaged
<1>6. CASE UninstallFails
  BY <1>6 DEF UninstallFails, Goto, End
<1>7. CASE Restart
  BY <1>7 DEF Restart, Goto
<1>8. CASE RestartFails
  <2>0. pc = "r_start" /\ op \in Removals
    BY <1>8 DEF RestartFails
  <2>1. report' \in {"none", "incomplete", "rollback failed"}
    BY <1>8, <2>0 DEF RestartFails, Goto, End, Removals
  <2> QED BY <2>1
<1>9. CASE RestoreHosts
  <2>1. report' \in {"rollback failed", "restored"} /\ (report' = "restored" => ~bad)
    BY <1>9 DEF RestoreHosts, End
  <2>2. ASSUME ~bad PROVE AsFound'
    <3>1. files = was.files /\ service.st = was.service.st /\ service.rt = was.service.rt /\ op # "setup"
      BY <1>9, <2>2 DEF RestoreHosts, SetupInv, RemovalInv, Removals
    <3> QED BY <1>9, <3>1 DEF RestoreHosts, End, AsFound
  <2> QED BY <2>1, <2>2
<1>10. CASE RestoreHostsFails
  BY <1>10 DEF RestoreHostsFails, End
<1> QED BY <1>1, <1>2, <1>3, <1>4, <1>5, <1>6, <1>7, <1>8, <1>9, <1>10 DEF Removal

LEMMA RemovalKeepsInv == SetupInv /\ Removal => SetupInv'
<1> SUFFICES ASSUME SetupInv, Removal PROVE SetupInv'
  OBVIOUS
<1>typ. TypeOK /\ PhaseInv
  BY DEF SetupInv
<1>1. pc' \in Removing \union {"idle"}
  BY <1>typ, RemovalSteps DEF RemovalStep
<1>2. FoundInv' /\ ApplyInv' /\ UndoInv'
  BY <1>1 DEF FoundInv, ApplyInv, UndoInv
<1> QED BY <1>typ, <1>2, TypeRemoval, PhaseRemoval, RemovalKeepsMachine, RemovalKeepsRemoval,
     RemovalKeepsCompleting,
     RemovalReports DEF SetupInv

--------------------------------------------------------------------------------
(* The machine under a purge.                                              *)

(* Once the receipt is there, the hosts are bare.                          *)
LEMMA PurgeIsBare ==
    ASSUME SetupInv, receipt.there
    PROVE  Unconfigured /\ Bare /\ Validated /\ \A f \in Native : host[f] = 0
<1>1. Bare /\ Validated /\ Unconfigured
  BY DEF SetupInv, CompletingInv, ReceiptIsTrue, Validated
<1>2. "claude" \notin Repo /\ "codex" \notin Repo
  BY SetupAssumption
<1> QED BY <1>1, <1>2 DEF Unconfigured, Managed, ClaudeManaged, HostFile, Native

LEMMA ResumeUnhosts ==
    ASSUME Resume
    PROVE  /\ \A f \in HostFile : host'[f] \in {host[f], 0}
           /\ \A f \in HostFile \ Repo : host'[f] = 0
<1>1. host' = Unhosted(files.identity)
  BY DEF Resume
<1> QED BY <1>1, UnhostedIsBare DEF HostFile, Native

LEMMA PurgeKeepsIdentity == SetupInv /\ Purge => Rooted'
<1> SUFFICES ASSUME SetupInv, Purge PROVE Rooted'
  OBVIOUS
<1>typ. TypeOK /\ PhaseInv
  BY DEF SetupInv
<1> USE DEF Tokens, machine, command, history
<1>m. pc # "idle" => receipt.there \/ files.identity.inst # 0
  BY DEF SetupInv, MachineInv, Rooted
<1>end. /\ pc \in Completing => receipt.there
        /\ pc = "p_end" => files = NoFiles /\ service = NoService /\ ~queue
  BY <1>typ DEF PhaseInv, SetupInv, CompletingInv
<1>1. CASE PurgeStop
  BY <1>1, <1>m, <1>end DEF PurgeStop, Goto, Rooted
<1>2. CASE Revoke
  BY <1>2, <1>m, <1>end DEF Revoke, Goto, Rooted
<1>3. CASE NotRevoked
  BY <1>3, <1>m, <1>end DEF NotRevoked, Goto, Rooted
<1>4. CASE Unconfirmed
  BY <1>4, <1>m, <1>end DEF Unconfirmed, End, Rooted
<1>5. CASE WriteReceipt
  BY <1>5, <1>m, <1>end DEF WriteReceipt, Goto, Rooted
<1>6. CASE WriteReceiptFails
  BY <1>6, <1>m, <1>end DEF WriteReceiptFails, End, Rooted
<1>7. CASE Resume
  BY <1>7, <1>m, <1>end DEF Resume, Begin, Rooted
<1>8. CASE PurgeService
  BY <1>8, <1>m, <1>end DEF PurgeService, Goto, Rooted
<1>9. CASE PurgeServiceFails
  BY <1>9, <1>m, <1>end DEF PurgeServiceFails, End, Rooted
<1>10. CASE RemoveCredentials
  BY <1>10, <1>m, <1>end DEF RemoveCredentials, Goto, Rooted
<1>11. CASE RemoveCredentialsFails
  BY <1>11, <1>m, <1>end DEF RemoveCredentialsFails, End, Rooted
<1>12. CASE RemoveReceipt
  BY <1>12, <1>m, <1>end DEF RemoveReceipt, End, Rooted, End
<1>13. CASE RemoveReceiptFails
  BY <1>13, <1>m, <1>end DEF RemoveReceiptFails, End, Rooted, End
<1> QED BY <1>1, <1>2, <1>3, <1>4, <1>5, <1>6, <1>7, <1>8, <1>9, <1>10, <1>11, <1>12, <1>13 DEF Purge

LEMMA PurgeKeepsCoherent == SetupInv /\ Purge => (~receipt'.there /\ ~torn' => Coherent(files'))
<1> SUFFICES ASSUME SetupInv, Purge PROVE (~receipt'.there /\ ~torn' => Coherent(files'))
  OBVIOUS
<1>typ. TypeOK /\ PhaseInv
  BY DEF SetupInv
<1> USE DEF Tokens, machine, command, history
<1>co. ~receipt.there /\ ~torn => Coherent(files)
  BY DEF SetupInv, MachineInv, Rooted
<1>no. Coherent(NoFiles)
  BY DEF Coherent, NoFiles, NoRelay, NoIdentity
<1>end. /\ pc \in Completing => receipt.there
        /\ pc = "p_end" => files = NoFiles
  BY <1>typ DEF PhaseInv, SetupInv, CompletingInv
<1>step. torn' = torn
  BY PurgeSteps, <1>typ DEF PurgeStep
<1>1. CASE PurgeStop
  BY <1>1, <1>co, <1>no, <1>end, <1>step DEF PurgeStop, Goto
<1>2. CASE Revoke
  BY <1>2, <1>co, <1>no, <1>end, <1>step DEF Revoke, Goto
<1>3. CASE NotRevoked
  BY <1>3, <1>co, <1>no, <1>end, <1>step DEF NotRevoked, Goto
<1>4. CASE Unconfirmed
  BY <1>4, <1>co, <1>no, <1>end, <1>step DEF Unconfirmed, End
<1>5. CASE WriteReceipt
  BY <1>5, <1>co, <1>no, <1>end, <1>step DEF WriteReceipt, Goto
<1>6. CASE WriteReceiptFails
  BY <1>6, <1>co, <1>no, <1>end, <1>step DEF WriteReceiptFails, End
<1>7. CASE Resume
  BY <1>7, <1>co, <1>no, <1>end, <1>step DEF Resume, Begin
<1>8. CASE PurgeService
  BY <1>8, <1>co, <1>no, <1>end, <1>step DEF PurgeService, Goto
<1>9. CASE PurgeServiceFails
  BY <1>9, <1>co, <1>no, <1>end, <1>step DEF PurgeServiceFails, End
<1>10. CASE RemoveCredentials
  BY <1>10, <1>co, <1>no, <1>end, <1>step DEF RemoveCredentials, Goto
<1>11. CASE RemoveCredentialsFails
  BY <1>11, <1>co, <1>no, <1>end, <1>step DEF RemoveCredentialsFails, End
<1>12. CASE RemoveReceipt
  BY <1>12, <1>co, <1>no, <1>end, <1>step DEF RemoveReceipt, End
<1>13. CASE RemoveReceiptFails
  BY <1>13, <1>co, <1>no, <1>end, <1>step DEF RemoveReceiptFails, End
<1> QED BY <1>1, <1>2, <1>3, <1>4, <1>5, <1>6, <1>7, <1>8, <1>9, <1>10, <1>11, <1>12, <1>13 DEF Purge

LEMMA PurgeKeepsService == SetupInv /\ Purge => (~torn' => service'.st # "torn")
<1> SUFFICES ASSUME SetupInv, Purge PROVE (~torn' => service'.st # "torn")
  OBVIOUS
<1>typ. TypeOK /\ PhaseInv
  BY DEF SetupInv
<1> USE DEF Tokens, machine, command, history
<1>ser. service \in Service /\ (~torn => service.st # "torn")
  BY <1>typ DEF TypeOK, SetupInv, MachineInv, Rooted
<1>step. torn' = torn
  BY PurgeSteps, <1>typ DEF PurgeStep
<1>1. CASE PurgeStop
  BY <1>1, <1>ser, <1>step DEF PurgeStop, Goto, Service
<1>2. CASE Revoke
  BY <1>2, <1>ser, <1>step DEF Revoke, Goto
<1>3. CASE NotRevoked
  BY <1>3, <1>ser, <1>step DEF NotRevoked, Goto
<1>4. CASE Unconfirmed
  BY <1>4, <1>ser, <1>step DEF Unconfirmed, End
<1>5. CASE WriteReceipt
  BY <1>5, <1>ser, <1>step DEF WriteReceipt, Goto
<1>6. CASE WriteReceiptFails
  BY <1>6, <1>ser, <1>step DEF WriteReceiptFails, End
<1>7. CASE Resume
  BY <1>7, <1>ser, <1>step DEF Resume, Begin
<1>8. CASE PurgeService
  BY <1>8, <1>ser, <1>step DEF PurgeService, Goto, NoService
<1>9. CASE PurgeServiceFails
  <2>1. service' = service \/ \E s \in {"stopped", "partial", service.st} : service' = [service EXCEPT !.st = s]
    BY <1>9 DEF PurgeServiceFails
  <2> QED BY <1>ser, <1>step, <2>1 DEF Service
<1>10. CASE RemoveCredentials
  BY <1>10, <1>ser, <1>step DEF RemoveCredentials, Goto
<1>11. CASE RemoveCredentialsFails
  BY <1>11, <1>ser, <1>step DEF RemoveCredentialsFails, End
<1>12. CASE RemoveReceipt
  BY <1>12, <1>ser, <1>step DEF RemoveReceipt, End
<1>13. CASE RemoveReceiptFails
  BY <1>13, <1>ser, <1>step DEF RemoveReceiptFails, End
<1> QED BY <1>1, <1>2, <1>3, <1>4, <1>5, <1>6, <1>7, <1>8, <1>9, <1>10, <1>11, <1>12, <1>13 DEF Purge

LEMMA PurgeKeepsRoute == SetupInv /\ Purge => (\A f \in Native : host'[f] = 0)
<1> SUFFICES ASSUME SetupInv, Purge PROVE (\A f \in Native : host'[f] = 0)
  OBVIOUS
<1>typ. TypeOK /\ PhaseInv
  BY DEF SetupInv
<1> USE DEF Tokens, machine, command, history
<1>host. /\ pc \in Removing => \A f \in Native : host[f] = 0
         /\ pc \in Completing => \A f \in Native : host[f] = 0
  BY <1>typ, PurgeIsBare DEF PhaseInv, SetupInv, RemovalInv
<1>1. CASE PurgeStop
  BY <1>1, <1>host DEF PurgeStop, Goto
<1>2. CASE Revoke
  BY <1>2, <1>host DEF Revoke, Goto
<1>3. CASE NotRevoked
  BY <1>3, <1>host DEF NotRevoked, Goto
<1>4. CASE Unconfirmed
  BY <1>4, <1>host DEF Unconfirmed, End
<1>5. CASE WriteReceipt
  BY <1>5, <1>host DEF WriteReceipt, Goto
<1>6. CASE WriteReceiptFails
  BY <1>6, <1>host DEF WriteReceiptFails, End
<1>7. CASE Resume
  BY <1>7, <1>host, ResumeUnhosts, SetupAssumption DEF Resume, Begin, HostFile, Native
<1>8. CASE PurgeService
  BY <1>8, <1>host DEF PurgeService, Goto
<1>9. CASE PurgeServiceFails
  BY <1>9, <1>host DEF PurgeServiceFails, End
<1>10. CASE RemoveCredentials
  BY <1>10, <1>host DEF RemoveCredentials, Goto
<1>11. CASE RemoveCredentialsFails
  BY <1>11, <1>host DEF RemoveCredentialsFails, End
<1>12. CASE RemoveReceipt
  BY <1>12, <1>host DEF RemoveReceipt, End
<1>13. CASE RemoveReceiptFails
  BY <1>13, <1>host DEF RemoveReceiptFails, End
<1> QED BY <1>1, <1>2, <1>3, <1>4, <1>5, <1>6, <1>7, <1>8, <1>9, <1>10, <1>11, <1>12, <1>13 DEF Purge

LEMMA PurgeKeepsCheckouts == SetupInv /\ Purge => CheckoutRoute'
<1> SUFFICES ASSUME SetupInv, Purge PROVE \A r \in Repo \ orphans' : host'[r] = 0
  BY DEF CheckoutRoute
<1>typ. TypeOK /\ PhaseInv
  BY DEF SetupInv
<1> USE DEF Tokens, machine, command, history
<1>bare. /\ pc \in Removing => \A r \in Repo \ (orphans \intersect Lost) : host[r] = 0
         /\ pc \in Completing => \A r \in Repo \ orphans : host[r] = 0
  BY <1>typ, RemovalIsBare, PurgeIsBare DEF PhaseInv, Bare
<1>1. CASE PurgeStop
  BY <1>1, <1>bare DEF PurgeStop
<1>2. CASE Revoke
  BY <1>2, <1>bare DEF Revoke
<1>3. CASE NotRevoked
  BY <1>3, <1>bare DEF NotRevoked
<1>4. CASE Unconfirmed
  BY <1>4, <1>bare DEF Unconfirmed
<1>5. CASE WriteReceipt
  BY <1>5, <1>bare DEF WriteReceipt, StillOrphans
<1>6. CASE WriteReceiptFails
  BY <1>6, <1>bare DEF WriteReceiptFails
<1>7. CASE Resume
  <2>1. \A r \in Repo : host'[r] \in {host[r], 0}
    BY <1>7, ResumeUnhosts DEF HostFile
  <2>2. \A r \in Repo \ orphans : host[r] = 0
    BY <1>7, PurgeIsBare DEF Resume, Bare
  <2> QED BY <1>7, <2>1, <2>2 DEF Resume
<1>8. CASE PurgeService
  BY <1>8, <1>bare DEF PurgeService
<1>9. CASE PurgeServiceFails
  BY <1>9, <1>bare DEF PurgeServiceFails
<1>10. CASE RemoveCredentials
  BY <1>10, <1>bare DEF RemoveCredentials
<1>11. CASE RemoveCredentialsFails
  BY <1>11, <1>bare DEF RemoveCredentialsFails
<1>12. CASE RemoveReceipt
  BY <1>12, <1>bare DEF RemoveReceipt
<1>13. CASE RemoveReceiptFails
  BY <1>13, <1>bare DEF RemoveReceiptFails
<1> QED BY <1>1, <1>2, <1>3, <1>4, <1>5, <1>6, <1>7, <1>8, <1>9, <1>10, <1>11, <1>12, <1>13 DEF Purge

LEMMA PurgeKeepsStrays == SetupInv /\ Purge => Strays(host', files') \subseteq orphans'
<1> SUFFICES ASSUME SetupInv, Purge PROVE Strays(host', files') \subseteq orphans'
  OBVIOUS
<1>typ. TypeOK /\ PhaseInv
  BY DEF SetupInv
<1> USE DEF Tokens, machine, command, history
<1>str. pc \in Removing \union {"idle"} => Strays(host, files) \subseteq orphans
  BY DEF SetupInv, MachineInv, Rooted
<1>bare. pc \in Completing => Bare
  BY <1>typ, PurgeIsBare DEF PhaseInv
<1>1. CASE PurgeStop
  BY <1>1, <1>str, <1>bare DEF PurgeStop, Goto
<1>2. CASE Revoke
  BY <1>2, <1>str, <1>bare DEF Revoke, Goto
<1>3. CASE NotRevoked
  BY <1>3, <1>str, <1>bare DEF NotRevoked, Goto
<1>4. CASE Unconfirmed
  BY <1>4, <1>str, <1>bare DEF Unconfirmed, End
<1>5. CASE WriteReceipt
  BY <1>5, <1>str, <1>bare DEF WriteReceipt, Goto, StillOrphans, Lost, Strays
<1>6. CASE WriteReceiptFails
  BY <1>6, <1>str, <1>bare DEF WriteReceiptFails, End
<1>7. CASE Resume
  <2>1. \A r \in Repo : host'[r] \in {host[r], 0}
    BY <1>7, ResumeUnhosts DEF HostFile
  <2> QED BY <1>7, <1>str, <2>1 DEF Resume, Begin, Strays
<1>8. CASE PurgeService
  BY <1>8, <1>str, <1>bare DEF PurgeService, Goto, Bare, Strays
<1>9. CASE PurgeServiceFails
  BY <1>9, <1>str, <1>bare DEF PurgeServiceFails, End, Bare, Strays
<1>10. CASE RemoveCredentials
  BY <1>10, <1>str, <1>bare DEF RemoveCredentials, Goto, Bare, Strays
<1>11. CASE RemoveCredentialsFails
  BY <1>11, <1>str, <1>bare DEF RemoveCredentialsFails, End, Bare, Strays
<1>12. CASE RemoveReceipt
  BY <1>12, <1>str, <1>bare DEF RemoveReceipt, End, Bare, Strays
<1>13. CASE RemoveReceiptFails
  BY <1>13, <1>str, <1>bare DEF RemoveReceiptFails, End, Bare, Strays
<1> QED BY <1>1, <1>2, <1>3, <1>4, <1>5, <1>6, <1>7, <1>8, <1>9, <1>10, <1>11, <1>12, <1>13 DEF Purge

LEMMA PurgeKeepsMachine == SetupInv /\ Purge => MachineInv'
BY PurgeKeepsIdentity, PurgeKeepsCoherent, PurgeKeepsService, PurgeKeepsRoute, PurgeKeepsCheckouts,
   PurgeKeepsStrays
   DEF MachineInv, Rooted, NativeRoute

LEMMA PurgeKeepsRemoval == SetupInv /\ Purge => RemovalInv'
<1> SUFFICES ASSUME SetupInv, Purge PROVE RemovalInv'
  OBVIOUS
<1>typ. TypeOK /\ PhaseInv
  BY DEF SetupInv
<1> USE DEF Tokens, machine, command, history
<1>ser. service \in Service
  BY <1>typ DEF TypeOK
<1>rem. RemovalInv
  BY DEF SetupInv
<1>step. PurgeStep
  BY <1>typ, PurgeSteps
<1>1. CASE PurgeStop
  BY <1>1, <1>ser, <1>rem, <1>step DEF PurgeStop, Goto, RemovalInv, PurgeStep, Installed, Service,
     Unconfigured, Managed, ClaudeManaged, Bare
<1>2. CASE Revoke
  BY <1>2, <1>ser, <1>rem, <1>step DEF Revoke, Goto, RemovalInv, PurgeStep, Others, Present,
     Unconfigured, Managed, ClaudeManaged, Bare
<1>3. CASE NotRevoked
  BY <1>3, <1>ser, <1>rem, <1>step DEF NotRevoked, Goto, RemovalInv, PurgeStep
<1>4. CASE Unconfirmed
  BY <1>4, <1>ser, <1>rem, <1>step DEF Unconfirmed, End, RemovalInv, PurgeStep
<1>5. CASE WriteReceipt
  BY <1>5, <1>ser, <1>rem, <1>step DEF WriteReceipt, Goto, RemovalInv, PurgeStep
<1>6. CASE WriteReceiptFails
  BY <1>6, <1>ser, <1>rem, <1>step DEF WriteReceiptFails, End, RemovalInv, PurgeStep
<1>7. CASE Resume
  BY <1>7, <1>ser, <1>rem, <1>step DEF Resume, Begin, RemovalInv, PurgeStep
<1>8. CASE PurgeService
  BY <1>8, <1>ser, <1>rem, <1>step DEF PurgeService, Goto, RemovalInv, PurgeStep
<1>9. CASE PurgeServiceFails
  BY <1>9, <1>ser, <1>rem, <1>step DEF PurgeServiceFails, End, RemovalInv, PurgeStep
<1>10. CASE RemoveCredentials
  BY <1>10, <1>ser, <1>rem, <1>step DEF RemoveCredentials, Goto, RemovalInv, PurgeStep
<1>11. CASE RemoveCredentialsFails
  BY <1>11, <1>ser, <1>rem, <1>step DEF RemoveCredentialsFails, End, RemovalInv, PurgeStep
<1>12. CASE RemoveReceipt
  BY <1>12, <1>ser, <1>rem, <1>step DEF RemoveReceipt, End, RemovalInv, PurgeStep
<1>13. CASE RemoveReceiptFails
  BY <1>13, <1>ser, <1>rem, <1>step DEF RemoveReceiptFails, End, RemovalInv, PurgeStep
<1> QED BY <1>1, <1>2, <1>3, <1>4, <1>5, <1>6, <1>7, <1>8, <1>9, <1>10, <1>11, <1>12, <1>13 DEF Purge

LEMMA HostsStay ==
    host' = host => (Unconfigured => Unconfigured') /\ (orphans' = orphans => (Bare => Bare'))
BY DEF Unconfigured, Managed, ClaudeManaged, Bare

LEMMA PurgeKeepsCompleting == SetupInv /\ Purge => CompletingInv'
<1> SUFFICES ASSUME SetupInv, Purge PROVE CompletingInv'
  OBVIOUS
<1>typ. TypeOK /\ PhaseInv
  BY DEF SetupInv
<1> USE DEF Tokens, machine, command, history
<1>com. CompletingInv /\ (pc \in Removing => ~receipt.there) /\ (pc \in Completing => receipt.there)
  BY <1>typ DEF SetupInv, PhaseInv
<1>ser. service \in Service
  BY <1>typ DEF TypeOK
<1>host. host' = host => (Unconfigured => Unconfigured') /\ (orphans' = orphans => (Bare => Bare'))
  BY HostsStay
<1>1. CASE PurgeStop
  BY <1>1, <1>com, <1>host DEF PurgeStop, Goto, CompletingInv, ReceiptIsTrue
<1>2. CASE Revoke
  BY <1>2, <1>com, <1>host DEF Revoke, Goto, CompletingInv, ReceiptIsTrue
<1>3. CASE NotRevoked
  BY <1>3, <1>com, <1>host DEF NotRevoked, Goto, CompletingInv, ReceiptIsTrue
<1>4. CASE Unconfirmed
  BY <1>4, <1>com, <1>host DEF Unconfirmed, End, CompletingInv, ReceiptIsTrue
<1>5. CASE WriteReceipt
  <2>1. /\ Unconfigured /\ ~Present /\ service.st \in {"absent", "stopped"}
    BY <1>5 DEF WriteReceipt, SetupInv, RemovalInv
  <2>2. \A t \in live : ~(t.inst = files.identity.inst /\ t.dest = Home)
    BY <2>1 DEF Present
  <2>3. receipt' = receipt \/ (receipt'.there /\ receipt'.files = files)
    BY <1>5 DEF WriteReceipt
  <2>4. Bare'
    BY <1>5, RemovalIsBare DEF WriteReceipt, StillOrphans, Bare
  <2> QED BY <1>5, <1>com, <1>host, <2>1, <2>2, <2>3, <2>4 DEF WriteReceipt, Goto, CompletingInv, ReceiptIsTrue,
       Validated
<1>6. CASE WriteReceiptFails
  <2>1. /\ Unconfigured /\ Bare /\ ~Present /\ service.st \in {"absent", "stopped"}
    BY <1>6, RemovalIsBare DEF WriteReceiptFails, SetupInv, RemovalInv
  <2>2. \A t \in live : ~(t.inst = files.identity.inst /\ t.dest = Home)
    BY <2>1 DEF Present
  <2>3. receipt' = receipt \/ (receipt'.there /\ receipt'.files = files)
    BY <1>6 DEF WriteReceiptFails
  <2> QED BY <1>6, <1>com, <1>host, <2>1, <2>2, <2>3 DEF WriteReceiptFails, End, CompletingInv,
       ReceiptIsTrue, Validated
<1>7. CASE Resume
  <2>1. /\ receipt.there /\ pc' = "p_finish" /\ UNCHANGED <<files, receipt, live, service>>
    BY <1>7 DEF Resume, Begin
  <2>2. Unconfigured'
    BY <1>7, ResumeUnhosts DEF Unconfigured, Managed, ClaudeManaged
  <2>3. Bare'
    BY <1>7, <2>1, ResumeUnhosts, PurgeIsBare DEF Resume, Bare, HostFile
  <2> QED BY <1>com, <2>1, <2>2, <2>3 DEF CompletingInv, ReceiptIsTrue, Validated
<1>8. CASE PurgeService
  BY <1>8, <1>com, <1>host DEF PurgeService, Goto, CompletingInv, ReceiptIsTrue, Validated,
     NoService
<1>9. CASE PurgeServiceFails
  <2>1. service'.st \in {"stopped", "partial", service.st}
    BY <1>9, <1>ser DEF PurgeServiceFails, Service
  <2>2. /\ pc = "p_finish" /\ pc' = "idle" /\ UNCHANGED <<files, host, receipt, live, orphans>>
    BY <1>9 DEF PurgeServiceFails, End
  <2> QED BY <1>com, <1>host, <2>1, <2>2 DEF CompletingInv, ReceiptIsTrue, Validated
<1>10. CASE RemoveCredentials
  BY <1>10, <1>com, <1>host DEF RemoveCredentials, Goto, CompletingInv, ReceiptIsTrue,
     Validated, NoFiles
<1>11. CASE RemoveCredentialsFails
  <2>1. /\ files'.identity \in {NoIdentity, files.identity} /\ files'.relay \in {NoRelay, files.relay}
        /\ files'.ingress = files.ingress
    BY <1>11, <1>typ DEF RemoveCredentialsFails, TypeOK, Files
  <2>2. /\ pc = "p_files" /\ pc' = "idle" /\ UNCHANGED <<host, receipt, live, service, orphans>>
    BY <1>11 DEF RemoveCredentialsFails, End
  <2> QED BY <1>com, <1>host, <2>1, <2>2 DEF CompletingInv, ReceiptIsTrue, Validated
<1>12. CASE RemoveReceipt
  BY <1>12, <1>com, <1>host DEF RemoveReceipt, End, CompletingInv, ReceiptIsTrue, NoReceipt
<1>13. CASE RemoveReceiptFails
  BY <1>13, <1>com, <1>host DEF RemoveReceiptFails, End, CompletingInv, ReceiptIsTrue,
     Validated, NoReceipt
<1> QED BY <1>1, <1>2, <1>3, <1>4, <1>5, <1>6, <1>7, <1>8, <1>9, <1>10, <1>11, <1>12, <1>13 DEF Purge

LEMMA PurgeReports == SetupInv /\ Purge => ReportsAreTrue'
<1> SUFFICES ASSUME SetupInv, Purge PROVE ReportsAreTrue'
  OBVIOUS
<1>typ. TypeOK /\ PhaseInv
  BY DEF SetupInv
<1> USE DEF Tokens, machine, command, history
<1> USE <1>typ DEF PhaseInv, ReportsAreTrue
<1>1. CASE PurgeStop
  BY <1>1 DEF PurgeStop, Goto
<1>2. CASE Revoke
  BY <1>2 DEF Revoke, Goto
<1>3. CASE NotRevoked
  BY <1>3 DEF NotRevoked, Goto
<1>4. CASE Unconfirmed
  BY <1>4 DEF Unconfirmed, End
<1>5. CASE WriteReceipt
  BY <1>5 DEF WriteReceipt, Goto
<1>6. CASE WriteReceiptFails
  BY <1>6 DEF WriteReceiptFails, End
<1>7. CASE Resume
  BY <1>7 DEF Resume, Begin
<1>8. CASE PurgeService
  BY <1>8 DEF PurgeService, Goto
<1>9. CASE PurgeServiceFails
  BY <1>9 DEF PurgeServiceFails, End
<1>10. CASE RemoveCredentials
  BY <1>10 DEF RemoveCredentials, Goto
<1>11. CASE RemoveCredentialsFails
  BY <1>11 DEF RemoveCredentialsFails, End
<1>12. CASE RemoveReceipt
  <2>1. /\ pc = "p_end" /\ report' = "purged" /\ receipt' = NoReceipt
        /\ UNCHANGED <<files, service, queue, host, orphans>>
    BY <1>12 DEF RemoveReceipt, End
  <2>2. receipt.there
    BY <1>typ, <2>1
  <2>3. files = NoFiles /\ service = NoService /\ ~queue
    BY <2>1 DEF SetupInv, CompletingInv
  <2>4. \A f \in HostFile \ orphans : host[f] = 0
    BY <2>2, PurgeIsBare DEF Unconfigured, Managed, ClaudeManaged, Bare, HostFile
  <2> QED BY <2>1, <2>3, <2>4 DEF NoReceipt
<1>13. CASE RemoveReceiptFails
  BY <1>13 DEF RemoveReceiptFails, End
<1> QED BY <1>1, <1>2, <1>3, <1>4, <1>5, <1>6, <1>7, <1>8, <1>9, <1>10, <1>11, <1>12, <1>13 DEF Purge

LEMMA PurgeKeepsInv == SetupInv /\ Purge => SetupInv'
<1> SUFFICES ASSUME SetupInv, Purge PROVE SetupInv'
  OBVIOUS
<1>typ. TypeOK /\ PhaseInv
  BY DEF SetupInv
<1>1. pc' \in Removing \union Completing \union {"idle"}
  BY <1>typ, PurgeSteps DEF PurgeStep
<1>2. FoundInv' /\ ApplyInv' /\ UndoInv'
  BY <1>1 DEF FoundInv, ApplyInv, UndoInv
<1> QED BY <1>typ, <1>2, TypePurge, PhasePurge, PurgeKeepsMachine, PurgeKeepsRemoval, PurgeKeepsCompleting,
     PurgeReports DEF SetupInv

--------------------------------------------------------------------------------
(* The machine when a command dies, and between the commands.              *)

(* A command that dies in a state transaction or in the service tears it.  *)
LEMMA DyingTears ==
    ASSUME SetupInv, Die
    PROVE  /\ pc # "idle" /\ pc' = "idle" /\ report' = "none" /\ orphans' = orphans \union Lost'
           /\ UNCHANGED <<receipt, live, queue, shipped>>
           /\ receipt.there => UNCHANGED <<files, host, service>>
           /\ files'.identity.inst = files.identity.inst
           /\ torn' = TRUE \/ UNCHANGED <<files, service, torn>>
<1>typ. TypeOK /\ PhaseInv
  BY DEF SetupInv
<1>act. /\ pc # "idle" /\ pc' = "idle" /\ report' = "none" /\ orphans' = orphans \union Lost'
        /\ UNCHANGED <<receipt, live, queue, shipped>>
        /\ DieWithin \/ UNCHANGED <<files, host, service, torn>>
  BY DEF Die, End
<1>1. CASE UNCHANGED <<files, host, service, torn>>
  BY <1>act, <1>1
<1>2. CASE DieWithin
  <2>1. ~receipt.there
    BY <1>typ, <1>2 DEF DieWithin, PhaseInv
  <2>2. torn' = TRUE \/ UNCHANGED <<files, service, torn>>
    BY <1>2 DEF DieWithin
  <2>3. files'.identity.inst = files.identity.inst
    BY <1>2, SetupHasIdentity DEF DieWithin
  <2> QED BY <1>act, <2>1, <2>2, <2>3
<1> QED BY <1>act, <1>1, <1>2

LEMMA DyingKeepsRoute == SetupInv /\ Die => NativeRoute'
<1> SUFFICES ASSUME SetupInv, Die, ~torn' PROVE NativeRoute'
  BY DEF NativeRoute
<1>typ. TypeOK /\ PhaseInv
  BY DEF SetupInv
<1>act. /\ DieWithin \/ UNCHANGED <<files, host, service, torn>>
        /\ UNCHANGED <<files, service, torn>>
  BY DyingTears DEF Die
<1>route. \A f \in Native : host[f] # 0 => /\ service.st = "running" /\ host[f] = files.identity.inst
                                           /\ files.relay.inst = files.identity.inst
  BY <1>act DEF SetupInv, MachineInv, Rooted, NativeRoute
<1>nat. Native \subseteq HostFile /\ "hooks" \notin Native
  BY DEF Native, HostFile
<1>1. CASE host' = host
  BY <1>act, <1>route, <1>1 DEF NativeRoute
<1>2. CASE pc = "native" /\ \E S \in Begun(InstalledHost) : host' = Partly(S, InstalledHost)
  <2>1. \A f \in Native : host'[f] \in {host[f], Target.identity.inst}
    BY <1>2, <1>nat, PartlyIsEither, InstalledIsBound DEF Native
  <2>2. files = Target /\ service = [st |-> "running", rt |-> shipped]
    BY <1>2 DEF SetupInv, ApplyInv
  <2>3. Target.relay.inst = Target.identity.inst
    BY <1>typ, TargetIsFiles
  <2> QED BY <1>act, <1>route, <2>1, <2>2, <2>3 DEF NativeRoute
<1>3. CASE pc = "u_host" /\ \E S \in BegunUndo(HostBefore) : host' = Partly(S, HostBefore)
  <2>1. \A f \in Native : host'[f] \in {host[f], HostBefore[f]}
    BY <1>3, <1>nat, PartlyIsEither
  <2>2. \A f \in Native : HostBefore[f] = IF "native" \in applied THEN was.host[f] ELSE host[f]
    BY <1>nat DEF HostBefore
  <2>3. CASE "native" \notin applied
    BY <1>act, <1>route, <2>1, <2>2, <2>3 DEF NativeRoute
  <2>4. CASE "native" \in applied
    <3>1. files = Target /\ service = [st |-> "running", rt |-> shipped]
      BY <1>3, <2>4 DEF SetupInv, UndoInv, ApplyInv
    <3>2. /\ Target.relay.inst = Target.identity.inst /\ files.identity.inst = was.files.identity.inst
      BY <1>typ, <1>3, TargetIsFiles, SetupHasIdentity
    <3>3. \A f \in Native : was.host[f] # 0 => was.host[f] = was.files.identity.inst
      BY <1>act, <1>3 DEF SetupInv, FoundInv, Routed
    <3> QED BY <1>act, <1>route, <2>1, <2>2, <2>4, <3>1, <3>2, <3>3 DEF NativeRoute
  <2> QED BY <2>3, <2>4
<1>4. CASE pc = "r_host" /\ \E S \in BegunUndo(was.host) : host' = Partly(S, was.host)
  <2>1. \A f \in Native : host'[f] \in {host[f], was.host[f]}
    BY <1>4, <1>nat, PartlyIsEither
  <2>2. /\ files = was.files /\ Routed(was.host, was.files, was.service) /\ service.st = was.service.st
    BY <1>4, <1>act, <1>typ DEF SetupInv, RemovalInv, PhaseInv
  <2> QED BY <1>act, <1>route, <2>1, <2>2 DEF NativeRoute, Routed
<1> QED BY <1>act, <1>1, <1>2, <1>3, <1>4 DEF DieWithin

(* What a command leaves that dies between the state files and the settings*)
(* of the checkouts is an orphan.                                          *)
LEMMA DyingKeepsCheckouts == SetupInv /\ Die => CheckoutRoute'
<1> SUFFICES ASSUME SetupInv, Die, ~torn', NEW r \in Repo \ orphans', host'[r] # 0
             PROVE  service'.st = "running" /\ host'[r] = files'.relay.bind[r]
  BY DEF CheckoutRoute
<1>typ. TypeOK /\ PhaseInv
  BY DEF SetupInv
<1>act. /\ pc # "idle" /\ orphans' = orphans \union Lost'
        /\ DieWithin \/ UNCHANGED <<files, host, service, torn>>
        /\ UNCHANGED <<files, service, torn>>
  BY DyingTears DEF Die
<1>r. /\ r \in Repo /\ r \notin orphans /\ r \in HostFile /\ r # "hooks"
      /\ host'[r] = files.identity.bind[r]
  BY <1>act, SetupAssumption DEF Lost, HostFile
<1>route. host[r] # 0 => /\ service.st = "running"
                         /\ host[r] = files.relay.bind[r] \/ (Rebinding /\ host[r] = was.files.relay.bind[r])
  BY <1>act, <1>r DEF SetupInv, MachineInv, CheckoutRoute
<1>bind. Target.relay.bind = Target.identity.bind
  BY <1>typ, TargetIsFiles
<1>set. pc \in Applying \union Undoing \union {"r_host"} /\ was.host[r] # 0 =>
          was.service.st = "running" /\ was.host[r] = was.files.relay.bind[r]
  BY <1>act, <1>r DEF SetupInv, FoundInv, RemovalInv, Bound
<1>before. \A S : Partly(S, HostBefore)[r] \in {host[r], IF "native" \in applied THEN was.host[r] ELSE host[r]}
  <2>1. HostBefore[r] = IF "native" \in applied THEN was.host[r] ELSE host[r]
    BY <1>r DEF HostBefore
  <2> QED BY <1>r, <2>1, PartlyIsEither
<1>1. CASE pc = "r_host"
  <2>1. files = was.files /\ service.st = was.service.st /\ host'[r] \in {host[r], was.host[r]}
    BY <1>1, <1>act, <1>typ, <1>r, PartlyIsEither DEF DieWithin, SetupInv, RemovalInv, PhaseInv
  <2> QED BY <1>1, <1>act, <1>route, <1>set, <2>1 DEF Rebinding
<1>2. CASE pc = "service"
  <2>1. files = Target /\ host' = host
    BY <1>2, <1>act DEF DieWithin, SetupInv, ApplyInv
  <2> QED BY <1>act, <1>r, <1>route, <1>bind, <2>1
<1>3. CASE pc = "native"
  <2>1. files = Target /\ service = [st |-> "running", rt |-> shipped]
    BY <1>3 DEF SetupInv, ApplyInv
  <2> QED BY <1>act, <1>r, <1>bind, <2>1
<1>4. CASE pc \in {"u_host", "u_state"} /\ "state" \in applied
  <2>1. files = Target
    BY <1>4 DEF SetupInv, UndoInv
  <2>2. host'[r] = host[r] \/ ("native" \in applied /\ host'[r] = was.host[r])
    BY <1>4, <1>act, <1>before DEF DieWithin
  <2>3. "native" \in applied => service.st = "running"
    BY <1>4 DEF SetupInv, UndoInv, ApplyInv
  <2> QED BY <1>act, <1>r, <1>route, <1>bind, <2>1, <2>2, <2>3
<1>5. CASE pc \in {"u_host", "u_state"} /\ "state" \notin applied
  <2>1. "native" \notin applied /\ files = was.files /\ host[r] = was.host[r]
    BY <1>5, <1>act, <1>r, <1>typ DEF SetupInv, UndoInv, PhaseInv
  <2>2. host'[r] = host[r]
    BY <1>5, <1>act, <1>before, <2>1 DEF DieWithin
  <2> QED BY <1>5, <1>act, <1>route, <1>set, <2>1, <2>2
<1>6. CASE ~Rebinding /\ pc # "r_host"
  <2>1. host' = host
    BY <1>6, <1>act DEF DieWithin, Rebinding
  <2> QED BY <1>6, <1>act, <1>route, <2>1
<1> QED BY <1>1, <1>2, <1>3, <1>4, <1>5, <1>6 DEF Rebinding

LEMMA DyingKeepsInv == SetupInv /\ Die => SetupInv'
<1> SUFFICES ASSUME SetupInv, Die PROVE SetupInv'
  OBVIOUS
<1>typ. TypeOK /\ PhaseInv
  BY DEF SetupInv
<1>act. /\ pc # "idle" /\ pc' = "idle" /\ report' = "none" /\ orphans' = orphans \union Lost'
        /\ UNCHANGED <<receipt, live, queue, shipped>>
        /\ receipt.there => UNCHANGED <<files, host, service>>
        /\ files'.identity.inst = files.identity.inst
        /\ torn' = TRUE \/ UNCHANGED <<files, service, torn>>
  BY DyingTears
<1>1. MachineInv'
  <2>1. receipt.there \/ files'.identity.inst # 0
    BY <1>act DEF SetupInv, MachineInv, Rooted
  <2>2. /\ ~receipt'.there /\ ~torn' => Coherent(files')
        /\ ~torn' => service'.st # "torn"
    BY <1>act DEF SetupInv, MachineInv, Rooted
  <2>3. Strays(host', files') \subseteq orphans'
    BY <1>act DEF Strays, Lost
  <2> QED BY <1>act, <2>1, <2>2, <2>3, DyingKeepsRoute, DyingKeepsCheckouts DEF MachineInv, Rooted
<1>2. FoundInv' /\ ApplyInv' /\ UndoInv' /\ RemovalInv'
  BY <1>act DEF FoundInv, ApplyInv, UndoInv, RemovalInv
<1>3. CompletingInv'
  <2>1. CASE ~receipt.there
    BY <1>act, <2>1 DEF CompletingInv, ReceiptIsTrue
  <2>2. CASE receipt.there
    BY <1>act, <2>2 DEF SetupInv, CompletingInv, ReceiptIsTrue, Validated, Unconfigured, Managed,
       ClaudeManaged, Bare
  <2> QED BY <2>1, <2>2
<1>4. ReportsAreTrue'
  BY <1>act DEF ReportsAreTrue
<1>5. TypeOK' /\ PhaseInv'
  BY <1>typ, TypeAround, PhaseAround DEF Around
<1> QED BY <1>1, <1>2, <1>3, <1>4, <1>5 DEF SetupInv

(* Between the commands the configuration stays.                           *)
Between == Ship \/ Record \/ \E p \in Policies : ChangePolicy(p)

LEMMA BetweenKeepsInv == SetupInv /\ Between => SetupInv'
<1> SUFFICES ASSUME SetupInv, Between PROVE SetupInv'
  OBVIOUS
<1>typ. TypeOK /\ PhaseInv
  BY DEF SetupInv
<1>act. /\ pc = "idle" /\ pc' = "idle" /\ report' = "none"
        /\ UNCHANGED <<files, host, service, live, receipt, torn, orphans>>
        /\ queue' = queue \/ service.st = "running"
  BY DEF Between, Ship, Record, ChangePolicy, Idle
<1>1. MachineInv'
  BY <1>act DEF SetupInv, MachineInv, Rooted, NativeRoute, CheckoutRoute, Rebinding, NoService
<1>2. FoundInv' /\ ApplyInv' /\ UndoInv' /\ RemovalInv'
  BY <1>act DEF FoundInv, ApplyInv, UndoInv, RemovalInv
<1>3. CompletingInv'
  BY <1>act DEF SetupInv, CompletingInv, ReceiptIsTrue, Validated, Unconfigured, Managed, ClaudeManaged,
     Bare
<1>4. ReportsAreTrue'
  BY <1>act DEF ReportsAreTrue
<1>5. TypeOK' /\ PhaseInv'
  BY <1>typ, TypeAround, PhaseAround DEF Around, Between
<1> QED BY <1>1, <1>2, <1>3, <1>4, <1>5 DEF SetupInv

(* A token that is revoked elsewhere is one token less.                    *)
LEMMA RevocationKeepsInv ==
    ASSUME SetupInv, NEW t \in live, RevokeElsewhere(t) PROVE SetupInv'
<1>typ. TypeOK /\ PhaseInv
  BY DEF SetupInv
<1>act. /\ report' = "none" /\ live' \subseteq live
        /\ UNCHANGED <<policy, shipped, files, host, service, queue, receipt, commands, pc, op, wants, was, creds, minted,
                       applied, bad, hidden, torn, orphans, unreceived>>
  BY <1>typ DEF RevokeElsewhere, PhaseInv, command, history
<1>1. MachineInv'
  BY <1>act DEF SetupInv, MachineInv, Rooted, NativeRoute, CheckoutRoute, Rebinding
<1>2. FoundInv'
  BY <1>act DEF SetupInv, FoundInv, Bound
<1>3. ApplyInv' /\ UndoInv'
  <2>1. Target' = Target
    BY <1>act, TargetStays
  <2> QED BY <1>act, <2>1 DEF SetupInv, ApplyInv, UndoInv
<1>4. RemovalInv'
  BY <1>act DEF SetupInv, RemovalInv, Installed, Unconfigured, Managed, ClaudeManaged, Bound, Listed, Present
<1>5. CompletingInv'
  BY <1>act DEF SetupInv, CompletingInv, ReceiptIsTrue, Validated, Unconfigured, Managed, ClaudeManaged,
     Bare
<1>6. ReportsAreTrue'
  BY <1>act DEF ReportsAreTrue
<1>7. TypeOK' /\ PhaseInv'
  BY <1>typ, TypeAround, PhaseAround DEF Around
<1> QED BY <1>1, <1>2, <1>3, <1>4, <1>5, <1>6, <1>7 DEF SetupInv

LEMMA InitHasInv == Init => SetupInv
<1> SUFFICES ASSUME Init PROVE SetupInv
  OBVIOUS
<1>1. TypeOK
  <2>1. 0 \in 0 .. MaxFaults /\ 1 \in 1 .. 2
    BY SetupAssumption
  <2> QED BY <2>1, ConstantsAreTyped DEF Init, TypeOK, Steps, Ops, Reports
<1>2. PhaseInv
  BY DEF Init, PhaseInv, NoReceipt
<1>3. MachineInv
  BY SetupAssumption DEF Init, MachineInv, Rooted, NativeRoute, CheckoutRoute, NoFiles, NoIdentity, NoRelay, NoHost,
     HostFile, Native,
     NoService, Coherent, Strays, NoReceipt
<1>4. FoundInv /\ ApplyInv /\ UndoInv /\ RemovalInv /\ CompletingInv
  BY DEF Init, FoundInv, ApplyInv, UndoInv, RemovalInv, CompletingInv, ReceiptIsTrue, NoReceipt
<1>5. ReportsAreTrue
  BY DEF Init, ReportsAreTrue
<1> QED BY <1>1, <1>2, <1>3, <1>4, <1>5 DEF SetupInv

LEMMA NextKeepsInv == SetupInv /\ [Next]_vars => SetupInv'
<1> SUFFICES ASSUME SetupInv, [Next]_vars PROVE SetupInv'
  OBVIOUS
<1>1. CASE Setups
  BY <1>1, SetupsKeepInv
<1>2. CASE Removal
  BY <1>2, RemovalKeepsInv
<1>3. CASE Purge
  BY <1>3, PurgeKeepsInv
<1>4. CASE Around
  BY <1>4, DyingKeepsInv, BetweenKeepsInv, RevocationKeepsInv DEF Around, Between
<1>5. CASE UNCHANGED vars
  <2> USE <1>5 DEF vars, machine, command, history
  <2>1. TypeOK' /\ PhaseInv' /\ MachineInv' /\ FoundInv'
    BY DEF SetupInv, TypeOK, PhaseInv, MachineInv, Rooted, NativeRoute, CheckoutRoute, Rebinding, FoundInv, Bound
  <2>2. ApplyInv' /\ UndoInv'
    BY TargetStays DEF SetupInv, ApplyInv, UndoInv
  <2>3. RemovalInv' /\ CompletingInv'
    BY DEF SetupInv, RemovalInv, Installed, Unconfigured, Managed, ClaudeManaged, Bare, Bound, Present,
       CompletingInv, ReceiptIsTrue, Validated
  <2>4. ReportsAreTrue'
    BY DEF SetupInv, ReportsAreTrue, SetUp, AsFound, Accepts, Destinations, Unconfigured, Managed,
       ClaudeManaged
  <2> QED BY <2>1, <2>2, <2>3, <2>4 DEF SetupInv
<1> QED BY <1>1, <1>2, <1>3, <1>4, <1>5 DEF Next

(* What each step of a command may rely on: what the code compares, undoes *)
(* and reports rests on it (performSetup, disable, uninstallLocal,         *)
(* purgeUninstall, finishConfirmedPurge).                                  *)
THEOREM SetupInvariant == Spec => []SetupInv
BY InitHasInv, NextKeepsInv, PTL DEF Spec

--------------------------------------------------------------------------------
(* What holds of every behaviour.                                          *)

LEMMA PurgeKeepsRecovery == SetupInv /\ Purge => (GivenUp => receipt.there /\ receipt'.there)
<1> SUFFICES ASSUME SetupInv, Purge PROVE (GivenUp => receipt.there /\ receipt'.there)
  OBVIOUS
<1>typ. TypeOK /\ PhaseInv
  BY DEF SetupInv
<1> USE <1>typ DEF Tokens, machine, command, history
<1>1. CASE PurgeStop
  BY <1>1 DEF PurgeStop, Goto, GivenUp, PhaseInv
<1>2. CASE Revoke
  BY <1>2 DEF Revoke, Goto, GivenUp, PhaseInv
<1>3. CASE NotRevoked
  BY <1>3 DEF NotRevoked, Goto, GivenUp, PhaseInv
<1>4. CASE Unconfirmed
  BY <1>4 DEF Unconfirmed, End, GivenUp, PhaseInv
<1>5. CASE WriteReceipt
  BY <1>5 DEF WriteReceipt, Goto, GivenUp, PhaseInv
<1>6. CASE WriteReceiptFails
  BY <1>6 DEF WriteReceiptFails, End, GivenUp, PhaseInv
<1>7. CASE Resume
  BY <1>7 DEF Resume, Begin, GivenUp, PhaseInv
<1>8. CASE PurgeService
  BY <1>8 DEF PurgeService, Goto, GivenUp, PhaseInv
<1>9. CASE PurgeServiceFails
  BY <1>9 DEF PurgeServiceFails, End, GivenUp, PhaseInv
<1>10. CASE RemoveCredentials
  BY <1>10 DEF RemoveCredentials, Goto, GivenUp, PhaseInv
<1>11. CASE RemoveCredentialsFails
  BY <1>11 DEF RemoveCredentialsFails, End, GivenUp, PhaseInv
<1>12. CASE RemoveReceipt
  BY <1>12 DEF RemoveReceipt, End, GivenUp, PhaseInv, SetupInv, CompletingInv, NoFiles, NoIdentity
<1>13. CASE RemoveReceiptFails
  BY <1>13 DEF RemoveReceiptFails, End, GivenUp, PhaseInv, SetupInv, CompletingInv, NoFiles, NoIdentity
<1> QED BY <1>1, <1>2, <1>3, <1>4, <1>5, <1>6, <1>7, <1>8, <1>9, <1>10, <1>11, <1>12, <1>13 DEF Purge

LEMMA NextKeepsRecovery == SetupInv /\ [Next]_vars => [GivenUp => receipt.there /\ receipt'.there]_vars
<1> SUFFICES ASSUME SetupInv, [Next]_vars PROVE GivenUp => receipt.there /\ receipt'.there
  OBVIOUS
<1>typ. TypeOK /\ PhaseInv
  BY DEF SetupInv
<1>1. CASE Setups
  <2>1. files'.identity.inst # 0 /\ queue' = queue
    BY <1>1, <1>typ, SetupsKeepIdentity, SetupSteps DEF SetupStep
  <2> QED BY <2>1 DEF GivenUp
<1>2. CASE Removal
  BY <1>2, <1>typ, RemovalSteps DEF RemovalStep, GivenUp
<1>3. CASE Purge
  BY <1>3, PurgeKeepsRecovery
<1>4. CASE Die
  BY <1>4, DyingTears DEF GivenUp
<1>5. CASE Between
  BY <1>5 DEF Between, Ship, Record, ChangePolicy, Idle, GivenUp
<1>6. ASSUME NEW t \in live, RevokeElsewhere(t) PROVE ~GivenUp
  BY <1>6 DEF RevokeElsewhere, GivenUp
<1>7. CASE UNCHANGED vars
  BY <1>7 DEF vars, machine, GivenUp
<1> QED BY <1>1, <1>2, <1>3, <1>4, <1>5, <1>6, <1>7 DEF Next, Around, Between

(* Every variable of a setup or a removal keeps its type.                  *)
THEOREM SetupTypeCorrect == Spec => []TypeOK
<1>1. SetupInv => TypeOK
  BY DEF SetupInv
<1> QED BY <1>1, SetupInvariant, PTL

(* What a setup, a disable, an uninstallation or a purge reports is what   *)
(* the machine has, but for the settings of the checkouts a command died   *)
(* for (performSetup, disable, uninstallLocal, purgeUninstall).            *)
THEOREM ReportsStayTrue == Spec => []ReportsAreTrue
<1>1. SetupInv => ReportsAreTrue
  BY DEF SetupInv
<1> QED BY <1>1, SetupInvariant, PTL

(* No host is pointed at a service that does not run, nor at a binding the *)
(* relay configuration does not have: the global files nor the settings of *)
(* the checkouts, until an undo fails.  Between the state files and the    *)
(* settings a setup writes after them, and for the checkouts a command     *)
(* died there for, only the first is claimed, or nothing (performSetup,    *)
(* prepareHostRemoval, applyHostRemoval).                                  *)
THEOREM RoutesAreLive == Spec => []NoDeadRoute
<1>1. SetupInv => NoDeadRoute
  BY DEF SetupInv, MachineInv, NativeRoute, CheckoutRoute, NoDeadRoute
<1> QED BY <1>1, SetupInvariant, PTL

(* The receipt stays true while it is there: the token is revoked, and     *)
(* what is left is what the receipt lets a purge remove                    *)
(* (writeConfirmedPurgeRecord, ensureNoPurgePending, finishConfirmedPurge).*)
THEOREM ReceiptStaysTrue == Spec => []ReceiptIsTrue
<1>1. SetupInv => ReceiptIsTrue
  BY DEF SetupInv, CompletingInv
<1> QED BY <1>1, SetupInvariant, PTL

(* Wherever a command failed or died outside the state files and the       *)
(* service, a setup may begin again (setupCommand's ownership checks).     *)
THEOREM RepairStaysPossible == Spec => []RepairIsPossible
<1>1. SetupInv => RepairIsPossible
  BY DEF SetupInv, MachineInv, Rooted, RepairIsPossible, MaySetUp, Coherent, NoFiles, NoIdentity, NoRelay,
     NoService
<1> QED BY <1>1, SetupInvariant, PTL

(* No step gives up the identity or the records in the queue but those of  *)
(* a purge that has its receipt (finishConfirmedPurge).                    *)
THEOREM RecoveryIsKept == Spec => RecoveryKept
BY SetupInvariant, NextKeepsRecovery, PTL DEF Spec, RecoveryKept

================================================================================
