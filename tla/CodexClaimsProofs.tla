--------------------------- MODULE CodexClaimsProofs ---------------------------
(***************************************************************************)
(* However logs, claims, sweeps, failed sends, changes of the configuration *)
(* and deaths of the relay interleave, for any number of requests, sessions *)
(* and bindings: logs that were accepted are on their way or counted, and a *)
(* session stays with the repository whose claim came first.               *)
(***************************************************************************)
EXTENDS CodexClaims, FiniteSetTheorems, TLAPS

--------------------------------------------------------------------------------
(* Numbers and lists.                                                      *)

(* Induction over the naturals, as the library's theorems cannot be used:  *)
(* a set of naturals has a least element.                                  *)
LEMMA LeastExists ==
    ASSUME NEW T \in SUBSET Nat, T # {}
    PROVE  \E x \in T : \A y \in T : x <= y
<1>1. PICK x \in T : \A y \in T : ~(<<y, x>> \in OpToRel(<, Nat))
  BY NatLessThanWellFounded, WFMin
<1>2. \A y \in T : ~(y < x)
  BY <1>1 DEF OpToRel
<1>3. \E z \in T : \A y \in T : ~(y < z)
  BY <1>2
<1> QED BY <1>3

LEMMA GreatestExists ==
    ASSUME NEW L \in Nat, NEW K \in SUBSET (1..L), K # {}
    PROVE  \E m \in K : \A k \in K : k <= m
<1> DEFINE U == {u \in Nat : \A k \in K : k <= u}
<1>1. L \in U
  OBVIOUS
<1>2. PICK m \in U : \A u \in U : m <= u
  BY <1>1, LeastExists
<1>3. m \in K
  <2> SUFFICES ASSUME m \notin K PROVE FALSE
    OBVIOUS
  <2>1. PICK k \in K : TRUE
    OBVIOUS
  <2>2. m \in Nat /\ k >= 1 /\ k <= m
    BY <2>1
  <2>3. m - 1 \in U
    BY <2>2
  <2> QED BY <1>2, <2>2, <2>3
<1> QED BY <1>3

Increasing(f) == \A i, j \in DOMAIN f : i < j => f[i] < f[j]

LEMMA PlacesAreFinite ==
    ASSUME NEW L \in Nat, NEW K \in SUBSET (1..L)
    PROVE  IsFiniteSet(K) /\ Cardinality(K) \in Nat
<1>1. IsFiniteSet(1..L)
  BY FS_Interval
<1>2. IsFiniteSet(K)
  BY <1>1, FS_Subset
<1> QED BY <1>2, FS_CardinalityType

(* Every set of places of a list can be put in order.                      *)
LEMMA OrderExists ==
    ASSUME NEW L \in Nat
    PROVE  \A K \in SUBSET (1..L) : \E f \in [1..Cardinality(K) -> K] : Increasing(f)
<1> DEFINE Ordered(K) == \E f \in [1..Cardinality(K) -> K] : Increasing(f)
           Bad == {n \in Nat : \E K \in SUBSET (1..L) : Cardinality(K) = n /\ ~Ordered(K)}
<1>1. \A K \in SUBSET (1..L) : IsFiniteSet(K) /\ Cardinality(K) \in Nat
  BY PlacesAreFinite
<1>2. SUFFICES Bad = {}
  BY <1>1
<1>3. SUFFICES ASSUME Bad # {} PROVE FALSE
  OBVIOUS
<1>4. PICK n \in Bad : \A y \in Bad : n <= y
  BY <1>3, LeastExists
<1>5. PICK K \in SUBSET (1..L) : Cardinality(K) = n /\ ~Ordered(K)
  OBVIOUS
<1>6. n \in Nat /\ IsFiniteSet(K)
  BY <1>1
<1>7. K # {}
  <2> SUFFICES ASSUME K = {} PROVE Ordered(K)
    BY <1>5
  <2>1. Cardinality(K) = 0
    BY FS_EmptySet
  <2>2. [i \in 1..0 |-> i] \in [1..0 -> {}] /\ Increasing([i \in 1..0 |-> i])
    BY DEF Increasing
  <2> QED BY <2>1, <2>2
<1>8. PICK m \in K : \A k \in K : k <= m
  BY <1>7, GreatestExists
<1>9. K \ {m} \in SUBSET (1..L) /\ Cardinality(K \ {m}) = n - 1
  BY <1>5, <1>6, FS_RemoveElement
<1>10. n - 1 \in Nat /\ n - 1 \notin Bad
  BY <1>1, <1>4, <1>6, <1>9
<1>11. PICK f \in [1..(n - 1) -> K \ {m}] : Increasing(f)
  BY <1>9, <1>10
<1> DEFINE g == [i \in 1..n |-> IF i = n THEN m ELSE f[i]]
<1>12. g \in [1..n -> K]
  BY <1>6, <1>11
<1>13. Increasing(g)
  <2> SUFFICES ASSUME NEW i \in 1..n, NEW j \in 1..n, i < j
               PROVE  g[i] < g[j]
    BY DEF Increasing
  <2>1. i \in 1..(n - 1) /\ i # n /\ g[i] = f[i] /\ f[i] \in K \ {m}
    BY <1>6, <1>11
  <2>2. CASE j = n
    <3>1. g[j] = m /\ f[i] <= m /\ f[i] # m
      BY <1>8, <2>1, <2>2
    <3>2. \A k \in K : k \in Int
      OBVIOUS
    <3>3. f[i] \in Int /\ m \in Int
      BY <2>1, <3>2
    <3> QED BY <2>1, <3>1, <3>3
  <2>3. CASE j # n
    <3>1. j \in 1..(n - 1) /\ g[j] = f[j] /\ DOMAIN f = 1..(n - 1)
      BY <1>6, <1>11, <2>3
    <3>2. f[i] < f[j]
      BY <1>11, <2>1, <3>1 DEF Increasing
    <3> QED BY <2>1, <3>1, <3>2
  <2> QED BY <2>2, <2>3
<1> QED BY <1>5, <1>12, <1>13

LEMMA InOrderWorks ==
    ASSUME NEW L \in Nat, NEW K \in SUBSET (1..L)
    PROVE  /\ InOrder(K) \in [1..Cardinality(K) -> K]
           /\ Cardinality(K) \in Nat
           /\ Range(InOrder(K)) = K
<1>1. IsFiniteSet(K) /\ Cardinality(K) \in Nat
  BY PlacesAreFinite
<1> DEFINE f == InOrder(K)
           n == Cardinality(K)
<1>2. f \in [1..n -> K] /\ \A i, j \in DOMAIN f : i < j => f[i] < f[j]
  <2>1. \E h \in [1..Cardinality(K) -> K] : \A i, j \in DOMAIN h : i < j => h[i] < h[j]
    BY OrderExists DEF Increasing
  <2> QED BY <2>1 DEF InOrder
<1> HIDE DEF f
<1>3. f \in Injection(1..n, K)
  <2> SUFFICES ASSUME NEW i \in 1..n, NEW j \in 1..n, f[i] = f[j]
               PROVE  i = j
    BY <1>2 DEF Injection, IsInjective
  <2>1. i < j \/ j < i \/ i = j
    OBVIOUS
  <2>2. f[i] \in K
    BY <1>2
  <2>3. \A k \in K : ~(k < k)
    OBVIOUS
  <2> QED BY <1>2, <2>1, <2>2, <2>3
<1>4. Cardinality(1..n) = n
  BY <1>1, FS_Interval
<1>5. f \in Surjection(1..n, K)
  BY <1>1, <1>3, <1>4, FS_Injection
<1>6. Range(f) = K
  BY <1>2, <1>5 DEF Surjection, Range
<1> QED BY <1>1, <1>2, <1>6 DEF f

(* A list without a set of records is a list of the others.                *)
LEMMA WithoutWorks ==
    ASSUME NEW R, NEW q \in Seq(R), NEW S
    PROVE  Without(q, S) \in Seq(R) /\ Range(Without(q, S)) = Range(q) \ S
<1> DEFINE K == {i \in DOMAIN q : q[i] \notin S}
           e == InOrder(K)
           n == Cardinality(K)
<1>1. Len(q) \in Nat /\ DOMAIN q = 1..Len(q) /\ \A i \in DOMAIN q : q[i] \in R
  OBVIOUS
<1>2. K \in SUBSET (1..Len(q))
  BY <1>1
<1>3. e \in [1..n -> K] /\ n \in Nat /\ Range(e) = K
  BY <1>1, <1>2, InOrderWorks
<1>4. Without(q, S) = [i \in DOMAIN e |-> q[e[i]]]
  BY DEF Without
<1> HIDE DEF e, n
<1>5. Without(q, S) = [i \in 1..n |-> q[e[i]]]
  BY <1>3, <1>4
<1>6. \A i \in 1..n : q[e[i]] \in R
  BY <1>1, <1>3
<1>7. Without(q, S) \in Seq(R)
  BY <1>3, <1>5, <1>6
<1>8. Range(Without(q, S)) = {q[k] : k \in K}
  <2>1. Range(Without(q, S)) = {q[e[i]] : i \in 1..n}
    BY <1>5 DEF Range
  <2>2. K = {e[i] : i \in 1..n}
    BY <1>3 DEF Range
  <2> QED BY <2>1, <2>2
<1>9. {q[k] : k \in K} = Range(q) \ S
  BY DEF Range
<1> QED BY <1>7, <1>8, <1>9

LEMMA TailWorks ==
    ASSUME NEW R, NEW q \in Seq(R), q # <<>>
    PROVE  /\ Head(q) \in R /\ Tail(q) \in Seq(R)
           /\ Range(q) = {Head(q)} \union Range(Tail(q))
<1>1. Len(q) \in Nat \ {0} /\ DOMAIN q = 1..Len(q)
  OBVIOUS
<1>2. Head(q) = q[1] /\ Head(q) \in R /\ Tail(q) \in Seq(R)
  OBVIOUS
<1>3. DOMAIN Tail(q) = 1..(Len(q) - 1) /\ \A i \in 1..(Len(q) - 1) : Tail(q)[i] = q[i + 1]
  BY <1>1
<1>4. ASSUME NEW x \in Range(q) PROVE x \in {Head(q)} \union Range(Tail(q))
  <2>1. PICK i \in 1..Len(q) : x = q[i]
    BY <1>1, <1>4 DEF Range
  <2>2. CASE i = 1
    BY <1>2, <2>1, <2>2
  <2>3. CASE i # 1
    <3>1. i - 1 \in 1..(Len(q) - 1) /\ (i - 1) + 1 = i
      BY <1>1, <2>3
    <3>2. Tail(q)[i - 1] = x
      BY <1>3, <2>1, <3>1
    <3> QED BY <1>3, <3>1, <3>2 DEF Range
  <2> QED BY <2>2, <2>3
<1>5. Head(q) \in Range(q)
  BY <1>1, <1>2 DEF Range
<1>6. ASSUME NEW x \in Range(Tail(q)) PROVE x \in Range(q)
  <2>1. PICK i \in 1..(Len(q) - 1) : x = q[i + 1]
    BY <1>3, <1>6 DEF Range
  <2>2. i + 1 \in DOMAIN q
    BY <1>1
  <2> QED BY <2>1, <2>2 DEF Range
<1> QED BY <1>2, <1>4, <1>5, <1>6

LEMMA AppendWorks ==
    ASSUME NEW R, NEW q \in Seq(R), NEW x \in R
    PROVE  /\ Append(q, x) \in Seq(R) /\ Append(q, x) # <<>>
           /\ Range(Append(q, x)) = Range(q) \union {x}
           /\ q # <<>> => Head(Append(q, x)) = Head(q)
<1>1. Len(q) \in Nat /\ DOMAIN q = 1..Len(q)
  OBVIOUS
<1> DEFINE a == Append(q, x)
<1>2. /\ a \in Seq(R) /\ a # <<>> /\ DOMAIN a = 1..(Len(q) + 1)
      /\ \A i \in 1..Len(q) : a[i] = q[i]
      /\ a[Len(q) + 1] = x
  OBVIOUS
<1> HIDE DEF a
<1>3. Range(a) = Range(q) \union {x}
  <2>1. 1..(Len(q) + 1) = (1..Len(q)) \union {Len(q) + 1}
    BY <1>1
  <2> QED BY <1>1, <1>2, <2>1 DEF Range
<1>4. q # <<>> => Head(a) = Head(q)
  BY <1>1, <1>2 DEF a
<1> QED BY <1>2, <1>3, <1>4 DEF a

LEMMA RangeType == \A R : \A q \in Seq(R) : Range(q) \subseteq R
BY DEF Range

LEMMA EmptyWorks == \A R : <<>> \in Seq(R) /\ Range(<<>>) = {}
BY DEF Range

LEMMA MaxOfZero ==
    ASSUME NEW n \in Int
    PROVE  Down0(n) = IF n >= 0 THEN n ELSE 0
<1> DEFINE m == IF n >= 0 THEN n ELSE 0
<1>1. m \in {0, n} /\ \A y \in {0, n} : m >= y
  OBVIOUS
<1>2. \A x \in {0, n} : (\A y \in {0, n} : x >= y) => x = m
  OBVIOUS
<1> HIDE DEF m
<1>3. Max({0, n}) = m
  BY <1>1, <1>2 DEF Max
<1> QED BY <1>3 DEF m, Down0

LEMMA RecordsAreFinite ==
    ASSUME NEW S \in SUBSET Rec
    PROVE  IsFiniteSet(S) /\ Cardinality(S) \in 0..N
<1>1. IsFiniteSet(Rec) /\ Cardinality(Rec) = N
  BY FS_Interval, ClaimsAssumption DEF Rec
<1>2. IsFiniteSet(S) /\ Cardinality(S) <= N
  BY <1>1, FS_Subset
<1> QED BY <1>2, FS_CardinalityType, ClaimsAssumption

--------------------------------------------------------------------------------
(* The inductive invariant.                                                *)

MaybeBinding == Binding \union {NoBinding}
Claims == [Session -> MaybeBinding]
Accepted == {r \in Rec : req[r] = "accepted"}

(* What is shown as pending has been accepted, in memory and on disk.      *)
Books ==
    /\ claim \in Claims /\ pend \in Nat /\ rej \in Nat
    /\ disk \in [claim : Claims, pend : Nat, rej : Nat]
    /\ pend <= Cardinality(Accepted) /\ disk.pend <= Cardinality(Accepted)

(* A claim that sends has something to send, and an array of its own only  *)
(* then; an array holds records of its session.                            *)
ArrayOf(s) ==
    /\ shared[s] => Sending(s)
    /\ shared[s] \/ ~Sending(s) => array[s] = <<>>
    /\ Sending(s) => Pending(s) # <<>>
    /\ \A r \in Range(buffer[s]) \union Range(array[s]) : Of[r] = s

Arrays ==
    /\ held \in Int
    /\ buffer \in [Session -> Seq(Rec)] /\ array \in [Session -> Seq(Rec)]
    /\ sendTo \in Claims /\ shared \in [Session -> BOOLEAN]
    /\ \A s \in Session : ArrayOf(s)

Rest ==
    /\ config \subseteq Binding /\ workspace \in BOOLEAN /\ up \in BOOLEAN
    /\ asked \in [Session -> Seq(Binding)]
    /\ req \in [Rec -> Phases] /\ dest \in [Rec -> MaybeBinding]
    /\ seen \in [Rec -> [config : SUBSET Binding, workspace : BOOLEAN]]
    /\ old \subseteq Rec /\ forwarded \subseteq Rec /\ rejected \subseteq Rec /\ lost \subseteq Rec
    /\ orphaned \in BOOLEAN
    /\ claims \in 0..MaxClaims /\ troubles \in 0..MaxTroubles

(* A claim is on disk, and while a session is sent to a binding it is      *)
(* claimed for no other one.                                               *)
Standing ==
    \A s \in Session :
        /\ claim[s] # NoBinding => disk.claim[s] = claim[s]
        /\ Sending(s) => up /\ claim[s] \in {sendTo[s], NoBinding}

(* While a claim sends, the array it drops in the end holds nothing that   *)
(* is not elsewhere, and the one in codexBuffers that goes with the last   *)
(* entry holds nothing that is not sent by then.                           *)
KeptOf(s) ==
    /\ sendTo[s] \in config /\ claim[s] = sendTo[s]
    /\ Range(buffer[s]) \subseteq Range(Pending(s)) \union forwarded
    /\ Range(array[s]) \subseteq Range(buffer[s]) \union rejected \union forwarded

Kept ==
    ~orphaned => \A s \in Session : Range(asked[s]) \subseteq config /\ (Sending(s) => KeptOf(s))

ClaimsType == Books /\ Arrays /\ Rest
ClaimsInv == ClaimsType /\ Standing /\ Kept /\ AcceptedIsHeld

LEMMA AcceptedFits ==
    /\ Cardinality(Accepted) \in 0..N /\ IsFiniteSet(Accepted)
    /\ Cardinality(Accepted)' \in 0..N /\ IsFiniteSet(Accepted)'
BY RecordsAreFinite DEF Accepted

LEMMA ClaimsTypeIsTyped == ClaimsType => TypeOK
BY AcceptedFits, ClaimsAssumption
   DEF ClaimsType, Books, Arrays, Rest, TypeOK, Claims, MaybeBinding

LEMMA InitIsClaims == Init => ClaimsInv
<1> SUFFICES ASSUME Init PROVE ClaimsInv
  OBVIOUS
<1> USE ClaimsAssumption DEF Init
<1>1. Nobody \in Claims /\ Nothing \in [Session -> Seq(Rec)] /\ Nothing \in [Session -> Seq(Binding)]
  BY EmptyWorks DEF Nobody, Nothing, Claims, MaybeBinding
<1>2. \A s \in Session : ~Sending(s)
  BY DEF Sending, Nobody
<1>3. Books
  BY <1>1, AcceptedFits DEF Books
<1>4. Arrays
  BY <1>1, <1>2, EmptyWorks DEF Arrays, ArrayOf, Nothing
<1>5. Rest
  <2>1. req \in [Rec -> Phases] /\ dest \in [Rec -> MaybeBinding]
    BY DEF Phases, MaybeBinding
  <2>2. seen \in [Rec -> [config : SUBSET Binding, workspace : BOOLEAN]]
    OBVIOUS
  <2>3. asked \in [Session -> Seq(Binding)]
    BY <1>1
  <2>4. /\ config \subseteq Binding /\ old \subseteq Rec
        /\ forwarded \subseteq Rec /\ rejected \subseteq Rec /\ lost \subseteq Rec
    OBVIOUS
  <2>5. workspace \in BOOLEAN /\ up \in BOOLEAN /\ orphaned \in BOOLEAN
    OBVIOUS
  <2>6. claims \in 0..MaxClaims /\ troubles \in 0..MaxTroubles
    OBVIOUS
  <2> QED BY <2>1, <2>2, <2>3, <2>4, <2>5, <2>6 DEF Rest
<1>6. Standing
  BY <1>2 DEF Standing, Nobody
<1>7. Kept
  BY <1>2, EmptyWorks DEF Kept, Nothing
<1>8. AcceptedIsHeld
  BY DEF AcceptedIsHeld
<1> QED BY <1>3, <1>4, <1>5, <1>6, <1>7, <1>8 DEF ClaimsInv, ClaimsType

--------------------------------------------------------------------------------
(* The sweep of what was held too long.                                    *)

Swept == {r \in old : \E s \in Session : r \in Range(buffer[s])}

LEMMA TouchWorks ==
    ASSUME ClaimsType, Touch
    PROVE  /\ \A s \in Session : /\ buffer'[s] \in Seq(Rec)
                                 /\ Range(buffer'[s]) = Range(buffer[s]) \ old
                                 /\ array'[s] = IF Sending(s) THEN Pending(s) ELSE <<>>
                                 /\ shared'[s] = FALSE /\ Sending(s)' = Sending(s)
                                 /\ claim'[s] \in {claim[s], NoBinding}
                                 /\ claim[s] \in config => claim'[s] = claim[s]
           /\ rejected' = rejected \union Swept
           /\ Cardinality(Swept) \in Nat
           /\ UNCHANGED sendTo
<1>1. Swept \in SUBSET Rec
  BY DEF Swept, ClaimsType, Rest
<1>2. Cardinality(Swept) \in Nat
  BY <1>1, RecordsAreFinite
<1>3. claim' = Configured
  BY DEF Touch, Persist, Remember
<1>4. \A s \in Session : buffer'[s] = Without(buffer[s], old) /\ buffer[s] \in Seq(Rec)
  BY DEF Touch, ClaimsType, Arrays
<1>5. \A s \in Session : buffer'[s] \in Seq(Rec) /\ Range(buffer'[s]) = Range(buffer[s]) \ old
  BY <1>4, WithoutWorks
<1>6. \A s \in Session : claim'[s] \in {claim[s], NoBinding} /\ (claim[s] \in config => claim'[s] = claim[s])
  BY <1>3 DEF Configured
<1> QED BY <1>2, <1>5, <1>6 DEF Touch, Swept, Sending

LEMMA TouchKeepsBooks ==
    ASSUME ClaimsType, Touch, UNCHANGED Accepted
    PROVE  Books'
<1> DEFINE n == Cardinality(Swept)
<1>1. n \in Nat /\ pend \in Nat /\ rej \in Nat
  BY TouchWorks DEF ClaimsType, Books
<1>2. Configured \in Claims
  BY DEF Configured, ClaimsType, Books, Claims, MaybeBinding
<1>3. Down0(pend - n) \in Nat /\ Down0(pend - n) <= pend /\ rej + n \in Nat
  BY <1>1, MaxOfZero
<1>4. \/ Persist(Configured, Down0(pend - n), rej + n)
      \/ Remember(Configured, pend, rej)
  BY DEF Touch, Swept
<1> HIDE DEF n
<1>5. Cardinality(Accepted) \in Nat
  BY AcceptedFits
<1>6. CASE Persist(Configured, Down0(pend - n), rej + n)
  BY <1>1, <1>2, <1>3, <1>5, <1>6 DEF Persist, Books, ClaimsType
<1>7. CASE Remember(Configured, pend, rej)
  BY <1>1, <1>2, <1>7 DEF Remember, Books, ClaimsType
<1> QED BY <1>4, <1>6, <1>7

LEMMA TouchKeepsArrays ==
    ASSUME ClaimsType, Touch
    PROVE  Arrays'
<1>1. held' \in Int
  BY TouchWorks DEF Touch, Swept, ClaimsType, Arrays
<1>2. \A s \in Session : Pending(s) \in Seq(Rec) /\ \A r \in Range(Pending(s)) : Of[r] = s
  BY DEF ClaimsType, Arrays, ArrayOf, Pending
<1>3. buffer' \in [Session -> Seq(Rec)]
  BY TouchWorks DEF Touch
<1>4. array' \in [Session -> Seq(Rec)]
  BY <1>2, EmptyWorks DEF Touch
<1>5. sendTo' \in Claims /\ shared' \in [Session -> BOOLEAN]
  BY DEF Touch, ClaimsType, Arrays
<1>6. ASSUME NEW s \in Session PROVE ArrayOf(s)'
  <2>1. /\ ~shared'[s] /\ Sending(s)' = Sending(s)
        /\ array'[s] = IF Sending(s) THEN Pending(s) ELSE <<>>
        /\ Range(buffer'[s]) \subseteq Range(buffer[s])
    BY TouchWorks
  <2>2. ArrayOf(s)
    BY DEF ClaimsType, Arrays
  <2>3. Range(array'[s]) \subseteq Range(Pending(s))
    BY <2>1, EmptyWorks
  <2>4. \A r \in Range(buffer'[s]) \union Range(array'[s]) : Of[r] = s
    BY <1>2, <2>1, <2>2, <2>3 DEF ArrayOf
  <2>5. Sending(s)' => Pending(s)' # <<>>
    BY <2>1, <2>2 DEF ArrayOf, Pending
  <2> QED BY <2>1, <2>4, <2>5 DEF ArrayOf
<1> QED BY <1>1, <1>3, <1>4, <1>5, <1>6 DEF Arrays

(* The array a claim sends from is the one it was sending from.            *)
LEMMA TouchKeepsPending ==
    ASSUME ClaimsType, Touch, NEW s \in Session, Sending(s)
    PROVE  Pending(s)' = Pending(s)
BY TouchWorks DEF Pending

LEMMA TouchKeepsStanding ==
    ASSUME ClaimsType, Standing, Touch, UNCHANGED up
    PROVE  Standing'
<1>1. disk'.claim = claim' \/ disk' = disk
  BY DEF Touch, Persist, Remember
<1> QED BY <1>1, TouchWorks DEF Standing

LEMMA TouchKeepsKept ==
    ASSUME ClaimsType, Kept, Touch, UNCHANGED <<config, asked, orphaned, forwarded>>
    PROVE  Kept'
<1> SUFFICES ASSUME ~orphaned, NEW s \in Session, Sending(s)
             PROVE  KeptOf(s)'
  BY TouchWorks DEF Kept
<1>1. KeptOf(s)
  BY DEF Kept
<1>2. Pending(s)' = Pending(s) /\ array'[s] = Pending(s)
  BY TouchKeepsPending, TouchWorks
<1>3. sendTo'[s] \in config' /\ claim'[s] = sendTo'[s]
  BY <1>1, TouchWorks DEF KeptOf
<1>4. Range(buffer'[s]) = Range(buffer[s]) \ old
  BY TouchWorks
<1>5. Range(buffer'[s]) \subseteq Range(Pending(s)') \union forwarded'
  BY <1>1, <1>2, <1>4 DEF KeptOf
<1>6. Range(buffer[s]) \subseteq Range(buffer'[s]) \union rejected' /\ rejected \subseteq rejected'
  <2>1. Range(buffer[s]) \intersect old \subseteq Swept
    BY DEF Swept
  <2> QED BY <1>4, <2>1, TouchWorks
<1>7. Range(Pending(s)) \subseteq Range(buffer[s]) \union rejected \union forwarded
  BY <1>1 DEF KeptOf, Pending
<1>8. Range(array'[s]) \subseteq Range(buffer'[s]) \union rejected' \union forwarded'
  BY <1>2, <1>6, <1>7
<1> QED BY <1>3, <1>5, <1>8 DEF KeptOf

(* What is swept is rejected, and what a claim sends from stays.           *)
LEMMA TouchKeepsHeld ==
    ASSUME ClaimsType, AcceptedIsHeld, Touch,
           UNCHANGED <<orphaned, forwarded, lost>>, UNCHANGED Accepted
    PROVE  AcceptedIsHeld'
<1>1. \A s \in Session : Range(buffer[s]) \subseteq Range(buffer'[s]) \union rejected'
  BY TouchWorks DEF Swept
<1>2. \A s \in Session : Range(array[s]) \subseteq Range(array'[s])
  <2> SUFFICES ASSUME NEW s \in Session PROVE Range(array[s]) \subseteq Range(array'[s])
    OBVIOUS
  <2>1. ArrayOf(s)
    BY DEF ClaimsType, Arrays
  <2>2. CASE Sending(s) /\ ~shared[s]
    BY <2>2, TouchWorks DEF Pending
  <2>3. CASE ~Sending(s) \/ shared[s]
    BY <2>1, <2>3, EmptyWorks DEF ArrayOf
  <2> QED BY <2>2, <2>3
<1>3. Buffered \subseteq Buffered' \union rejected' /\ rejected \subseteq rejected'
  BY <1>1, <1>2, TouchWorks DEF Buffered
<1>4. \A r \in Rec : req'[r] = "accepted" => req[r] = "accepted"
  BY DEF Accepted
<1> QED BY <1>3, <1>4 DEF AcceptedIsHeld

--------------------------------------------------------------------------------
(* The books and the rest, step by step.                                   *)

LEMMA MoreAccepted ==
    ASSUME Accepted \subseteq Accepted'
    PROVE  /\ Cardinality(Accepted) \in Nat /\ Cardinality(Accepted)' \in Nat
           /\ Cardinality(Accepted) <= Cardinality(Accepted)'
<1>1. Cardinality(Accepted) <= Cardinality(Accepted)'
  BY AcceptedFits, FS_Subset
<1> QED BY <1>1, AcceptedFits

LEMMA PersistKeepsBooks ==
    ASSUME NEW c \in Claims, NEW p \in Nat, NEW j \in Nat, Persist(c, p, j),
           p <= Cardinality(Accepted)'
    PROVE  Books'
BY DEF Persist, Books

LEMMA RememberKeepsBooks ==
    ASSUME Books, NEW c \in Claims, Remember(c, pend, rej), Accepted \subseteq Accepted'
    PROVE  Books'
<1>1. /\ pend <= Cardinality(Accepted)' /\ disk.pend <= Cardinality(Accepted)'
  BY MoreAccepted DEF Books
<1> QED BY <1>1 DEF Remember, Books

LEMMA QuietBooks ==
    ASSUME Books, UNCHANGED attribution, Accepted \subseteq Accepted'
    PROVE  Books'
BY RememberKeepsBooks DEF Remember, Books, attribution

LEMMA AcceptedStays ==
    ASSUME ClaimsType, [Next]_vars
    PROVE  Accepted \subseteq Accepted'
<1> SUFFICES ASSUME NEW x \in Rec, req[x] = "accepted"
             PROVE  req'[x] = "accepted"
  BY DEF Accepted
<1> USE DEF ClaimsType, Rest
<1>1. ASSUME NEW r \in Rec, Logs(r) PROVE req'[x] = "accepted"
  BY <1>1 DEF Logs, Arrive, Route, Unclaimed, Hold, TooMany, ToWorkspace, RouteSent, Refuse, GrowOld, network
<1>2. ASSUME NEW s \in Session, ClaimStep(s) PROVE req'[x] = "accepted"
  BY <1>2 DEF ClaimStep, Conflicting, Accept, DrainSent, DrainFails, Lapse, network
<1>3. CASE \E s \in Session, b \in Binding : Ask(s, b)
  BY <1>3 DEF Ask, network
<1>4. CASE Health \/ AskUnmapped \/ (\E b \in Binding : Configure(b)) \/ ConfigureWorkspace \/ Restart
  BY <1>4 DEF Health, AskUnmapped, Configure, ConfigureWorkspace, Restart, network
<1>5. CASE Die
  BY <1>5 DEF Die
<1>6. CASE UNCHANGED vars
  BY <1>6 DEF vars, network
<1> QED BY <1>1, <1>2, <1>3, <1>4, <1>5, <1>6 DEF Next

LEMMA KeepsBooks ==
    ASSUME ClaimsType, [Next]_vars
    PROVE  Books'
<1>1. Accepted \subseteq Accepted'
  BY AcceptedStays
<1>2. Books /\ pend \in Nat /\ rej \in Nat /\ claim \in Claims
  BY DEF ClaimsType, Books
<1>3. /\ Cardinality(Accepted)' \in Nat /\ pend <= Cardinality(Accepted)'
      /\ 0 <= Cardinality(Accepted)'
  BY <1>1, <1>2, MoreAccepted DEF Books
<1>4. Configured \in Claims /\ \A r \in Rec : Reread(r) \in Claims
  BY <1>2 DEF Configured, Reread, Claims, MaybeBinding
<1>5. ASSUME NEW r \in Rec, Arrive(r) PROVE Books'
  <2>1. Touch /\ UNCHANGED Accepted
    BY <1>5 DEF Arrive, Accepted, ClaimsType, Rest
  <2> QED BY <2>1, TouchKeepsBooks
<1>6. ASSUME NEW r \in Rec, Route(r) PROVE Books'
  BY <1>1, <1>2, <1>4, <1>6, RememberKeepsBooks DEF Route
<1>7. ASSUME NEW r \in Rec, Hold(r) PROVE Books'
  <2>1. r \notin Accepted /\ Accepted' = Accepted \union {r}
    BY <1>7 DEF Hold, Unclaimed, Accepted, ClaimsType, Rest
  <2>2. Cardinality(Accepted') = Cardinality(Accepted) + 1
    BY <2>1, AcceptedFits, FS_AddElement
  <2>3. pend + 1 <= Cardinality(Accepted') /\ pend + 1 \in Nat
    BY <1>2, <2>2, AcceptedFits DEF Books
  <2> QED BY <1>2, <1>4, <1>7, <2>3, PersistKeepsBooks DEF Hold
<1>8. ASSUME NEW r \in Rec, TooMany(r) PROVE Books'
  BY <1>2, <1>3, <1>4, <1>8, PersistKeepsBooks DEF TooMany
<1>9. ASSUME NEW r \in Rec, ToWorkspace(r) PROVE Books'
  BY <1>2, <1>3, <1>9, PersistKeepsBooks DEF ToWorkspace
<1>10. ASSUME NEW r \in Rec, RouteSent(r) PROVE Books'
  BY <1>2, <1>3, <1>10, PersistKeepsBooks DEF RouteSent
<1>11. ASSUME NEW r \in Rec, Refuse(r) \/ GrowOld(r) PROVE Books'
  BY <1>1, <1>2, <1>11, QuietBooks DEF Refuse, GrowOld
<1>12. ASSUME NEW s \in Session, Conflicting(s) PROVE Books'
  BY <1>2, <1>3, <1>12, PersistKeepsBooks DEF Conflicting
<1>13. ASSUME NEW s \in Session, Accept(s) PROVE Books'
  <2>1. Head(asked[s]) \in Binding
    BY <1>13, TailWorks DEF Accept, Turn, ClaimsType, Rest
  <2>2. [claim EXCEPT ![s] = Head(asked[s])] \in Claims
    BY <1>2, <2>1 DEF Claims, MaybeBinding
  <2> QED BY <1>2, <1>3, <1>13, <2>2, PersistKeepsBooks DEF Accept
<1>14. ASSUME NEW s \in Session, DrainSent(s) PROVE Books'
  <2>1. Down0(pend - 1) \in Nat /\ Down0(pend - 1) <= pend
    BY <1>2, MaxOfZero
  <2>2. Down0(pend - 1) <= Cardinality(Accepted)'
    BY <1>2, <1>3, <2>1
  <2> QED BY <1>2, <1>14, <2>1, <2>2, PersistKeepsBooks DEF DrainSent
<1>15. ASSUME NEW s \in Session, DrainFails(s) PROVE Books'
  BY <1>1, <1>2, <1>15, QuietBooks DEF DrainFails
<1>16. ASSUME NEW s \in Session, Lapse(s) PROVE Books'
  <2>1. [claim EXCEPT ![s] = NoBinding] \in Claims
    BY <1>2 DEF Claims, MaybeBinding
  <2> QED BY <1>1, <1>2, <1>16, <2>1, RememberKeepsBooks DEF Lapse
<1>17. ASSUME NEW s \in Session, NEW b \in Binding, Ask(s, b) PROVE Books'
  BY <1>1, <1>2, <1>4, <1>17, RememberKeepsBooks DEF Ask
<1>18. CASE Health
  <2>1. Touch /\ UNCHANGED Accepted
    BY <1>18 DEF Health, Accepted, network
  <2> QED BY <2>1, TouchKeepsBooks
<1>19. CASE AskUnmapped
  BY <1>1, <1>2, <1>3, <1>4, <1>19, PersistKeepsBooks, RememberKeepsBooks DEF AskUnmapped
<1>20. CASE (\E b \in Binding : Configure(b)) \/ ConfigureWorkspace \/ Die
  BY <1>1, <1>2, <1>20, QuietBooks DEF Configure, ConfigureWorkspace, Die
<1>21. CASE Restart
  <2>1. disk.claim \in Claims /\ disk.rej + disk.pend \in Nat
    BY <1>2 DEF Books
  <2> QED BY <1>3, <1>21, <2>1, PersistKeepsBooks DEF Restart
<1>22. CASE UNCHANGED vars
  BY <1>1, <1>2, <1>22, QuietBooks DEF vars
<1> QED
  BY <1>5, <1>6, <1>7, <1>8, <1>9, <1>10, <1>11, <1>12, <1>13, <1>14, <1>15, <1>16, <1>17, <1>18,
     <1>19, <1>20, <1>21, <1>22 DEF Next, Logs, ClaimStep

LEMMA KeepsRest ==
    ASSUME ClaimsType, [Next]_vars
    PROVE  Rest'
<1>1. Rest
  BY DEF ClaimsType
<1>2. \A s \in Session : Sending(s) => Head(Pending(s)) \in Rec
  <2> SUFFICES ASSUME NEW s \in Session, Sending(s) PROVE Head(Pending(s)) \in Rec
    OBVIOUS
  <2>1. Pending(s) \in Seq(Rec) /\ Pending(s) # <<>>
    BY DEF ClaimsType, Arrays, ArrayOf, Pending
  <2> QED BY <2>1, TailWorks
<1>3. Touch => rejected' \subseteq Rec
  BY <1>1, TouchWorks DEF Swept, Rest
<1>4. ASSUME NEW r \in Rec, Arrive(r) PROVE Rest'
  BY <1>1, <1>3, <1>4 DEF Arrive, Rest, Phases, settings
<1>5. ASSUME NEW r \in Rec, Route(r) PROVE Rest'
  <2>1. claim[Of[r]] \in MaybeBinding
    BY ClaimsAssumption DEF ClaimsType, Books, Claims
  <2> QED BY <1>1, <1>5, <2>1 DEF Route, Rest, Phases, settings, history
<1>6. ASSUME NEW r \in Rec, Hold(r) \/ TooMany(r) \/ ToWorkspace(r) \/ RouteSent(r) PROVE Rest'
  BY <1>1, <1>6 DEF Hold, TooMany, ToWorkspace, RouteSent, Rest, Phases, settings, history
<1>7. ASSUME NEW r \in Rec, Refuse(r) \/ GrowOld(r) PROVE Rest'
  BY <1>1, <1>7 DEF Refuse, GrowOld, Rest, Phases, settings, network, history
<1>8. ASSUME NEW s \in Session, Conflicting(s) \/ Accept(s) PROVE Rest'
  <2>1. Tail(asked[s]) \in Seq(Binding)
    BY <1>1, <1>8, TailWorks DEF Conflicting, Accept, Turn, Rest
  <2> QED BY <1>1, <1>8, <2>1 DEF Conflicting, Accept, Rest, settings, network, history
<1>9. ASSUME NEW s \in Session, DrainSent(s) PROVE Rest'
  BY <1>1, <1>2, <1>9 DEF DrainSent, Rest, settings, network
<1>10. ASSUME NEW s \in Session, DrainFails(s) \/ Lapse(s) PROVE Rest'
  BY <1>1, <1>10 DEF DrainFails, Lapse, Rest, settings, network, history
<1>11. ASSUME NEW s \in Session, NEW b \in Binding, Ask(s, b) PROVE Rest'
  <2>1. Append(asked[s], b) \in Seq(Binding)
    BY <1>1, AppendWorks DEF Rest
  <2>2. claims' \in 0..MaxClaims
    BY <1>1, <1>11, ClaimsAssumption DEF Ask, Rest
  <2> QED BY <1>1, <1>11, <2>1, <2>2 DEF Ask, Rest, settings, network, history
<1>12. CASE Health \/ AskUnmapped \/ Restart
  BY <1>1, <1>3, <1>12 DEF Health, AskUnmapped, Restart, Rest, settings, network, history
<1>13. ASSUME NEW b \in Binding, Configure(b) PROVE Rest'
  <2>1. troubles' \in 0..MaxTroubles
    BY <1>1, <1>13, ClaimsAssumption DEF Configure, Trouble, Rest
  <2>2. orphaned' \in BOOLEAN
    BY <1>13 DEF Configure
  <2>3. config' \subseteq Binding
    BY <1>1, <1>13 DEF Configure, Rest
  <2> QED BY <1>1, <1>13, <2>1, <2>2, <2>3 DEF Configure, Rest, network
<1>14. CASE ConfigureWorkspace
  <2>1. troubles' \in 0..MaxTroubles
    BY <1>1, <1>14, ClaimsAssumption DEF ConfigureWorkspace, Trouble, Rest
  <2>2. workspace' \in BOOLEAN
    BY <1>14 DEF ConfigureWorkspace
  <2> QED BY <1>1, <1>14, <2>1, <2>2 DEF ConfigureWorkspace, Rest, network, history
<1>15. CASE Die
  <2>1. troubles' \in 0..MaxTroubles
    BY <1>1, <1>15, ClaimsAssumption DEF Die, Trouble, Rest
  <2>2. req' \in [Rec -> Phases]
    BY <1>1, <1>15 DEF Die, Rest, Phases
  <2>3. Buffered \subseteq Rec
    <3>1. \A s \in Session : Range(buffer[s]) \subseteq Rec /\ Range(array[s]) \subseteq Rec
      BY RangeType DEF ClaimsType, Arrays
    <3>2. ASSUME NEW x \in Buffered PROVE x \in Rec
      <4>1. \E s \in Session : x \in Range(buffer[s]) \/ x \in Range(array[s])
        BY <3>2 DEF Buffered
      <4> QED BY <3>1, <4>1
    <3> QED BY <3>2
  <2>6. lost' \subseteq Rec
    BY <1>1, <1>15, <2>3 DEF Die, Rest
  <2>4. asked' \in [Session -> Seq(Binding)]
    BY <1>15, EmptyWorks DEF Die, Nothing
  <2>5. up' = FALSE /\ UNCHANGED <<config, workspace, dest, seen, old, forwarded, rejected, orphaned, claims>>
    BY <1>15 DEF Die
  <2> QED BY <1>1, <2>1, <2>2, <2>4, <2>5, <2>6 DEF Rest
<1>16. CASE UNCHANGED vars
  BY <1>1, <1>16 DEF vars, Rest, settings, network, history
<1> QED
  BY <1>4, <1>5, <1>6, <1>7, <1>8, <1>9, <1>10, <1>11, <1>12, <1>13, <1>14, <1>15, <1>16
     DEF Next, Logs, ClaimStep

--------------------------------------------------------------------------------
(* Steps that leave the arrays and who sends alone.                        *)

LEMMA QuietStep ==
    ASSUME ClaimsInv, UNCHANGED <<up, config, orphaned, buffers>>,
           forwarded \subseteq forwarded', rejected \subseteq rejected', lost \subseteq lost',
           disk' = disk \/ disk'.claim = claim',
           \A s \in Session : /\ Range(asked'[s]) \subseteq Range(asked[s]) \union config
                              /\ claim'[s] \in {claim[s], NoBinding}
                              /\ Sending(s) /\ claim[s] \in config => claim'[s] = claim[s],
           \A r \in Rec : req'[r] = "accepted" => req[r] = "accepted" \/ r \in forwarded' \union rejected'
    PROVE  Arrays' /\ Standing' /\ Kept' /\ AcceptedIsHeld'
<1>1. /\ UNCHANGED <<held, buffer, array, sendTo, shared>>
      /\ \A s \in Session : Sending(s)' = Sending(s) /\ Pending(s)' = Pending(s)
  BY DEF buffers, Sending, Pending
<1>2. Arrays'
  <2>1. Arrays
    BY DEF ClaimsInv, ClaimsType
  <2>2. \A s \in Session : ArrayOf(s)'
    BY <1>1, <2>1 DEF Arrays, ArrayOf
  <2> QED BY <1>1, <2>1, <2>2 DEF Arrays
<1>3. Standing'
  BY <1>1 DEF ClaimsInv, Standing
<1>4. Kept'
  <2> SUFFICES ASSUME ~orphaned, NEW s \in Session
               PROVE  Range(asked'[s]) \subseteq config /\ (Sending(s) => KeptOf(s)')
    BY <1>1 DEF Kept
  <2>1. Range(asked[s]) \subseteq config /\ (Sending(s) => KeptOf(s))
    BY DEF ClaimsInv, Kept
  <2>2. Sending(s) => KeptOf(s)'
    BY <1>1, <2>1 DEF KeptOf
  <2> QED BY <2>1, <2>2
<1>5. AcceptedIsHeld'
  <2>1. Buffered' = Buffered
    BY <1>1 DEF Buffered
  <2> QED BY <2>1 DEF ClaimsInv, AcceptedIsHeld
<1> QED BY <1>2, <1>3, <1>4, <1>5

(* What the requests and claims that wait do.                              *)
LEMMA WaitersKeepClaims ==
    ASSUME ClaimsInv, [Next]_vars,
           \/ \E r \in Rec : Route(r) \/ TooMany(r) \/ ToWorkspace(r) \/ RouteSent(r) \/ Refuse(r) \/ GrowOld(r)
           \/ \E s \in Session : Conflicting(s) \/ Lapse(s) \/ \E b \in Binding : Ask(s, b)
           \/ AskUnmapped \/ ConfigureWorkspace \/ UNCHANGED vars
    PROVE  Arrays' /\ Standing' /\ Kept' /\ AcceptedIsHeld'
<1>1. Rest
  BY DEF ClaimsInv, ClaimsType
<1>2. /\ \A s \in Session : /\ Configured[s] \in {claim[s], NoBinding}
                            /\ claim[s] \in config => Configured[s] = claim[s]
      /\ \A r \in Rec : Reread(r) = claim \/ Reread(r) = Configured
  BY DEF Configured, Reread
<1>4. ASSUME NEW r \in Rec, Route(r) \/ TooMany(r) PROVE Arrays' /\ Standing' /\ Kept' /\ AcceptedIsHeld'
  <2>1. /\ UNCHANGED <<up, config, orphaned, buffers, asked>>
        /\ forwarded \subseteq forwarded' /\ rejected \subseteq rejected' /\ lost \subseteq lost'
        /\ claim' = Reread(r) /\ (disk' = disk \/ disk'.claim = claim')
    BY <1>4 DEF Route, TooMany, Persist, Remember, settings, history
  <2>2. \A x \in Rec : req'[x] = "accepted" => req[x] = "accepted" \/ x \in forwarded' \union rejected'
    BY <1>1, <1>4 DEF Route, TooMany, Rest
  <2> QED BY <1>2, <2>1, <2>2, QuietStep
<1>5. ASSUME NEW r \in Rec, ToWorkspace(r) \/ RouteSent(r) PROVE Arrays' /\ Standing' /\ Kept' /\ AcceptedIsHeld'
  <2>1. /\ UNCHANGED <<up, config, orphaned, buffers, asked>>
        /\ forwarded \subseteq forwarded' /\ rejected \subseteq rejected' /\ lost \subseteq lost'
        /\ claim' = claim /\ (disk' = disk \/ disk'.claim = claim')
    BY <1>5 DEF ToWorkspace, RouteSent, Persist, settings
  <2>2. \A x \in Rec : req'[x] = "accepted" => req[x] = "accepted" \/ x \in forwarded' \union rejected'
    BY <1>1, <1>5 DEF ToWorkspace, RouteSent, Rest
  <2> QED BY <2>1, <2>2, QuietStep
<1>6. ASSUME NEW r \in Rec, Refuse(r) \/ GrowOld(r) PROVE Arrays' /\ Standing' /\ Kept' /\ AcceptedIsHeld'
  <2>1. UNCHANGED <<up, config, orphaned, buffers, asked, forwarded, rejected, lost, claim, disk>>
    BY <1>6 DEF Refuse, GrowOld, settings, history, attribution
  <2>2. \A x \in Rec : req'[x] = "accepted" => req[x] = "accepted"
    BY <1>1, <1>6 DEF Refuse, GrowOld, Rest, network
  <2> QED BY <2>1, <2>2, QuietStep
<1>7. ASSUME NEW s \in Session, Conflicting(s) PROVE Arrays' /\ Standing' /\ Kept' /\ AcceptedIsHeld'
  <2>1. /\ UNCHANGED <<up, config, orphaned, buffers, forwarded, rejected, lost, claim, req>>
        /\ disk'.claim = claim'
    BY <1>7 DEF Conflicting, Persist, settings, history, network
  <2>2. \A u \in Session : Range(asked'[u]) \subseteq Range(asked[u])
    <3>1. Range(Tail(asked[s])) \subseteq Range(asked[s])
      BY <1>1, <1>7, TailWorks DEF Conflicting, Turn, Rest
    <3> QED BY <1>1, <1>7, <3>1 DEF Conflicting, Rest
  <2> QED BY <2>1, <2>2, QuietStep
<1>8. ASSUME NEW s \in Session, Lapse(s) PROVE Arrays' /\ Standing' /\ Kept' /\ AcceptedIsHeld'
  <2>1. UNCHANGED <<up, config, orphaned, buffers, asked, forwarded, rejected, lost, disk, req>>
    BY <1>8 DEF Lapse, Remember, settings, history, network
  <2>2. /\ \A u \in Session : claim'[u] \in {claim[u], NoBinding}
        /\ \A u \in Session : Sending(u) => claim'[u] = claim[u]
    BY <1>8 DEF Lapse, Remember, ClaimsInv, ClaimsType, Books, Claims
  <2> QED BY <2>1, <2>2, QuietStep
<1>9. ASSUME NEW s \in Session, NEW b \in Binding, Ask(s, b)
      PROVE Arrays' /\ Standing' /\ Kept' /\ AcceptedIsHeld'
  <2>1. /\ UNCHANGED <<up, config, orphaned, buffers, forwarded, rejected, lost, disk, req>>
        /\ claim' = Configured
    BY <1>9 DEF Ask, Remember, settings, history, network
  <2>2. \A u \in Session : Range(asked'[u]) \subseteq Range(asked[u]) \union config
    <3>1. Range(Append(asked[s], b)) = Range(asked[s]) \union {b}
      BY <1>1, AppendWorks DEF Rest
    <3> QED BY <1>1, <1>9, <3>1 DEF Ask, Rest
  <2> QED BY <1>2, <2>1, <2>2, QuietStep
<1>10. CASE AskUnmapped
  <2>1. /\ UNCHANGED <<up, config, orphaned, buffers, asked, forwarded, rejected, lost, req>>
        /\ claim' = Configured /\ (disk' = disk \/ disk'.claim = claim')
    BY <1>10 DEF AskUnmapped, Persist, Remember, settings, history, network
  <2> QED BY <1>2, <2>1, QuietStep
<1>11. CASE ConfigureWorkspace \/ UNCHANGED vars
  <2>1. UNCHANGED <<up, config, orphaned, buffers, asked, forwarded, rejected, lost, claim, disk, req>>
    BY <1>11 DEF ConfigureWorkspace, vars, settings, history, attribution, network
  <2> QED BY <2>1, QuietStep
<1> QED BY <1>4, <1>5, <1>6, <1>7, <1>8, <1>9, <1>10, <1>11

(* A sweep.                                                                *)
LEMMA SweepsKeepClaims ==
    ASSUME ClaimsInv, Health \/ \E r \in Rec : Arrive(r)
    PROVE  Arrays' /\ Standing' /\ Kept' /\ AcceptedIsHeld'
<1>1. Touch /\ UNCHANGED <<up, config, asked, orphaned, forwarded, lost>>
  BY DEF Health, Arrive, settings
<1>2. UNCHANGED Accepted
  BY DEF Health, Arrive, network, Accepted, ClaimsInv, ClaimsType, Rest
<1> QED
  BY <1>1, <1>2, TouchKeepsArrays, TouchKeepsStanding, TouchKeepsKept, TouchKeepsHeld DEF ClaimsInv

--------------------------------------------------------------------------------
(* Steps that change the arrays or who sends.                              *)

LEMMA HoldKeepsClaims ==
    ASSUME ClaimsInv, NEW r \in Rec, Hold(r)
    PROVE  Arrays' /\ Standing' /\ Kept' /\ AcceptedIsHeld'
<1> DEFINE t == Of[r]
<1>1. t \in Session /\ r \in Rec /\ Arrays /\ Rest
  BY ClaimsAssumption DEF ClaimsInv, ClaimsType
<1>2. /\ Append(buffer[t], r) \in Seq(Rec) /\ Append(buffer[t], r) # <<>>
      /\ Range(Append(buffer[t], r)) = Range(buffer[t]) \union {r}
  <2>1. buffer[t] \in Seq(Rec)
    BY <1>1 DEF Arrays
  <2> QED BY <1>1, <2>1, AppendWorks
<1>3. /\ buffer' = [buffer EXCEPT ![t] = Append(buffer[t], r)]
      /\ UNCHANGED <<up, config, orphaned, asked, array, sendTo, shared, forwarded, rejected, lost>>
      /\ held' = held + 1
  BY <1>1 DEF Hold, Arrays, settings, history
<1> HIDE DEF t
<1>4. /\ \A s \in Session : Sending(s)' = Sending(s)
      /\ \A s \in Session : s # t => buffer'[s] = buffer[s]
      /\ buffer'[t] = Append(buffer[t], r)
  BY <1>1, <1>3 DEF Sending, Arrays
<1>5. Arrays'
  <2>1. buffer' \in [Session -> Seq(Rec)]
    BY <1>1, <1>2, <1>3 DEF Arrays
  <2>2. ASSUME NEW s \in Session PROVE ArrayOf(s)'
    <3>1. CASE s = t
      BY <1>1, <1>2, <1>3, <1>4, <3>1 DEF t, Arrays, ArrayOf, Pending
    <3>2. CASE s # t
      BY <1>1, <1>3, <1>4, <3>2 DEF Arrays, ArrayOf, Pending
    <3> QED BY <3>1, <3>2
  <2>3. held' \in Int
    BY <1>1, <1>3 DEF Arrays
  <2> QED BY <1>1, <1>3, <2>1, <2>2, <2>3 DEF Arrays
<1>6. /\ claim' = Reread(r) /\ disk'.claim = claim'
      /\ \A s \in Session : /\ claim'[s] \in {claim[s], NoBinding}
                            /\ claim[s] \in config => claim'[s] = claim[s]
  BY DEF Hold, Persist, Reread, Configured
<1>7. Standing'
  BY <1>3, <1>4, <1>6 DEF ClaimsInv, Standing
<1>8. Kept'
  <2> SUFFICES ASSUME ~orphaned, NEW s \in Session
               PROVE  Range(asked[s]) \subseteq config /\ (Sending(s) => KeptOf(s)')
    BY <1>3, <1>4 DEF Kept
  <2>1. Range(asked[s]) \subseteq config /\ (Sending(s) => KeptOf(s))
    BY DEF ClaimsInv, Kept
  <2>2. ASSUME Sending(s) PROVE s # t
    <3>1. claim[s] \in config
      BY <2>1, <2>2 DEF KeptOf
    <3>2. claim[t] \notin config
      BY DEF Hold, Unclaimed, Claimed, Known, t
    <3> QED BY <3>1, <3>2
  <2>3. ASSUME Sending(s) PROVE KeptOf(s)'
    BY <1>3, <1>4, <1>6, <2>1, <2>2, <2>3 DEF KeptOf, Pending
  <2> QED BY <2>1, <2>3
<1>9. AcceptedIsHeld'
  <2>1. Buffered \union {r} \subseteq Buffered'
    <3>1. \A s \in Session : Range(buffer[s]) \subseteq Range(buffer'[s])
      BY <1>2, <1>4
    <3>2. r \in Range(buffer'[t])
      BY <1>2, <1>4
    <3> QED BY <1>1, <1>3, <3>1, <3>2 DEF Buffered
  <2>2. \A x \in Rec : x # r => req'[x] = req[x]
    BY <1>1 DEF Hold, Rest
  <2> QED BY <1>3, <2>1, <2>2 DEF ClaimsInv, AcceptedIsHeld
<1> QED BY <1>5, <1>7, <1>8, <1>9

LEMMA AcceptKeepsClaims ==
    ASSUME ClaimsInv, NEW t \in Session, Accept(t)
    PROVE  Arrays' /\ Standing' /\ Kept' /\ AcceptedIsHeld'
<1> DEFINE b == Head(asked[t])
<1>1. Arrays /\ Rest /\ Books /\ ~Sending(t) /\ asked[t] # <<>>
  BY DEF ClaimsInv, ClaimsType, Accept, Turn
<1>2. /\ b \in Binding /\ b # NoBinding
      /\ Range(asked[t]) = {b} \union Range(Tail(asked[t]))
  BY <1>1, TailWorks, ClaimsAssumption DEF Rest
<1>3. /\ claim' = [claim EXCEPT ![t] = b] /\ disk'.claim = claim'
      /\ asked' = [asked EXCEPT ![t] = Tail(asked[t])]
      /\ UNCHANGED <<up, config, orphaned, held, buffer, array, forwarded, rejected, lost, req>>
  BY <1>1 DEF Accept, Persist, Rest, settings, network, history
<1>4. \/ buffer[t] = <<>> /\ UNCHANGED <<sendTo, shared>>
      \/ /\ buffer[t] # <<>>
         /\ sendTo' = [sendTo EXCEPT ![t] = b] /\ shared' = [shared EXCEPT ![t] = TRUE]
  BY DEF Accept
<1> HIDE DEF b
<1>5. \A s \in Session : s # t => /\ Sending(s)' = Sending(s) /\ Pending(s)' = Pending(s)
                                  /\ sendTo'[s] = sendTo[s] /\ shared'[s] = shared[s]
  <2>1. \A s \in Session : s # t => sendTo'[s] = sendTo[s] /\ shared'[s] = shared[s]
    BY <1>1, <1>4 DEF Arrays, Claims
  <2> QED BY <1>3, <2>1 DEF Sending, Pending
<1>6. \/ ~Sending(t)' /\ shared'[t] = shared[t]
      \/ /\ Sending(t)' /\ sendTo'[t] = b /\ shared'[t] = TRUE
         /\ buffer[t] # <<>> /\ Pending(t)' = buffer[t]
  BY <1>1, <1>2, <1>3, <1>4 DEF Sending, Pending, Arrays, Claims
<1>7. ArrayOf(t) /\ array[t] = <<>>
  BY <1>1 DEF Arrays, ArrayOf
<1>8. Arrays'
  <2>1. sendTo' \in Claims /\ shared' \in [Session -> BOOLEAN]
    BY <1>1, <1>2, <1>4 DEF Arrays, Claims, MaybeBinding
  <2>2. ASSUME NEW s \in Session PROVE ArrayOf(s)'
    <3>1. CASE s = t
      BY <1>1, <1>3, <1>6, <1>7, <3>1 DEF ArrayOf
    <3>2. CASE s # t
      BY <1>1, <1>3, <1>5, <3>2 DEF Arrays, ArrayOf
    <3> QED BY <3>1, <3>2
  <2> QED BY <1>1, <1>3, <2>1, <2>2 DEF Arrays
<1>9. Standing'
  <2> SUFFICES ASSUME NEW s \in Session, Sending(s)'
               PROVE  up /\ claim'[s] \in {sendTo'[s], NoBinding}
    BY <1>3 DEF Standing
  <2>1. CASE s = t
    BY <1>1, <1>3, <1>6, <2>1 DEF Books, Claims, Accept, Turn
  <2>2. CASE s # t
    BY <1>1, <1>3, <1>5, <2>2 DEF ClaimsInv, Standing, Books, Claims
  <2> QED BY <2>1, <2>2
<1>10. Kept'
  <2> SUFFICES ASSUME ~orphaned, NEW s \in Session
               PROVE  Range(asked'[s]) \subseteq config /\ (Sending(s)' => KeptOf(s)')
    BY <1>3 DEF Kept
  <2>1. Range(asked[s]) \subseteq config /\ (Sending(s) => KeptOf(s))
    BY DEF ClaimsInv, Kept
  <2>2. Range(asked'[s]) \subseteq Range(asked[s])
    BY <1>1, <1>2, <1>3 DEF Rest
  <2>3. CASE s = t
    <3> SUFFICES ASSUME Sending(t)' PROVE KeptOf(t)'
      BY <2>1, <2>2, <2>3
    <3>1. b \in config /\ claim'[t] = b
      BY <1>1, <1>2, <1>3, <2>1, <2>3 DEF Books, Claims
    <3> QED BY <1>3, <1>6, <1>7, <3>1, EmptyWorks DEF KeptOf
  <2>4. CASE s # t
    <3>1. claim'[s] = claim[s]
      BY <1>1, <1>3, <2>4 DEF Books, Claims
    <3> QED BY <1>3, <1>5, <2>1, <2>2, <2>4, <3>1 DEF KeptOf
  <2> QED BY <2>3, <2>4
<1>11. AcceptedIsHeld'
  BY <1>3 DEF ClaimsInv, AcceptedIsHeld, Buffered
<1> QED BY <1>8, <1>9, <1>10, <1>11

LEMMA DrainFailsKeepsClaims ==
    ASSUME ClaimsInv, NEW t \in Session, DrainFails(t)
    PROVE  Arrays' /\ Standing' /\ Kept' /\ AcceptedIsHeld'
<1>1. Arrays /\ Sending(t)
  BY DEF ClaimsInv, ClaimsType, DrainFails
<1>2. /\ sendTo' = [sendTo EXCEPT ![t] = NoBinding]
      /\ shared' = [shared EXCEPT ![t] = FALSE] /\ array' = [array EXCEPT ![t] = <<>>]
      /\ UNCHANGED <<up, config, orphaned, asked, held, buffer, claim, disk, forwarded, rejected, lost, req>>
  BY DEF DrainFails, Done, settings, attribution, network, history
<1>3. /\ ~Sending(t)' /\ ~shared'[t] /\ array'[t] = <<>>
      /\ \A s \in Session : s # t => /\ Sending(s)' = Sending(s) /\ Pending(s)' = Pending(s)
                                     /\ sendTo'[s] = sendTo[s] /\ shared'[s] = shared[s]
                                     /\ array'[s] = array[s]
  <2>1. /\ sendTo'[t] = NoBinding /\ ~shared'[t] /\ array'[t] = <<>>
        /\ \A s \in Session : s # t => /\ sendTo'[s] = sendTo[s] /\ shared'[s] = shared[s]
                                       /\ array'[s] = array[s]
    BY <1>1, <1>2 DEF Arrays, Claims
  <2> QED BY <1>2, <2>1 DEF Sending, Pending
<1>4. Arrays'
  <2>1. /\ sendTo' \in Claims /\ shared' \in [Session -> BOOLEAN]
        /\ array' \in [Session -> Seq(Rec)]
    BY <1>1, <1>2, EmptyWorks DEF Arrays, Claims, MaybeBinding
  <2>2. ASSUME NEW s \in Session PROVE ArrayOf(s)'
    <3>1. ArrayOf(s)
      BY <1>1 DEF Arrays
    <3>2. CASE s = t
      BY <1>2, <1>3, <3>1, <3>2, EmptyWorks DEF ArrayOf
    <3>3. CASE s # t
      BY <1>2, <1>3, <3>1, <3>3 DEF ArrayOf
    <3> QED BY <3>2, <3>3
  <2> QED BY <1>1, <1>2, <2>1, <2>2 DEF Arrays
<1>5. Standing'
  BY <1>2, <1>3 DEF ClaimsInv, Standing
<1>6. Kept'
  <2> SUFFICES ASSUME ~orphaned, NEW s \in Session
               PROVE  Range(asked[s]) \subseteq config /\ (Sending(s)' => KeptOf(s)')
    BY <1>2 DEF Kept
  <2>1. Range(asked[s]) \subseteq config /\ (Sending(s) => KeptOf(s))
    BY DEF ClaimsInv, Kept
  <2>2. CASE s = t
    BY <1>3, <2>1, <2>2
  <2>3. CASE s # t
    BY <1>2, <1>3, <2>1, <2>3 DEF KeptOf
  <2> QED BY <2>2, <2>3
<1>7. AcceptedIsHeld'
  <2> SUFFICES ASSUME ~orphaned, NEW r \in Rec, req[r] = "accepted"
               PROVE  r \in forwarded \union rejected \union lost \union Buffered'
    BY <1>2 DEF AcceptedIsHeld
  <2>1. r \in forwarded \union rejected \union lost \union Buffered
    BY DEF ClaimsInv, AcceptedIsHeld
  <2>2. ASSUME NEW s \in Session, r \in Range(buffer[s])
        PROVE  r \in Buffered'
    BY <1>2, <2>2 DEF Buffered
  <2>3. ASSUME NEW s \in Session, r \in Range(array[s])
        PROVE  r \in Buffered' \union rejected \union forwarded
    <3>1. CASE s = t
      <4>1. Range(array[t]) \subseteq Range(buffer[t]) \union rejected \union forwarded
        BY <1>1 DEF ClaimsInv, Kept, KeptOf
      <4> QED BY <2>2, <2>3, <3>1, <4>1
    <3>2. CASE s # t
      BY <1>3, <2>3, <3>2 DEF Buffered
    <3> QED BY <3>1, <3>2
  <2> QED BY <2>1, <2>2, <2>3 DEF Buffered
<1> QED BY <1>4, <1>5, <1>6, <1>7

LEMMA DrainSentKeepsClaims ==
    ASSUME ClaimsInv, NEW t \in Session, DrainSent(t)
    PROVE  Arrays' /\ Standing' /\ Kept' /\ AcceptedIsHeld'
<1> DEFINE q == Pending(t)
           rest == Tail(q)
           x == Head(q)
<1>1. Arrays /\ Sending(t) /\ ArrayOf(t) /\ up
  BY DEF ClaimsInv, ClaimsType, Arrays, DrainSent
<1>2. /\ q \in Seq(Rec) /\ q # <<>>
      /\ q = IF shared[t] THEN buffer[t] ELSE array[t]
  BY <1>1 DEF Arrays, ArrayOf, Pending
<1>3. x \in Rec /\ rest \in Seq(Rec) /\ Range(q) = {x} \union Range(rest)
  BY <1>2, TailWorks
<1>4. /\ forwarded' = forwarded \union {x} /\ held' = held - 1
      /\ claim' = claim /\ disk'.claim = claim'
      /\ UNCHANGED <<up, config, orphaned, asked, rejected, lost, req>>
  BY DEF DrainSent, Persist, settings, network
<1>5. /\ buffer' = [buffer EXCEPT ![t] = IF rest = <<>> THEN <<>> ELSE IF shared[t] THEN rest ELSE buffer[t]]
      /\ array' = [array EXCEPT ![t] = IF shared[t] THEN <<>> ELSE rest]
      /\ sendTo' = IF rest = <<>> THEN [sendTo EXCEPT ![t] = NoBinding] ELSE sendTo
      /\ shared' = [shared EXCEPT ![t] = shared[t] /\ rest # <<>>]
  BY <1>1 DEF DrainSent, Done, Arrays
<1> HIDE DEF q, rest, x
<1>6. /\ buffer'[t] = (IF rest = <<>> THEN <<>> ELSE IF shared[t] THEN rest ELSE buffer[t])
      /\ array'[t] = (IF shared[t] THEN <<>> ELSE rest)
      /\ shared'[t] = (shared[t] /\ rest # <<>>)
      /\ sendTo'[t] = (IF rest = <<>> THEN NoBinding ELSE sendTo[t])
  BY <1>1, <1>5 DEF Arrays, Claims
<1>7. \A s \in Session : s # t => /\ buffer'[s] = buffer[s] /\ array'[s] = array[s]
                                  /\ sendTo'[s] = sendTo[s] /\ shared'[s] = shared[s]
  BY <1>1, <1>5 DEF Arrays, Claims
<1>8. /\ Sending(t)' <=> rest # <<>>
      /\ rest # <<>> => Pending(t)' = rest /\ sendTo'[t] = sendTo[t]
      /\ \A s \in Session : s # t => Sending(s)' = Sending(s) /\ Pending(s)' = Pending(s)
  BY <1>1, <1>6, <1>7 DEF Sending, Pending
<1>9. Arrays'
  <2>1. buffer' \in [Session -> Seq(Rec)] /\ array' \in [Session -> Seq(Rec)]
    BY <1>1, <1>3, <1>5, EmptyWorks DEF Arrays
  <2>2. sendTo' \in Claims
    BY <1>1, <1>5 DEF Arrays, Claims, MaybeBinding
  <2>3. shared' \in [Session -> BOOLEAN]
    BY <1>1, <1>5 DEF Arrays
  <2>4. ASSUME NEW s \in Session PROVE ArrayOf(s)'
    <3>1. CASE s = t
      <4>1. /\ shared'[t] => Sending(t)'
            /\ shared'[t] \/ ~Sending(t)' => array'[t] = <<>>
            /\ Sending(t)' => Pending(t)' # <<>>
        BY <1>6, <1>8
      <4>2. Range(buffer'[t]) \subseteq Range(buffer[t]) /\ Range(array'[t]) \subseteq Range(array[t])
        BY <1>2, <1>3, <1>6, EmptyWorks
      <4> QED BY <1>1, <3>1, <4>1, <4>2 DEF ArrayOf
    <3>2. CASE s # t
      BY <1>1, <1>7, <1>8, <3>2 DEF Arrays, ArrayOf
    <3> QED BY <3>1, <3>2
  <2>5. held' \in Int
    BY <1>1, <1>4 DEF Arrays
  <2> QED BY <2>1, <2>2, <2>3, <2>4, <2>5 DEF Arrays
<1>10. Standing'
  <2> SUFFICES ASSUME NEW s \in Session, Sending(s)'
               PROVE  up /\ claim[s] \in {sendTo'[s], NoBinding}
    BY <1>4 DEF Standing
  <2>1. CASE s = t
    BY <1>1, <1>8, <2>1 DEF ClaimsInv, Standing
  <2>2. CASE s # t
    BY <1>7, <1>8, <2>2 DEF ClaimsInv, Standing
  <2> QED BY <2>1, <2>2
<1>11. Kept'
  <2> SUFFICES ASSUME ~orphaned, NEW s \in Session
               PROVE  Range(asked[s]) \subseteq config /\ (Sending(s)' => KeptOf(s)')
    BY <1>4 DEF Kept
  <2>1. Range(asked[s]) \subseteq config /\ (Sending(s) => KeptOf(s))
    BY DEF ClaimsInv, Kept
  <2>2. CASE s = t
    <3> SUFFICES ASSUME rest # <<>> PROVE KeptOf(t)'
      BY <1>8, <2>1, <2>2
    <3>1. KeptOf(t) /\ sendTo'[t] = sendTo[t] /\ Pending(t)' = rest
      BY <1>1, <1>8, <2>1, <2>2
    <3>2. Range(buffer[t]) \subseteq Range(q) \union forwarded
      BY <3>1 DEF KeptOf, q
    <3>3. Range(buffer'[t]) \subseteq Range(rest) \union forwarded'
      BY <1>3, <1>4, <1>6, <3>2
    <3>4. Range(array'[t]) \subseteq Range(buffer'[t]) \union rejected' \union forwarded'
      <4>1. CASE shared[t]
        BY <1>6, <4>1, EmptyWorks
      <4>2. CASE ~shared[t]
        <5>1. Range(array[t]) \subseteq Range(buffer[t]) \union rejected \union forwarded
          BY <3>1 DEF KeptOf
        <5> QED BY <1>2, <1>3, <1>4, <1>6, <4>2, <5>1
      <4> QED BY <4>1, <4>2
    <3> QED BY <1>4, <3>1, <3>3, <3>4 DEF KeptOf
  <2>3. CASE s # t
    BY <1>4, <1>7, <1>8, <2>1, <2>3 DEF KeptOf
  <2> QED BY <2>2, <2>3
<1>12. AcceptedIsHeld'
  <2> SUFFICES ASSUME ~orphaned, NEW r \in Rec, req[r] = "accepted", r \notin forwarded'
               PROVE  r \in rejected \union lost \union Buffered'
    BY <1>4 DEF AcceptedIsHeld
  <2>1. r # x /\ r \in rejected \union lost \union Buffered
    BY <1>4 DEF ClaimsInv, AcceptedIsHeld
  <2>2. ASSUME NEW s \in Session, s # t, r \in Range(buffer[s]) \union Range(array[s])
        PROVE  r \in Buffered'
    BY <1>7, <2>2 DEF Buffered
  <2>3. Range(buffer[t]) \subseteq Range(q) \union forwarded
    BY <1>1 DEF ClaimsInv, Kept, KeptOf, q
  <2>4. ASSUME r \in Range(rest) PROVE r \in Buffered'
    <3>1. rest # <<>>
      BY <2>4, EmptyWorks
    <3>2. rest = buffer'[t] \/ rest = array'[t]
      BY <1>6, <3>1
    <3> QED BY <2>4, <3>2 DEF Buffered
  <2>5. ASSUME r \in Range(buffer[t]) PROVE r \in Buffered'
    BY <1>3, <1>4, <2>1, <2>3, <2>4, <2>5
  <2>6. ASSUME r \in Range(array[t]) PROVE r \in Buffered'
    <3>1. ~shared[t]
      BY <1>1, <2>6, EmptyWorks DEF ArrayOf
    <3> QED BY <1>2, <1>3, <2>1, <2>4, <2>6, <3>1
  <2> QED BY <2>1, <2>2, <2>5, <2>6 DEF Buffered
<1> QED BY <1>9, <1>10, <1>11, <1>12

(* A binding that is removed under a claim on it is remembered.            *)
LEMMA ConfigureKeepsClaims ==
    ASSUME ClaimsInv, NEW b \in Binding, Configure(b)
    PROVE  Arrays' /\ Standing' /\ Kept' /\ AcceptedIsHeld'
<1>1. /\ UNCHANGED <<up, asked, held, buffer, array, sendTo, shared, claim, disk,
                     forwarded, rejected, lost, req>>
      /\ orphaned' = (orphaned \/ \E s \in Session : sendTo[s] = b \/ b \in Range(asked[s]))
      /\ config \ {b} \subseteq config'
  BY DEF Configure, attribution, buffers, network
<1>2. Arrays'
  <2>1. Arrays
    BY DEF ClaimsInv, ClaimsType
  <2> QED BY <1>1, <2>1 DEF Arrays, ArrayOf, Sending, Pending
<1>3. Standing'
  BY <1>1 DEF ClaimsInv, Standing, Sending
<1>4. Kept'
  <2> SUFFICES ASSUME ~orphaned', NEW s \in Session
               PROVE  Range(asked[s]) \subseteq config' /\ (Sending(s)' => KeptOf(s)')
    BY <1>1 DEF Kept
  <2>1. /\ Range(asked[s]) \subseteq config /\ (Sending(s) => KeptOf(s))
        /\ sendTo[s] # b /\ b \notin Range(asked[s])
    BY <1>1 DEF ClaimsInv, Kept
  <2>2. Sending(s)' = Sending(s) /\ Pending(s)' = Pending(s)
    BY <1>1 DEF Sending, Pending
  <2> QED BY <1>1, <2>1, <2>2 DEF KeptOf
<1>5. AcceptedIsHeld'
  BY <1>1 DEF ClaimsInv, AcceptedIsHeld, Buffered
<1> QED BY <1>2, <1>3, <1>4, <1>5

LEMMA DieKeepsClaims ==
    ASSUME ClaimsInv, Die
    PROVE  Arrays' /\ Standing' /\ Kept' /\ AcceptedIsHeld'
<1>1. /\ held' = 0 /\ buffer' = Nothing /\ array' = Nothing /\ asked' = Nothing
      /\ sendTo' = Nobody /\ shared' = [s \in Session |-> FALSE]
      /\ UNCHANGED <<config, orphaned, claim, disk, forwarded, rejected>>
  BY DEF Die, attribution
<1>2. \A s \in Session : /\ buffer'[s] = <<>> /\ array'[s] = <<>> /\ asked'[s] = <<>>
                         /\ ~Sending(s)' /\ ~shared'[s]
  BY <1>1 DEF Nothing, Nobody, Sending
<1>3. Arrays'
  <2>1. Nothing \in [Session -> Seq(Rec)] /\ Nobody \in Claims
    BY EmptyWorks DEF Nothing, Nobody, Claims, MaybeBinding
  <2>2. \A s \in Session : ArrayOf(s)'
    BY <1>2, EmptyWorks DEF ArrayOf
  <2>3. shared' \in [Session -> BOOLEAN]
    BY <1>1
  <2> QED BY <1>1, <2>1, <2>2, <2>3 DEF Arrays
<1>4. Standing'
  BY <1>1, <1>2 DEF ClaimsInv, Standing
<1>5. Kept'
  BY <1>2, EmptyWorks DEF Kept
<1>6. AcceptedIsHeld'
  <2>1. \A r \in Rec : req'[r] = "accepted" => req[r] = "accepted"
    BY DEF Die
  <2>2. forwarded \union rejected \union lost \union Buffered \subseteq forwarded' \union rejected' \union lost'
    BY <1>1 DEF Die
  <2> QED BY <1>1, <2>1, <2>2 DEF ClaimsInv, AcceptedIsHeld
<1> QED BY <1>3, <1>4, <1>5, <1>6

(* While the relay is down nobody sends, so that whatever claims the file  *)
(* brings back stand.                                                      *)
LEMMA RestartKeepsClaims ==
    ASSUME ClaimsInv, Restart
    PROVE  Arrays' /\ Standing' /\ Kept' /\ AcceptedIsHeld'
<1>1. /\ UNCHANGED <<config, orphaned, asked, held, buffer, array, sendTo, shared,
                     forwarded, rejected, lost, req>>
      /\ disk'.claim = claim' /\ ~up
  BY DEF Restart, Persist, buffers, network, history
<1>2. \A s \in Session : ~Sending(s) /\ ~Sending(s)'
  BY <1>1 DEF ClaimsInv, Standing, Sending
<1>3. Arrays'
  <2>1. Arrays
    BY DEF ClaimsInv, ClaimsType
  <2> QED BY <1>1, <2>1 DEF Arrays, ArrayOf, Sending, Pending
<1>4. Standing'
  BY <1>1, <1>2 DEF Standing
<1>5. Kept'
  BY <1>1, <1>2 DEF ClaimsInv, Kept
<1>6. AcceptedIsHeld'
  BY <1>1 DEF ClaimsInv, AcceptedIsHeld, Buffered
<1> QED BY <1>3, <1>4, <1>5, <1>6

LEMMA StepKeepsClaims == ClaimsInv /\ [Next]_vars => ClaimsInv'
<1> SUFFICES ASSUME ClaimsInv, [Next]_vars PROVE ClaimsInv'
  OBVIOUS
<1>1. Books' /\ Rest'
  BY KeepsBooks, KeepsRest DEF ClaimsInv
<1>2. Arrays' /\ Standing' /\ Kept' /\ AcceptedIsHeld'
  BY WaitersKeepClaims, SweepsKeepClaims, HoldKeepsClaims, AcceptKeepsClaims, DrainFailsKeepsClaims,
     DrainSentKeepsClaims, ConfigureKeepsClaims, DieKeepsClaims, RestartKeepsClaims
     DEF Next, Logs, ClaimStep
<1> QED BY <1>1, <1>2 DEF ClaimsInv, ClaimsType

--------------------------------------------------------------------------------
(* The theorems.                                                           *)

(* Whatever interleaves, an array is a claim's own only while it sends,    *)
(* and what goes with that array, or with a session that leaves            *)
(* codexBuffers, is elsewhere by then.                                     *)
THEOREM ClaimsInvariant == Spec => []ClaimsInv
<1>1. Init => ClaimsInv
  BY InitIsClaims
<1>2. ClaimsInv /\ [Next]_vars => ClaimsInv'
  BY StepKeepsClaims
<1> QED BY <1>1, <1>2, PTL DEF Spec

(* The relay's memory keeps its shape (TypeOK of the run); pendingCount    *)
(* never goes beyond the records that came.                                *)
THEOREM TypeCorrect == Spec => []TypeOK
<1>1. ClaimsInv => TypeOK
  BY ClaimsTypeIsTyped DEF ClaimsInv
<1> QED BY <1>1, ClaimsInvariant, PTL

(* Accepted logs are received, held, rejected and counted, or were lost    *)
(* with the process (AcceptedIsHeld of the run).                           *)
THEOREM AcceptedLogsAreHeld == Spec => []AcceptedIsHeld
<1>1. ClaimsInv => AcceptedIsHeld
  BY DEF ClaimsInv
<1> QED BY <1>1, ClaimsInvariant, PTL

(* A claim is never replaced by a claim on another binding.                *)
LEMMA ClaimsArePinned ==
    ASSUME ClaimsInv, [Next]_vars, NEW t \in Session, claim[t] # NoBinding, claim'[t] # NoBinding
    PROVE  claim'[t] = claim[t]
<1>0. /\ Configured[t] \in {claim[t], NoBinding}
      /\ \A r \in Rec : Reread(r)[t] \in {claim[t], NoBinding}
      /\ claim \in Claims
  BY DEF Configured, Reread, ClaimsInv, ClaimsType, Books
<1>1. ASSUME NEW r \in Rec, Logs(r) PROVE claim'[t] = claim[t]
  BY <1>0, <1>1 DEF Logs, Arrive, Touch, Route, Hold, TooMany, ToWorkspace, RouteSent, Refuse, GrowOld,
                    Persist, Remember, attribution
<1>2. ASSUME NEW s \in Session, Accept(s) PROVE claim'[t] = claim[t]
  BY <1>0, <1>2 DEF Accept, Conflict, Persist, Claims
<1>3. ASSUME NEW s \in Session, Conflicting(s) \/ DrainSent(s) \/ DrainFails(s) \/ Lapse(s)
      PROVE claim'[t] = claim[t]
  BY <1>0, <1>3 DEF Conflicting, DrainSent, DrainFails, Lapse, Persist, Remember, attribution, Claims
<1>4. CASE (\E s \in Session, b \in Binding : Ask(s, b)) \/ Health \/ AskUnmapped
  BY <1>0, <1>4 DEF Ask, Health, Touch, AskUnmapped, Persist, Remember
<1>5. CASE Restart
  BY <1>5 DEF Restart, Persist, ClaimsInv, Standing
<1>6. CASE (\E b \in Binding : Configure(b)) \/ ConfigureWorkspace \/ Die \/ UNCHANGED vars
  BY <1>6 DEF Configure, ConfigureWorkspace, Die, vars, attribution
<1> QED BY <1>1, <1>2, <1>3, <1>4, <1>5, <1>6 DEF Next, ClaimStep

(* A request starts to send to the binding that claims its session.        *)
LEMMA RequestsFollowClaims ==
    ASSUME ClaimsInv, [Next]_vars, NEW x \in Rec, req'[x] = "sending"
    PROVE  \/ req[x] = "sending" /\ dest'[x] = dest[x]
           \/ claim'[Of[x]] \in {dest'[x], NoBinding}
<1>0. Rest /\ Of[x] \in Session
  BY ClaimsAssumption DEF ClaimsInv, ClaimsType
<1>1. ASSUME NEW r \in Rec, Route(r), r = x PROVE claim'[Of[x]] \in {dest'[x], NoBinding}
  BY <1>0, <1>1 DEF Route, Remember, Reread, Configured, Rest
<1>2. ASSUME NEW r \in Rec, Route(r), r # x PROVE req[x] = "sending" /\ dest'[x] = dest[x]
  BY <1>0, <1>2 DEF Route, Rest
<1>3. ASSUME NEW r \in Rec, Logs(r), ~Route(r) PROVE req[x] = "sending" /\ dest'[x] = dest[x]
  BY <1>0, <1>3 DEF Logs, Arrive, Hold, TooMany, ToWorkspace, RouteSent, Refuse, GrowOld, network, Rest
<1>4. ASSUME NEW s \in Session, ClaimStep(s) PROVE req[x] = "sending" /\ dest'[x] = dest[x]
  BY <1>4 DEF ClaimStep, Conflicting, Accept, DrainSent, DrainFails, Lapse, network
<1>5. CASE (\E s \in Session, b \in Binding : Ask(s, b)) \/ Health \/ AskUnmapped
           \/ (\E b \in Binding : Configure(b)) \/ ConfigureWorkspace \/ Restart \/ UNCHANGED vars
  BY <1>5 DEF Ask, Health, AskUnmapped, Configure, ConfigureWorkspace, Restart, vars, network
<1>6. CASE Die
  BY <1>6 DEF Die
<1> QED BY <1>1, <1>2, <1>3, <1>4, <1>5, <1>6 DEF Next, Logs

(* A claim that sends sends records of its session, for which no other     *)
(* binding stands.                                                         *)
LEMMA DrainsFollowClaims ==
    ASSUME ClaimsInv, NEW s \in Session, Sending(s)
    PROVE  claim[Of[Head(Pending(s))]] \in {sendTo[s], NoBinding}
<1>1. Pending(s) \in Seq(Rec) /\ Pending(s) # <<>> /\ \A r \in Range(Pending(s)) : Of[r] = s
  BY DEF ClaimsInv, ClaimsType, Arrays, ArrayOf, Pending
<1>2. Of[Head(Pending(s))] = s
  BY <1>1, TailWorks
<1> QED BY <1>2 DEF ClaimsInv, Standing

(* A session moves to another repository only after its claim is gone, and *)
(* nothing of it starts to be sent elsewhere while the claim stands        *)
(* (SessionIsPinned of the run).                                           *)
THEOREM SessionsArePinned == Spec => SessionIsPinned
<1>1. ClaimsInv /\ ClaimsInv' /\ [Next]_vars =>
        [/\ \A s \in Session : claim[s] # NoBinding /\ claim'[s] # NoBinding => claim'[s] = claim[s]
         /\ \A p \in InFlight' \ InFlight : claim'[Of[p[1]]] \in {p[2], NoBinding}]_vars
  <2> SUFFICES ASSUME ClaimsInv, ClaimsInv', [Next]_vars
               PROVE  /\ \A s \in Session : claim[s] # NoBinding /\ claim'[s] # NoBinding => claim'[s] = claim[s]
                      /\ \A p \in InFlight' \ InFlight : claim'[Of[p[1]]] \in {p[2], NoBinding}
    OBVIOUS
  <2>1. \A s \in Session : claim[s] # NoBinding /\ claim'[s] # NoBinding => claim'[s] = claim[s]
    BY ClaimsArePinned
  <2>2. ASSUME NEW p \in InFlight', p \notin InFlight PROVE claim'[Of[p[1]]] \in {p[2], NoBinding}
    <3>1. CASE \E r \in Rec : req'[r] = "sending" /\ p = <<r, dest'[r]>>
      <4>1. PICK r \in Rec : req'[r] = "sending" /\ p = <<r, dest'[r]>>
        BY <3>1
      <4>2. ~(req[r] = "sending" /\ dest'[r] = dest[r])
        BY <2>2, <4>1 DEF InFlight
      <4> QED BY <4>1, <4>2, RequestsFollowClaims
    <3>2. CASE \E s \in Session : Sending(s)' /\ p = <<Head(Pending(s)'), sendTo'[s]>>
      <4>1. PICK s \in Session : Sending(s)' /\ p = <<Head(Pending(s)'), sendTo'[s]>>
        BY <3>2
      <4>2. (claim[Of[Head(Pending(s))]] \in {sendTo[s], NoBinding})'
        BY <4>1, DrainsFollowClaims, PTL
      <4> QED BY <4>1, <4>2
    <3> QED BY <2>2, <3>1, <3>2 DEF InFlight
  <2> QED BY <2>1, <2>2
<1> QED BY <1>1, ClaimsInvariant, PTL DEF Spec, SessionIsPinned
================================================================================
