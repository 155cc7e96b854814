---------------------------- MODULE StoreProofs ----------------------------
(***************************************************************************)
(* Theorems about Store, for every number of tables, client order ids,     *)
(* orders and generations, and every size of the history and the cache.    *)
(***************************************************************************)
EXTENDS Store, FiniteSetTheorems, SequenceTheorems, WellFoundedInduction, TLAPS

-----------------------------------------------------------------------------
(* Lemmas about histories and their trimming *)

\* A non-empty set of numbers has a least element.
LEMMA LeastElement ==
    ASSUME NEW F \in SUBSET Nat, F # {}
    PROVE  \E m \in F : \A j \in F : m <= j
<1>1. PICK m \in F : \A y \in F : ~ (<<y, m>> \in OpToRel(<, Nat))
  BY NatLessThanWellFounded, WFMin
<1>2. ASSUME NEW j \in F
      PROVE  m <= j
  <2>1. ~ (<<j, m>> \in {ss \in Nat \X Nat : ss[1] < ss[2]})
    BY <1>1 DEF OpToRel
  <2>2. <<j, m>> \in Nat \X Nat
    OBVIOUS
  <2>3. ~ (j < m)
    BY <2>1, <2>2
  <2> QED
    BY <2>3
<1> QED
  BY <1>2

\* What it is to be a history: the ids were handed out and have a status.
LEMMA HistoryIs ==
    ASSUME NEW o \in Histories
    PROVE  /\ DOMAIN o \subseteq 1..placed
           /\ \A i \in DOMAIN o : o[i] \in OrderStatus
  BY DEF Histories

LEMMA IsHistory ==
    ASSUME NEW S \in SUBSET (1..placed), NEW o \in [S -> OrderStatus]
    PROVE  o \in Histories
  BY DEF Histories

LEMMA EmptyHistory == NoOrders \in Histories
<1>1. NoOrders \in [{} -> OrderStatus]
  BY DEF NoOrders
<1>2. {} \in SUBSET (1..placed)
  OBVIOUS
<1> QED
  BY <1>1, <1>2 DEF Histories

LEMMA HistoryIsFinite ==
    ASSUME placed \in Nat, NEW o \in Histories
    PROVE  IsFiniteSet(DOMAIN o) /\ DOMAIN o \subseteq Nat
<1>1. IsFiniteSet(1..placed)
  BY FS_Interval
<1>2. DOMAIN o \subseteq 1..placed
  BY HistoryIs
<1> QED
  BY <1>1, <1>2, FS_Subset

\* Trimming removes finished orders and changes nothing else.
LEMMA TrimmedIs ==
    ASSUME NEW o
    PROVE  /\ DOMAIN Trimmed(o) = DOMAIN o \ Evicted(o)
           /\ Evicted(o) \subseteq Finished(o)
           /\ \A i \in DOMAIN Trimmed(o) : Trimmed(o)[i] = o[i]
           /\ Cooking(Trimmed(o)) = Cooking(o)
           /\ Finished(Trimmed(o)) = Finished(o) \ Evicted(o)
  BY DEF Trimmed, Evicted, Cooking, Finished

\* One finished order too many is one that trimming removes, the oldest.
LEMMA TrimmedIsBounded ==
    ASSUME NEW o, IsFiniteSet(DOMAIN o), DOMAIN o \subseteq Nat,
           Cardinality(Finished(o)) <= MaxServedHistory + 1
    PROVE  Cardinality(Finished(Trimmed(o))) <= MaxServedHistory
<1> DEFINE F == Finished(o)
<1>1. IsFiniteSet(F) /\ F \in SUBSET Nat /\ Cardinality(F) \in Nat
  BY FS_Subset, FS_CardinalityType DEF Finished
<1>2. Finished(Trimmed(o)) = F \ Evicted(o)
  BY TrimmedIs
<1>3. CASE Cardinality(F) <= MaxServedHistory
  <2>1. Cardinality(F \ Evicted(o)) <= Cardinality(F)
    BY <1>1, FS_Subset
  <2>2. Cardinality(F \ Evicted(o)) \in Nat
    BY <1>1, FS_Subset, FS_CardinalityType
  <2> QED
    BY <1>1, <1>2, <1>3, <2>1, <2>2, HistoryAssumption
<1>4. CASE Cardinality(F) = MaxServedHistory + 1
  <2>1. F # {}
    BY <1>4, FS_EmptySet, HistoryAssumption
  <2>2. PICK m \in F : \A j \in F : m <= j
    BY <1>1, <2>1, LeastElement
  <2>3. {j \in F : j > m} = F \ {m}
    BY <1>1, <2>2
  <2>4. Cardinality(F \ {m}) = MaxServedHistory /\ IsFiniteSet(F \ {m})
    <3>1. Cardinality(F \ {m}) = Cardinality(F) - 1 /\ IsFiniteSet(F \ {m})
      BY <1>1, FS_RemoveElement
    <3> QED
      BY <3>1, <1>4, HistoryAssumption
  <2>5. m \in Evicted(o)
    BY <2>3, <2>4, HistoryAssumption DEF Evicted
  <2>6. F \ Evicted(o) \in SUBSET (F \ {m})
    BY <2>5
  <2>7. Cardinality(F \ Evicted(o)) <= Cardinality(F \ {m})
    BY <2>4, <2>6, FS_Subset
  <2> QED
    BY <1>2, <2>4, <2>7
<1> QED
  BY <1>1, <1>3, <1>4, HistoryAssumption

\* Where one finished order is too many, trimming removes only the oldest.
LEMMA EvictedIsOldest ==
    ASSUME NEW o, IsFiniteSet(DOMAIN o), DOMAIN o \subseteq Nat,
           Cardinality(Finished(o)) <= MaxServedHistory + 1,
           NEW i \in Evicted(o)
    PROVE  Cardinality({j \in Finished(Trimmed(o)) : j > i}) = MaxServedHistory
<1> DEFINE F == Finished(o)
           Later(k) == {j \in F : j > k}
<1>1. IsFiniteSet(F) /\ F \in SUBSET Nat /\ Cardinality(F) \in Nat /\ i \in F
  BY FS_Subset, FS_CardinalityType DEF Finished, Evicted
<1>2. IsFiniteSet(F \ {i}) /\ Cardinality(F \ {i}) = Cardinality(F) - 1
  BY <1>1, FS_RemoveElement
<1>3. Cardinality(F \ {i}) <= MaxServedHistory
  BY <1>1, <1>2, HistoryAssumption
<1>4. Later(i) \in SUBSET (F \ {i})
  BY <1>1
<1>5. IsFiniteSet(Later(i)) /\ Cardinality(Later(i)) \in Nat
      /\ Cardinality(Later(i)) <= Cardinality(F \ {i})
  BY <1>2, <1>4, FS_Subset, FS_CardinalityType
<1>6. Cardinality(Later(i)) >= MaxServedHistory
  BY DEF Evicted
<1>7. Cardinality(Later(i)) = MaxServedHistory
  BY <1>2, <1>3, <1>5, <1>6, <1>1, HistoryAssumption
<1>8. ASSUME NEW k \in Later(i)
      PROVE  k \notin Evicted(o)
  <2>1. Later(k) \in SUBSET (Later(i) \ {k})
    BY <1>1
  <2>2. /\ IsFiniteSet(Later(i) \ {k})
        /\ Cardinality(Later(i) \ {k}) = Cardinality(Later(i)) - 1
    BY <1>5, FS_RemoveElement
  <2>3. Cardinality(Later(k)) <= Cardinality(Later(i) \ {k}) /\ Cardinality(Later(k)) \in Nat
    BY <2>1, <2>2, FS_Subset, FS_CardinalityType
  <2>4. ~ (Cardinality(Later(k)) >= MaxServedHistory)
    BY <1>7, <2>2, <2>3, HistoryAssumption
  <2> QED
    BY <2>4 DEF Evicted
<1>9. {j \in Finished(Trimmed(o)) : j > i} = Later(i)
  BY <1>8, TrimmedIs
<1> QED
  BY <1>7, <1>9

-----------------------------------------------------------------------------
(* Type correctness *)

\* A history with an order added or updated, and then trimmed, is a history.
LEMMA ChangedHistory ==
    ASSUME NEW o \in Histories, NEW status \in OrderStatus,
           NEW n \in Nat, placed \in Nat, placed <= n, NEW i \in 1..n
    PROVE  Trimmed(WithOrder(o, i, status)) \in UNION {[S -> OrderStatus] : S \in SUBSET (1..n)}
<1> DEFINE w == WithOrder(o, i, status)
<1>1. DOMAIN o \subseteq 1..n /\ \A j \in DOMAIN o : o[j] \in OrderStatus
  BY HistoryIs
<1>2. DOMAIN w \subseteq 1..n /\ \A j \in DOMAIN w : w[j] \in OrderStatus
  BY <1>1 DEF WithOrder
<1>3. Trimmed(w) \in [DOMAIN w \ Evicted(w) -> OrderStatus]
  BY <1>2 DEF Trimmed
<1>4. DOMAIN w \ Evicted(w) \in SUBSET (1..n)
  BY <1>2
<1> QED
  BY <1>3, <1>4

\* The cache holds client order ids whatever is remembered.
LEMMA RememberedIsSeq ==
    ASSUME seen \in Seq(ClientOrders), NEW c \in ClientOrders, RememberClientOrder(c)
    PROVE  seen' \in Seq(ClientOrders)
<1>1. MovedToEnd(seen, c) \in Seq(ClientOrders) /\ MovedToEnd(seen, c) # << >>
  <2>1. CASE \E k \in 1..Len(seen) : seen[k] = c
    <3> DEFINE k == CHOOSE k \in 1..Len(seen) : seen[k] = c
               rest == SubSeq(seen, 1, k - 1) \o SubSeq(seen, k + 1, Len(seen))
    <3>1. k \in 1..Len(seen)
      BY <2>1
    <3>2. SubSeq(seen, 1, k - 1) \in Seq(ClientOrders)
          /\ SubSeq(seen, k + 1, Len(seen)) \in Seq(ClientOrders)
      <4>1. \A j \in 1..k-1 : seen[j] \in ClientOrders
        BY <3>1, ElementOfSeq
      <4>2. \A j \in k+1..Len(seen) : seen[j] \in ClientOrders
        BY <3>1, ElementOfSeq
      <4> HIDE DEF k
      <4> QED
        BY <3>1, <4>1, <4>2, SubSeqProperties
    <3>3. rest \in Seq(ClientOrders)
      BY <3>2, ConcatProperties
    <3>4. MovedToEnd(seen, c) = Append(rest, c)
      BY <2>1 DEF MovedToEnd
    <3> HIDE DEF k, rest
    <3> QED
      BY <3>3, <3>4, AppendProperties
  <2>2. CASE ~ \E k \in 1..Len(seen) : seen[k] = c
    BY <2>2, AppendProperties DEF MovedToEnd
  <2> QED
    BY <2>1, <2>2
<1>2. Tail(MovedToEnd(seen, c)) \in Seq(ClientOrders)
  BY <1>1, HeadTailProperties
<1> QED
  BY <1>1, <1>2 DEF RememberClientOrder

LEMMA StoreInitTyped ==
    StoreInit => StoreTypeOK
<1> SUFFICES ASSUME StoreInit
             PROVE  StoreTypeOK
  OBVIOUS
<1>1. NoOrders \in Histories
  BY EmptyHistory
<1>2. orders \in [Tables -> Histories]
  BY <1>1 DEF StoreInit
<1>3. version \in [Tables -> Nat] /\ seen \in Seq(ClientOrders)
  BY DEF StoreInit
<1> QED
  BY <1>2, <1>3, BoundsAssumption DEF StoreTypeOK, StoreInit

LEMMA StoreNextTyped ==
    ASSUME StoreTypeOK, [StoreNext]_storeVars
    PROVE  StoreTypeOK'
<1>0. placed \in Nat /\ epoch \in 1..MaxEpochs /\ placed \in 0..MaxOrders
  BY BoundsAssumption DEF StoreTypeOK
<1>1. ASSUME NEW t \in Tables, NEW c \in ClientOrders, StoreAccept(t, c)
      PROVE  StoreTypeOK'
  <2>1. placed' = placed + 1 /\ placed' \in 0..MaxOrders /\ epoch' \in 1..MaxEpochs
    BY <1>0, <1>1, BoundsAssumption DEF StoreAccept, AddOrder
  <2>2. version' \in [Tables -> Nat]
    BY <1>1 DEF StoreAccept, AddOrder, StoreTypeOK
  <2>3. seen' \in Seq(ClientOrders)
    BY <1>1, RememberedIsSeq DEF StoreAccept, StoreTypeOK
  <2>4. orders' \in [Tables -> Histories']
    <3>1. orders[t] \in Histories
      BY DEF StoreTypeOK
    <3>2. Trimmed(WithOrder(orders[t], placed + 1, "COOKING")) \in Histories'
      <4>1. /\ "COOKING" \in OrderStatus
            /\ placed' \in Nat /\ placed <= placed' /\ placed + 1 \in 1..placed'
        BY <1>0, <2>1 DEF OrderStatus
      <4>2. Trimmed(WithOrder(orders[t], placed + 1, "COOKING"))
              \in UNION {[S -> OrderStatus] : S \in SUBSET (1..placed')}
        BY <1>0, <3>1, <4>1, ChangedHistory
      <4> QED
        BY <4>2 DEF Histories
    <3>3. \A u \in Tables : orders[u] \in Histories'
      <4>1. 1..placed \subseteq 1..placed'
        BY <1>0, <2>1
      <4> QED
        BY <4>1 DEF Histories, StoreTypeOK
    <3> QED
      BY <1>1, <3>2, <3>3 DEF StoreAccept, AddOrder, StoreTypeOK
  <2> QED
    BY <2>1, <2>2, <2>3, <2>4 DEF StoreTypeOK
<1>2. ASSUME NEW t \in Tables, NEW i \in 1..placed, NEW s \in OrderStatus \ {"COOKING"},
             StoreFinish(t, i, s)
      PROVE  StoreTypeOK'
  <2>1. version' \in [Tables -> Nat]
    BY <1>2 DEF StoreFinish, FinishOrder, StoreTypeOK
  <2>2. orders' \in [Tables -> Histories]
    <3>1. orders[t] \in Histories
      BY DEF StoreTypeOK
    <3>2. Trimmed(WithOrder(orders[t], i, s)) \in Histories
      <4>1. Trimmed(WithOrder(orders[t], i, s))
              \in UNION {[S -> OrderStatus] : S \in SUBSET (1..placed)}
        <5>1. s \in OrderStatus /\ placed <= placed
          BY <1>0
        <5> QED
          BY <1>0, <3>1, <5>1, ChangedHistory
      <4> QED
        BY <4>1 DEF Histories
    <3> QED
      BY <1>2, <3>2 DEF StoreFinish, FinishOrder, StoreTypeOK
  <2>3. Histories' = Histories /\ UNCHANGED <<epoch, seen, placed>>
    BY <1>2 DEF StoreFinish, Histories
  <2> QED
    BY <2>1, <2>2, <2>3 DEF StoreTypeOK
<1>3. ASSUME StoreReset
      PROVE  StoreTypeOK'
  <2>1. NoOrders \in Histories
    BY EmptyHistory
  <2>2. Histories' = Histories /\ UNCHANGED placed
    BY <1>3 DEF StoreReset, Histories
  <2>3. epoch' \in 1..MaxEpochs
    BY <1>0, <1>3, BoundsAssumption DEF StoreReset, Reset
  <2>4. /\ orders' \in [Tables -> Histories]
        /\ version' \in [Tables -> Nat]
        /\ seen' \in Seq(ClientOrders)
    BY <1>3, <2>1 DEF StoreReset, Reset
  <2> QED
    BY <2>2, <2>3, <2>4 DEF StoreTypeOK
<1>4. CASE UNCHANGED storeVars
  BY <1>4 DEF storeVars, StoreTypeOK, Histories
<1> QED
  BY <1>1, <1>2, <1>3, <1>4 DEF StoreNext

\* The store keeps its types under any caller.
THEOREM StoreTypeCorrect == StoreSpec => []StoreTypeOK
  BY StoreInitTyped, StoreNextTyped, PTL DEF StoreSpec

-----------------------------------------------------------------------------
(* Bounded history *)

\* A change of one table leaves at most one finished order too many.
LEMMA OneTooMany ==
    ASSUME StoreTypeOK, HistoryBounded, NEW t \in Tables, NEW i \in Nat, NEW s
    PROVE  LET w == WithOrder(orders[t], i, s)
           IN  /\ IsFiniteSet(DOMAIN w)
               /\ DOMAIN w \subseteq Nat
               /\ Cardinality(Finished(w)) <= MaxServedHistory + 1
<1> DEFINE o == orders[t]
           w == WithOrder(o, i, s)
<1>0. placed \in Nat
  BY BoundsAssumption DEF StoreTypeOK
<1>1. IsFiniteSet(DOMAIN o) /\ DOMAIN o \subseteq Nat
  BY <1>0, HistoryIsFinite DEF StoreTypeOK
<1>2. /\ IsFiniteSet(Finished(o))
      /\ Cardinality(Finished(o)) \in Nat
      /\ Cardinality(Finished(o)) <= MaxServedHistory
  <2>1. IsFiniteSet(Finished(o))
    BY <1>1, FS_Subset DEF Finished
  <2> QED
    BY <2>1, FS_CardinalityType DEF HistoryBounded
<1>3. IsFiniteSet(DOMAIN w) /\ DOMAIN w \subseteq Nat
  BY <1>1, FS_AddElement DEF WithOrder
<1>4. Finished(w) \in SUBSET (Finished(o) \cup {i})
  BY DEF WithOrder, Finished, Cooking
<1>5. /\ IsFiniteSet(Finished(o) \cup {i})
      /\ Cardinality(Finished(o) \cup {i}) =
           IF i \in Finished(o) THEN Cardinality(Finished(o)) ELSE Cardinality(Finished(o)) + 1
  BY <1>2, FS_AddElement
<1>6. Cardinality(Finished(w)) <= Cardinality(Finished(o) \cup {i})
      /\ Cardinality(Finished(w)) \in Nat
  BY <1>4, <1>5, FS_Subset, FS_CardinalityType
<1>7. Cardinality(Finished(w)) <= MaxServedHistory + 1
  BY <1>2, <1>5, <1>6, HistoryAssumption
<1> QED
  BY <1>3, <1>7

\* The invariant is inductive together with the types: a table holds at most
\* one finished order too many between a method's assignment and its trimming.
LEMMA HistoryStep ==
    ASSUME StoreTypeOK, HistoryBounded, [StoreNext]_storeVars
    PROVE  HistoryBounded'
<1>0. placed \in Nat
  BY BoundsAssumption DEF StoreTypeOK
<1>a. ASSUME NEW t \in Tables
      PROVE  Cardinality(Finished(orders[t])) <= MaxServedHistory
  BY DEF HistoryBounded
<1>b. ASSUME NEW t \in Tables, NEW i \in Nat, NEW s
      PROVE  Cardinality(Finished(Trimmed(WithOrder(orders[t], i, s)))) <= MaxServedHistory
  BY OneTooMany, TrimmedIsBounded
<1>1. ASSUME NEW t \in Tables, NEW c \in ClientOrders, StoreAccept(t, c)
      PROVE  HistoryBounded'
  <2>1. orders' = [orders EXCEPT ![t] = Trimmed(WithOrder(orders[t], placed + 1, "COOKING"))]
    BY <1>1 DEF StoreAccept, AddOrder
  <2>2. placed + 1 \in Nat
    BY <1>0
  <2> QED
    BY <1>a, <1>b, <2>1, <2>2 DEF HistoryBounded, StoreTypeOK
<1>2. ASSUME NEW t \in Tables, NEW i \in 1..placed, NEW s \in OrderStatus \ {"COOKING"},
             StoreFinish(t, i, s)
      PROVE  HistoryBounded'
  <2>1. orders' = [orders EXCEPT ![t] = Trimmed(WithOrder(orders[t], i, s))]
    BY <1>2 DEF StoreFinish, FinishOrder
  <2>2. i \in Nat
    BY <1>0
  <2> QED
    BY <1>a, <1>b, <2>1, <2>2 DEF HistoryBounded, StoreTypeOK
<1>3. ASSUME StoreReset
      PROVE  HistoryBounded'
  <2>1. \A t \in Tables : Finished(orders'[t]) = {}
    BY <1>3 DEF StoreReset, Reset, NoOrders, Finished
  <2> QED
    BY <2>1, FS_EmptySet, HistoryAssumption DEF HistoryBounded
<1>4. CASE UNCHANGED storeVars
  BY <1>4 DEF storeVars, HistoryBounded
<1> QED
  BY <1>1, <1>2, <1>3, <1>4 DEF StoreNext

\* However orders finish, no table keeps more than MaxServedHistory finished
\* ones: the retained payload stays bounded.
THEOREM HistoryStaysBounded == StoreSpec => []HistoryBounded
<1>1. StoreInit => HistoryBounded
  BY FS_EmptySet, HistoryAssumption DEF StoreInit, HistoryBounded, NoOrders, Finished
<1>2. StoreTypeOK /\ HistoryBounded /\ [StoreNext]_storeVars => HistoryBounded'
  BY HistoryStep
<1> QED
  BY <1>1, <1>2, StoreTypeCorrect, PTL DEF StoreSpec

\* Trimming costs a table nothing but orders that MaxServedHistory later ones have
\* replaced: the last to arrive are never lost, however orders finish.
THEOREM LatestStay == StoreSpec => LatestAreKept
<1> DEFINE Kept ==
        epoch' = epoch =>
            \A t \in Tables : \A i \in DOMAIN orders[t] \ DOMAIN orders'[t] :
                Cardinality({j \in Finished(orders'[t]) : j > i}) = MaxServedHistory
<1>1. ASSUME StoreTypeOK, HistoryBounded, [StoreNext]_storeVars
      PROVE  Kept
  <2>0. placed \in Nat /\ epoch \in Nat
    BY <1>1, BoundsAssumption DEF StoreTypeOK
  <2>1. ASSUME NEW t \in Tables, NEW i \in Nat, NEW s,
               orders' = [orders EXCEPT ![t] = Trimmed(WithOrder(orders[t], i, s))]
        PROVE  Kept
    <3>1. SUFFICES ASSUME NEW u \in Tables, NEW k \in DOMAIN orders[u] \ DOMAIN orders'[u]
                   PROVE  Cardinality({j \in Finished(orders'[u]) : j > k}) = MaxServedHistory
      BY DEF Kept
    <3>2. u = t /\ orders'[t] = Trimmed(WithOrder(orders[t], i, s))
      BY <1>1, <2>1 DEF StoreTypeOK
    <3>3. k \in Evicted(WithOrder(orders[t], i, s))
      BY <3>2, TrimmedIs DEF WithOrder
    <3> QED
      BY <1>1, <3>2, <3>3, OneTooMany, EvictedIsOldest
  <2>2. ASSUME NEW t \in Tables, NEW c \in ClientOrders, StoreAccept(t, c)
        PROVE  Kept
    <3>1. orders' = [orders EXCEPT ![t] = Trimmed(WithOrder(orders[t], placed + 1, "COOKING"))]
      BY <2>2 DEF StoreAccept, AddOrder
    <3>2. placed + 1 \in Nat
      BY <2>0
    <3> HIDE DEF Kept
    <3> QED
      BY <2>1, <3>1, <3>2
  <2>3. ASSUME NEW t \in Tables, NEW i \in 1..placed, NEW s \in OrderStatus \ {"COOKING"},
               StoreFinish(t, i, s)
        PROVE  Kept
    <3>1. orders' = [orders EXCEPT ![t] = Trimmed(WithOrder(orders[t], i, s))] /\ i \in Nat
      BY <2>0, <2>3 DEF StoreFinish, FinishOrder
    <3> HIDE DEF Kept
    <3> QED
      BY <2>1, <3>1
  <2>4. CASE StoreReset
    BY <2>0, <2>4 DEF StoreReset, Reset
  <2>5. CASE UNCHANGED storeVars
    BY <2>5 DEF storeVars
  <2> HIDE DEF Kept
  <2> QED
    BY <1>1, <2>2, <2>3, <2>4, <2>5 DEF StoreNext
<1>2. StoreTypeOK /\ HistoryBounded /\ [StoreNext]_storeVars => [Kept]_storeVars
  BY <1>1
<1> QED
  BY <1>2, StoreTypeCorrect, HistoryStaysBounded, PTL DEF StoreSpec, LatestAreKept

-----------------------------------------------------------------------------
(* Versions *)

\* Whatever is done to the store, the content of a table changes only with a
\* later epoch or a higher version, so (epoch, version) identifies it.
THEOREM VersionsIdentify == StoreSpec => VersionIdentifiesContent
<1> DEFINE Identified ==
        \A t \in Tables :
           \/ epoch' > epoch
           \/ version'[t] > version[t]
           \/ orders'[t] = orders[t] /\ version'[t] = version[t]
<1>1. ASSUME StoreTypeOK, [StoreNext]_storeVars
      PROVE  [Identified]_storeVars
  <2>1. ASSUME NEW t \in Tables, NEW c \in ClientOrders, StoreAccept(t, c)
        PROVE  Identified
    BY <1>1, <2>1 DEF StoreAccept, AddOrder, StoreTypeOK
  <2>2. ASSUME NEW t \in Tables, NEW i \in 1..placed, NEW s \in OrderStatus \ {"COOKING"},
               StoreFinish(t, i, s)
        PROVE  Identified
    BY <1>1, <2>2 DEF StoreFinish, FinishOrder, StoreTypeOK
  <2>3. ASSUME StoreReset
        PROVE  Identified
    BY <1>1, <2>3, BoundsAssumption DEF StoreReset, Reset, StoreTypeOK
  <2> QED
    BY <1>1, <2>1, <2>2, <2>3 DEF StoreNext
<1> QED
  BY <1>1, StoreTypeCorrect, PTL DEF StoreSpec, VersionIdentifiesContent
=============================================================================
