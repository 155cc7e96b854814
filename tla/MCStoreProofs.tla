--------------------------- MODULE MCStoreProofs ---------------------------
(***************************************************************************)
(* Theorems about the instances of Store in MCStore, for every number of   *)
(* tables, orders and generations and every size of history and cache: the *)
(* store implements Lifecycle, and its cache is one of the most recently   *)
(* used client order ids.                                                  *)
(***************************************************************************)
EXTENDS MCStore, StoreProofs

-----------------------------------------------------------------------------
(* The refinement mapping, as a function of what it depends on *)

Holds(o, i) == {t \in Tables : i \in DOMAIN o[t]}

PhaseIn(o, n, i) ==
    IF i > n THEN "unplaced"
    ELSE IF Holds(o, i) = {} THEN "gone"
    ELSE o[CHOOSE t \in Tables : i \in DOMAIN o[t]][i]

LEMMA PhaseIs ==
    /\ phase = [i \in 1..MaxOrders |-> PhaseIn(orders, placed, i)]
    /\ phase' = [i \in 1..MaxOrders |-> PhaseIn(orders', placed', i)]
BY DEF phase, Place, PhaseIn, Holds

\* An order is on one table only.
AtOneTable(o) ==
    \A t, u \in Tables : DOMAIN o[t] \cap DOMAIN o[u] # {} => t = u

OrdersAreAtOneTable == AtOneTable(orders)

LEMMA PhaseOfHeld ==
    ASSUME NEW o, AtOneTable(o), NEW n \in Nat, NEW i \in 1..n,
           NEW t \in Tables, i \in DOMAIN o[t]
    PROVE  PhaseIn(o, n, i) = o[t][i]
<1>1. PICK u : u = CHOOSE v \in Tables : i \in DOMAIN o[v]
  OBVIOUS
<1>2. u \in Tables /\ i \in DOMAIN o[u]
  BY <1>1
<1>3. u = t
  BY <1>2 DEF AtOneTable
<1>4. ~ (i > n) /\ Holds(o, i) # {}
  BY DEF Holds
<1> QED
  BY <1>1, <1>3, <1>4 DEF PhaseIn

LEMMA PhaseOfPlaced ==
    ASSUME NEW o, \A t \in Tables : \A i \in DOMAIN o[t] : o[t][i] \in OrderStatus,
           NEW n, NEW i, ~ (i > n)
    PROVE  PhaseIn(o, n, i) \in OrderStatus \cup {"gone"}
<1>1. CASE Holds(o, i) = {}
  BY <1>1 DEF PhaseIn
<1>2. CASE Holds(o, i) # {}
  <2>1. PICK t : t = CHOOSE v \in Tables : i \in DOMAIN o[v]
    OBVIOUS
  <2>2. t \in Tables /\ i \in DOMAIN o[t]
    BY <1>2, <2>1 DEF Holds
  <2> QED
    BY <1>2, <2>1, <2>2 DEF PhaseIn
<1> QED
  BY <1>1, <1>2

\* The mapping yields phases.
LEMMA PhasesAreTyped ==
    ASSUME StoreTypeOK'
    PROVE  phase' \in [1..MaxOrders -> Order!Phase]
<1>1. ASSUME NEW t \in Tables, NEW i \in DOMAIN orders'[t]
      PROVE  orders'[t][i] \in OrderStatus
  <2>1. orders'[t] \in Histories'
    BY DEF StoreTypeOK
  <2> QED
    BY <2>1 DEF Histories
<1>2. ASSUME NEW i \in 1..MaxOrders
      PROVE  PhaseIn(orders', placed', i) \in Order!Phase
  <2>1. CASE i > placed'
    BY <2>1 DEF PhaseIn, Order!Phase
  <2>2. CASE ~ (i > placed')
    BY <1>1, <2>2, PhaseOfPlaced DEF Order!Phase, Order!Done, OrderStatus
  <2> QED
    BY <2>1, <2>2
<1> QED
  BY <1>2, PhaseIs

-----------------------------------------------------------------------------
(* The steps *)

\* When a history is changed and trimmed, every other order keeps its place and
\* status, or was finished and leaves.
LEMMA TrimmingAges ==
    ASSUME NEW o, NEW i, NEW s, NEW j \in DOMAIN o, j # i,
           \A k \in DOMAIN o : o[k] \in OrderStatus
    PROVE  LET n == Trimmed(WithOrder(o, i, s))
           IN  \/ j \in DOMAIN n /\ n[j] = o[j]
               \/ j \notin DOMAIN n /\ o[j] \in {"SERVED", "FAILED"}
BY DEF Trimmed, WithOrder, Evicted, Finished, Cooking, OrderStatus

\* One table changes: order i gets status s there, if it is kept.
LEMMA TableChangeAges ==
    ASSUME StoreTypeOK, OrdersAreAtOneTable, StoreTypeOK',
           NEW t \in Tables, NEW i \in Nat, NEW s,
           orders' = [orders EXCEPT ![t] = Trimmed(WithOrder(orders[t], i, s))],
           placed <= placed',
           i \in DOMAIN orders[t] \/ (i > placed /\ i <= placed')
    PROVE  /\ OrdersAreAtOneTable'
           /\ \A j \in (1..placed) \ {i} : Order!Ages(j)
<1>0. placed \in Nat /\ placed' \in Nat /\ 1..placed' \subseteq 1..MaxOrders
      /\ 1..placed \subseteq 1..placed'
  BY BoundsAssumption DEF StoreTypeOK
<1>1. \A u \in Tables : DOMAIN orders[u] \subseteq 1..placed
  BY HistoryIs DEF StoreTypeOK
<1>2. \A u \in Tables : \A j \in DOMAIN orders[u] : orders[u][j] \in OrderStatus
  BY HistoryIs DEF StoreTypeOK
<1>3. orders' \in [Tables -> Histories'] /\ orders \in [Tables -> Histories]
  BY DEF StoreTypeOK
<1>4. orders'[t] = Trimmed(WithOrder(orders[t], i, s))
  BY <1>3
<1>5. \A u \in Tables \ {t} : orders'[u] = orders[u]
  BY <1>3
<1>6. DOMAIN orders'[t] \subseteq DOMAIN orders[t] \cup {i}
  BY <1>4 DEF Trimmed, WithOrder
<1>7. \A u \in Tables \ {t} : i \notin DOMAIN orders[u]
  BY <1>0, <1>1 DEF OrdersAreAtOneTable, AtOneTable
<1>8. AtOneTable(orders')
  BY <1>5, <1>6, <1>7 DEF OrdersAreAtOneTable, AtOneTable
<1>9. ASSUME NEW j \in 1..placed, j # i
      PROVE  Order!Ages(j)
  <2>1. phase[j] = PhaseIn(orders, placed, j) /\ phase'[j] = PhaseIn(orders', placed', j)
    BY <1>0, PhaseIs
  <2>2. j \in 1..placed' /\ ~ (j > placed) /\ ~ (j > placed')
    BY <1>0
  <2>3. CASE Holds(orders, j) = {}
    <3>1. Holds(orders', j) = {}
      BY <1>5, <1>6, <1>9, <2>3 DEF Holds
    <3> QED
      BY <2>1, <2>2, <2>3, <3>1 DEF PhaseIn, Order!Ages
  <2>4. ASSUME NEW u \in Tables \ {t}, j \in DOMAIN orders[u]
        PROVE  Order!Ages(j)
    <3>1. phase[j] = orders[u][j]
      BY <1>0, <2>1, <2>4, PhaseOfHeld DEF OrdersAreAtOneTable
    <3>2. u \in Tables /\ j \in DOMAIN orders'[u]
      BY <1>5, <2>4
    <3>3. placed' \in Nat /\ j \in 1..placed'
      BY <1>0
    <3>4. PhaseIn(orders', placed', j) = orders'[u][j]
      <4> DEFINE o == orders'
                 n == placed'
      <4>1. AtOneTable(o) /\ n \in Nat /\ j \in 1..n /\ u \in Tables /\ j \in DOMAIN o[u]
        BY <1>8, <3>2, <3>3
      <4> HIDE DEF o, n
      <4>2. PhaseIn(o, n, j) = o[u][j]
        BY <4>1, PhaseOfHeld
      <4> QED
        BY <4>2 DEF o, n
    <3> QED
      BY <1>5, <2>1, <3>1, <3>4 DEF Order!Ages
  <2>5. CASE j \in DOMAIN orders[t]
    <3>1. phase[j] = orders[t][j]
      BY <1>0, <2>1, <2>5, PhaseOfHeld DEF OrdersAreAtOneTable
    <3>2. \/ j \in DOMAIN orders'[t] /\ orders'[t][j] = orders[t][j]
          \/ j \notin DOMAIN orders'[t] /\ orders[t][j] \in {"SERVED", "FAILED"}
      BY <1>2, <1>4, <1>9, <2>5, TrimmingAges
    <3>3. CASE j \in DOMAIN orders'[t]
      <4> DEFINE o == orders'
                 n == placed'
      <4>1. AtOneTable(o) /\ n \in Nat /\ j \in 1..n /\ j \in DOMAIN o[t]
        BY <1>0, <1>8, <2>2, <3>3
      <4> HIDE DEF o, n
      <4>2. PhaseIn(o, n, j) = o[t][j]
        BY <4>1, PhaseOfHeld
      <4>3. phase'[j] = orders'[t][j]
        BY <2>1, <4>2 DEF o, n
      <4> QED
        BY <3>1, <3>2, <3>3, <4>3 DEF Order!Ages
    <3>4. CASE j \notin DOMAIN orders'[t]
      <4>1. Holds(orders', j) = {}
        BY <1>5, <2>5, <3>4 DEF Holds, OrdersAreAtOneTable, AtOneTable
      <4> QED
        BY <2>1, <2>2, <3>1, <3>2, <3>4, <4>1 DEF PhaseIn, Order!Ages, Order!Done
    <3> QED
      BY <3>3, <3>4
  <2> QED
    BY <2>3, <2>4, <2>5 DEF Holds
<1> QED
  BY <1>8, <1>9 DEF OrdersAreAtOneTable

LEMMA AcceptPlaces ==
    ASSUME StoreTypeOK, OrdersAreAtOneTable, StoreTypeOK',
           NEW t \in Tables, NEW c \in ClientOrders, StoreAccept(t, c)
    PROVE  OrdersAreAtOneTable' /\ \E i \in 1..MaxOrders : Order!Place(i)
<1> DEFINE p == placed + 1
<1>1. placed \in Nat /\ placed' = p /\ p \in 1..MaxOrders
  BY BoundsAssumption DEF StoreTypeOK, StoreAccept, AddOrder
<1>2. orders' = [orders EXCEPT ![t] = Trimmed(WithOrder(orders[t], p, "COOKING"))]
  BY DEF StoreAccept, AddOrder
<1>3. OrdersAreAtOneTable' /\ \A j \in (1..placed) \ {p} : Order!Ages(j)
  <2>1. p \in Nat /\ placed <= placed' /\ p > placed /\ p <= placed'
    BY <1>1
  <2> HIDE DEF p
  <2> QED
    BY <1>2, <2>1, TableChangeAges
<1>4. p \in DOMAIN orders'[t] /\ orders'[t][p] = "COOKING"
  BY <1>2 DEF StoreTypeOK, Trimmed, WithOrder, Evicted, Finished, Cooking
<1>5. phase[p] = "unplaced"
  BY <1>1, PhaseIs DEF PhaseIn
<1>6. phase'[p] = "COOKING"
  <2>1. phase'[p] = PhaseIn(orders', p, p)
    BY <1>1, PhaseIs
  <2>2. AtOneTable(orders') /\ p \in 1..p /\ p \in Nat
    BY <1>1, <1>3 DEF OrdersAreAtOneTable
  <2> QED
    BY <1>4, <2>1, <2>2, PhaseOfHeld
<1>7. ASSUME NEW j \in (1..MaxOrders) \ {p}
      PROVE  Order!Ages(j)
  <2>1. CASE j > placed
    BY <1>1, <2>1, PhaseIs DEF PhaseIn, Order!Ages
  <2>2. CASE ~ (j > placed)
    <3>1. j \in (1..placed) \ {p}
      BY <1>1, <2>2, BoundsAssumption
    <3> QED
      BY <1>3, <3>1
  <2> QED
    BY <2>1, <2>2
<1>8. Order!Place(p)
  BY <1>5, <1>6, <1>7 DEF Order!Place
<1> QED
  BY <1>1, <1>3, <1>8

LEMMA FinishFinishes ==
    ASSUME StoreTypeOK, OrdersAreAtOneTable, StoreTypeOK',
           NEW t \in Tables, NEW i \in 1..placed, NEW s \in OrderStatus \ {"COOKING"},
           StoreFinish(t, i, s)
    PROVE  OrdersAreAtOneTable' /\ \E j \in 1..MaxOrders : Order!Finish(j)
<1>1. placed \in Nat /\ placed' = placed /\ i \in 1..MaxOrders /\ i \in Nat
  BY BoundsAssumption DEF StoreTypeOK, StoreFinish
<1>2. orders' = [orders EXCEPT ![t] = Trimmed(WithOrder(orders[t], i, s))]
  BY DEF StoreFinish, FinishOrder
<1>3. i \in DOMAIN orders[t] /\ orders[t][i] = "COOKING"
  BY DEF StoreFinish, FinishOrder, IsCooking, Cooking
<1>4. OrdersAreAtOneTable' /\ \A j \in (1..placed) \ {i} : Order!Ages(j)
  <2>1. placed <= placed'
    BY <1>1
  <2> QED
    BY <1>1, <1>2, <1>3, <2>1, TableChangeAges
<1>5. phase[i] = "COOKING"
  <2>1. phase[i] = PhaseIn(orders, placed, i)
    BY <1>1, PhaseIs
  <2> QED
    BY <1>1, <1>3, <2>1, PhaseOfHeld DEF OrdersAreAtOneTable
<1>6. phase'[i] \in {"SERVED", "FAILED", "gone"}
  <2>1. phase'[i] = PhaseIn(orders', placed, i)
    BY <1>1, PhaseIs
  <2>2. orders'[t] = Trimmed(WithOrder(orders[t], i, s))
        /\ \A u \in Tables \ {t} : orders'[u] = orders[u]
    BY <1>2 DEF StoreTypeOK
  <2>3. CASE i \in DOMAIN orders'[t]
    <3>1. orders'[t][i] = s
      BY <2>2, <2>3 DEF Trimmed, WithOrder
    <3>2. PhaseIn(orders', placed, i) = orders'[t][i]
      BY <1>1, <1>4, <2>3, PhaseOfHeld DEF OrdersAreAtOneTable
    <3> QED
      BY <2>1, <3>1, <3>2 DEF OrderStatus
  <2>4. CASE i \notin DOMAIN orders'[t]
    <3>1. Holds(orders', i) = {}
      BY <1>3, <2>2, <2>4 DEF Holds, OrdersAreAtOneTable, AtOneTable
    <3> QED
      BY <1>1, <2>1, <3>1 DEF PhaseIn
  <2> QED
    BY <2>3, <2>4
<1>7. ASSUME NEW j \in (1..MaxOrders) \ {i}
      PROVE  Order!Ages(j)
  <2>1. CASE j > placed
    BY <1>1, <2>1, PhaseIs DEF PhaseIn, Order!Ages
  <2>2. CASE ~ (j > placed)
    <3>1. j \in (1..placed) \ {i}
      BY <1>1, <2>2, BoundsAssumption
    <3> QED
      BY <1>4, <3>1
  <2> QED
    BY <2>1, <2>2
<1>8. Order!Finish(i)
  BY <1>5, <1>6, <1>7 DEF Order!Finish, Order!Done
<1> QED
  BY <1>1, <1>4, <1>8

LEMMA ResetWipes ==
    ASSUME StoreTypeOK, StoreReset
    PROVE  OrdersAreAtOneTable' /\ Order!Wipe
<1>0. \A t \in Tables : \A i \in DOMAIN orders[t] : orders[t][i] \in OrderStatus
  BY HistoryIs DEF StoreTypeOK
<1>1. placed' = placed /\ \A t \in Tables : DOMAIN orders'[t] = {}
  BY DEF StoreReset, Reset, NoOrders
<1>2. OrdersAreAtOneTable'
  BY <1>1 DEF OrdersAreAtOneTable, AtOneTable
<1>3. ASSUME NEW i \in 1..MaxOrders
      PROVE  phase'[i] = IF phase[i] = "unplaced" THEN "unplaced" ELSE "gone"
  <2>1. phase[i] = PhaseIn(orders, placed, i) /\ phase'[i] = PhaseIn(orders', placed, i)
    BY <1>1, PhaseIs
  <2>2. Holds(orders', i) = {}
    BY <1>1 DEF Holds
  <2>3. CASE i > placed
    BY <2>1, <2>3 DEF PhaseIn
  <2>4. CASE ~ (i > placed)
    <3>1. phase'[i] = "gone"
      BY <2>1, <2>2, <2>4 DEF PhaseIn
    <3>2. phase[i] \in OrderStatus \cup {"gone"}
      BY <1>0, <2>1, <2>4, PhaseOfPlaced
    <3> QED
      BY <3>1, <3>2 DEF OrderStatus
  <2> QED
    BY <2>3, <2>4
<1> QED
  BY <1>2, <1>3 DEF Order!Wipe

-----------------------------------------------------------------------------
(* The theorem *)

\* An accepted order cooks, finishes once, keeps the status it finished with and
\* never comes back, for every interleaving of orders, trimming and resets
\* (store.py:138-178).
THEOREM StoreImplementsLifecycle == StoreSpec => OrderLifecycle
<1>1. StoreInit => OrdersAreAtOneTable
  BY DEF StoreInit, OrdersAreAtOneTable, AtOneTable, NoOrders
<1>2. StoreInit => Order!LifecycleInit
  BY PhaseIs, BoundsAssumption DEF StoreInit, Order!LifecycleInit, PhaseIn
<1>3. StoreTypeOK /\ OrdersAreAtOneTable /\ [StoreNext]_storeVars => OrdersAreAtOneTable'
  <2>1. UNCHANGED storeVars /\ OrdersAreAtOneTable => OrdersAreAtOneTable'
    BY DEF storeVars, OrdersAreAtOneTable, AtOneTable
  <2> QED
    BY <2>1, StoreNextTyped, AcceptPlaces, FinishFinishes, ResetWipes DEF StoreNext
<1>4. StoreTypeOK /\ OrdersAreAtOneTable /\ [StoreNext]_storeVars
          => [Order!LifecycleNext]_phase
  <2> SUFFICES ASSUME StoreTypeOK, OrdersAreAtOneTable, [StoreNext]_storeVars
               PROVE  [Order!LifecycleNext]_phase
    OBVIOUS
  <2>1. StoreTypeOK'
    BY StoreNextTyped
  <2>2. CASE UNCHANGED storeVars
    BY <2>2, PhaseIs DEF storeVars
  <2>3. CASE StoreNext
    <3>1. \/ \E i \in 1..MaxOrders : Order!Place(i)
          \/ \E i \in 1..MaxOrders : Order!Finish(i)
          \/ Order!Wipe
      BY <2>1, <2>3, AcceptPlaces, FinishFinishes, ResetWipes DEF StoreNext
    <3>2. phase' \in [1..MaxOrders -> Order!Phase]
      BY <2>1, PhasesAreTyped
    <3> QED
      BY <3>1, <3>2 DEF Order!LifecycleNext
  <2> QED
    BY <2>2, <2>3
<1> QED
  BY <1>1, <1>2, <1>3, <1>4, StoreTypeCorrect, PTL
  DEF StoreSpec, OrderLifecycle, Order!LifecycleSpec

-----------------------------------------------------------------------------
(* The last use of an id in a history, as a function of the history *)

IsLastUse(r, c, k) ==
    k \in 1..Len(r) /\ r[k] = c /\ \A m \in k+1..Len(r) : r[m] # c

LastUseIn(r, c) ==
    CHOOSE k \in 1..Len(r) : r[k] = c /\ \A m \in k+1..Len(r) : r[m] # c

UsedIn(r) == {r[k] : k \in 1..Len(r)}

LEMMA HistoryOperators ==
    /\ Used = UsedIn(remembered)
    /\ Used' = UsedIn(remembered')
    /\ \A c : LastUse(c) = LastUseIn(remembered, c)
    /\ \A c : LastUse(c)' = LastUseIn(remembered', c)
BY DEF Used, UsedIn, LastUse, LastUseIn

\* There is a last use, and only one.
LEMMA LastUseIs ==
    ASSUME NEW S, NEW r \in Seq(S), NEW c \in UsedIn(r)
    PROVE  IsLastUse(r, c, LastUseIn(r, c)) /\ LastUseIn(r, c) \in 1..Len(r)
<1>1. Len(r) \in Nat
  BY LenProperties
<1> DEFINE F == {j \in Nat : j < Len(r) /\ r[Len(r) - j] = c}
<1>2. F # {}
  <2>1. PICK k \in 1..Len(r) : r[k] = c
    BY DEF UsedIn
  <2>2. Len(r) - k \in Nat /\ Len(r) - k < Len(r) /\ Len(r) - (Len(r) - k) = k
    BY <1>1
  <2> QED
    BY <2>1, <2>2
<1>3. PICK j \in F : \A i \in F : j <= i
  <2>1. F \in SUBSET Nat
    OBVIOUS
  <2> QED
    BY <1>2, <2>1, LeastElement
<1>4. Len(r) - j \in 1..Len(r) /\ r[Len(r) - j] = c
  BY <1>1, <1>3
<1>5. ASSUME NEW m \in (Len(r) - j) + 1..Len(r)
      PROVE  r[m] # c
  <2>1. Len(r) - m \in Nat /\ Len(r) - m < j /\ Len(r) - m < Len(r) /\ Len(r) - (Len(r) - m) = m
    BY <1>1, <1>3
  <2>2. Len(r) - m \notin F
    BY <1>1, <1>3, <2>1
  <2> QED
    BY <2>1, <2>2
<1>6. \E k \in 1..Len(r) : r[k] = c /\ \A m \in k+1..Len(r) : r[m] # c
  BY <1>4, <1>5
<1> QED
  BY <1>6 DEF LastUseIn, IsLastUse

LEMMA LastUseIsOne ==
    ASSUME NEW S, NEW r \in Seq(S), NEW c, NEW k, IsLastUse(r, c, k)
    PROVE  LastUseIn(r, c) = k
<1>1. c \in UsedIn(r) /\ Len(r) \in Nat
  BY LenProperties DEF IsLastUse, UsedIn
<1>2. PICK l : l = LastUseIn(r, c)
  OBVIOUS
<1>3. IsLastUse(r, c, l)
  BY <1>1, <1>2, LastUseIs
<1>4. ~ (l < k) /\ ~ (k < l)
  BY <1>1, <1>3 DEF IsLastUse
<1>5. l \in 1..Len(r) /\ k \in 1..Len(r)
  BY <1>3 DEF IsLastUse
<1> QED
  BY <1>1, <1>2, <1>4, <1>5

\* One more use is the last of its id and leaves the others'.
LEMMA LastUseAfter ==
    ASSUME NEW S, NEW r \in Seq(S), NEW c \in S
    PROVE  /\ UsedIn(Append(r, c)) = UsedIn(r) \cup {c}
           /\ LastUseIn(Append(r, c), c) = Len(r) + 1
           /\ \A d \in UsedIn(r) \ {c} : LastUseIn(Append(r, c), d) = LastUseIn(r, d)
<1> DEFINE a == Append(r, c)
           n == Len(r)
<1>1. /\ n \in Nat /\ a \in Seq(S) /\ Len(a) = n + 1
      /\ \A k \in 1..n : a[k] = r[k]
      /\ a[n + 1] = c
  BY AppendProperties, LenProperties
<1> HIDE DEF a, n
<1>2. UsedIn(a) = UsedIn(r) \cup {c}
  <2>1. 1..Len(a) = (1..n) \cup {n + 1}
    BY <1>1
  <2>2. \A x : x \in UsedIn(a) <=> \E k \in (1..n) \cup {n + 1} : x = a[k]
    BY <2>1 DEF UsedIn
  <2>3. \A x : x \in UsedIn(r) <=> \E k \in 1..n : x = r[k]
    BY DEF UsedIn, n
  <2> QED
    BY <1>1, <2>2, <2>3
<1>3. IsLastUse(a, c, n + 1)
  BY <1>1 DEF IsLastUse
<1>4. ASSUME NEW d \in UsedIn(r) \ {c}
      PROVE  LastUseIn(a, d) = LastUseIn(r, d)
  <2>1. PICK l : l = LastUseIn(r, d)
    OBVIOUS
  <2>2. IsLastUse(r, d, l)
    BY <2>1, LastUseIs
  <2>3. l \in 1..n /\ r[l] = d /\ \A m \in l+1..n : r[m] # d
    BY <2>2 DEF IsLastUse, n
  <2>4. ASSUME NEW m \in l+1..n + 1
        PROVE  a[m] # d
    <3>1. m = n + 1 \/ m \in l+1..n
      BY <1>1, <2>3
    <3>2. l+1..n \subseteq 1..n
      BY <1>1, <2>3
    <3> QED
      BY <1>1, <2>3, <3>1, <3>2
  <2>5. l \in 1..n + 1 /\ a[l] = d
    BY <1>1, <2>3
  <2>6. IsLastUse(a, d, l)
    BY <1>1, <2>4, <2>5 DEF IsLastUse
  <2> QED
    BY <1>1, <2>1, <2>6, LastUseIsOne
<1>5. LastUseIn(a, c) = n + 1
  BY <1>1, <1>3, LastUseIsOne
<1> QED
  BY <1>2, <1>4, <1>5 DEF a, n

-----------------------------------------------------------------------------
(* The cache of the most recently used ids *)

\* What the cache is of a history: used ids, in the order of their last use; what is
\* not in it was last used before all of it; and nothing is missing from a cache
\* that is not full.
Recent(s, r) ==
    /\ s \in Seq(UsedIn(r)) /\ Len(s) <= DedupeCacheSize
    /\ \A j, k \in 1..Len(s) : j < k => LastUseIn(r, s[j]) < LastUseIn(r, s[k])
    /\ \A d \in UsedIn(r) :
           \/ \E k \in 1..Len(s) : s[k] = d
           \/ /\ Len(s) = DedupeCacheSize
              /\ \A k \in 1..Len(s) : LastUseIn(r, d) < LastUseIn(r, s[k])

\* remember_client_order moves the id of the p-th place to the end.
LEMMA MovedToEndIs ==
    ASSUME NEW S, NEW s \in Seq(S), NEW p \in 1..Len(s),
           \A k \in 1..Len(s) : s[k] = s[p] => k = p
    PROVE  /\ MovedToEnd(s, s[p]) \in Seq(S)
           /\ Len(MovedToEnd(s, s[p])) = Len(s)
           /\ \A k \in 1..Len(s) :
                  MovedToEnd(s, s[p])[k] = IF k < p THEN s[k]
                                           ELSE IF k < Len(s) THEN s[k + 1]
                                           ELSE s[p]
<1> DEFINE n == Len(s)
           front == SubSeq(s, 1, p - 1)
           back == SubSeq(s, p + 1, n)
           rest == front \o back
           moved == MovedToEnd(s, s[p])
<1>1. n \in Nat /\ \A k \in 1..n : s[k] \in S
  BY LenProperties, ElementOfSeq
<1>2. moved = Append(rest, s[p])
  <2>1. p = CHOOSE k \in 1..Len(s) : s[k] = s[p]
    OBVIOUS
  <2> QED
    BY <2>1 DEF MovedToEnd
<1>3. /\ front \in Seq(S) /\ Len(front) = p - 1
      /\ \A k \in 1..p-1 : front[k] = s[k]
  <2>1. p - 1 \in Nat /\ \A k \in 1..p-1 : s[k] \in S
    BY <1>1
  <2> QED
    BY <1>1, <2>1
<1>4. /\ back \in Seq(S) /\ Len(back) = n - p
      /\ \A k \in 1..n-p : back[k] = s[p + k]
  <2>1. n - p \in Nat /\ \A k \in p+1..n : s[k] \in S
    BY <1>1
  <2> QED
    BY <1>1, <2>1
<1> HIDE DEF front, back
<1>5. /\ rest \in Seq(S) /\ Len(rest) = n - 1
      /\ \A k \in 1..n-1 : rest[k] = IF k < p THEN s[k] ELSE s[k + 1]
  <2>1. /\ rest \in Seq(S) /\ Len(rest) = (p - 1) + (n - p)
        /\ \A k \in 1..(p - 1) + (n - p) :
               rest[k] = IF k <= p - 1 THEN front[k] ELSE back[k - (p - 1)]
    <3>1. /\ rest \in Seq(S) /\ Len(rest) = Len(front) + Len(back)
          /\ \A k \in 1..Len(front) + Len(back) :
                 rest[k] = IF k <= Len(front) THEN front[k] ELSE back[k - Len(front)]
      BY <1>3, <1>4, ConcatProperties
    <3>2. Len(front) = p - 1 /\ Len(back) = n - p
      BY <1>3, <1>4
    <3> QED
      BY <3>1, <3>2, Zenon
  <2>2. ASSUME NEW k \in 1..n-1
        PROVE  rest[k] = IF k < p THEN s[k] ELSE s[k + 1]
    <3>1. CASE k < p
      BY <1>1, <1>3, <2>1, <2>2, <3>1
    <3>2. CASE ~ (k < p)
      <4>1. k - (p - 1) \in 1..n-p /\ p + (k - (p - 1)) = k + 1
        BY <1>1, <3>2
      <4>2. rest[k] = back[k - (p - 1)]
        BY <1>1, <2>1, <3>2
      <4> QED
        BY <1>4, <3>2, <4>1, <4>2
    <3> QED
      BY <3>1, <3>2
  <2>3. (p - 1) + (n - p) = n - 1
    BY <1>1
  <2> QED
    BY <2>1, <2>2, <2>3
<1> HIDE DEF rest, n, moved
<1>6. s[p] \in S /\ p \in 1..n
  BY <1>1 DEF n
<1>7. /\ moved \in Seq(S) /\ Len(moved) = n
      /\ \A k \in 1..n-1 : moved[k] = rest[k]
      /\ moved[n] = s[p]
  <2>1. /\ Append(rest, s[p]) \in Seq(S) /\ Len(Append(rest, s[p])) = (n - 1) + 1
        /\ \A k \in 1..n-1 : Append(rest, s[p])[k] = rest[k]
        /\ Append(rest, s[p])[(n - 1) + 1] = s[p]
    BY <1>5, <1>6, AppendProperties
  <2>2. (n - 1) + 1 = n
    BY <1>1
  <2> QED
    BY <1>2, <2>1, <2>2
<1>8. ASSUME NEW k \in 1..n
      PROVE  moved[k] = IF k < p THEN s[k] ELSE IF k < n THEN s[k + 1] ELSE s[p]
  <2>1. CASE k = n
    BY <1>1, <1>6, <1>7, <2>1
  <2>2. CASE k # n
    <3>1. k \in 1..n-1 /\ k < n
      BY <1>1, <2>2
    <3> QED
      BY <1>5, <1>7, <3>1
  <2> QED
    BY <2>1, <2>2
<1> QED
  BY <1>7, <1>8 DEF moved, n

\* The cache after a use of c: c at its end, before it the ids of the places e[1],
\* e[2], ... of the old cache; what is dropped was before all that is kept.
UsesAfter(s, c, e, new, l) ==
    /\ l \in Nat \ {0} /\ l <= DedupeCacheSize /\ Len(new) = l
    /\ Len(s) = DedupeCacheSize => l = DedupeCacheSize
    /\ e \in [1..l-1 -> 1..Len(s)]
    /\ \A j, k \in 1..l-1 : j < k => e[j] < e[k]
    /\ \A k \in 1..l-1 : s[e[k]] # c /\ new[k] = s[e[k]]
    /\ \A q \in 1..Len(s) :
           \/ s[q] = c
           \/ \E k \in 1..l-1 : e[k] = q
           \/ l = DedupeCacheSize /\ \A k \in 1..l-1 : q < e[k]
    /\ new[l] = c

LEMMA RecentWith ==
    ASSUME NEW S, NEW r \in Seq(S), NEW c \in S, NEW s, Recent(s, r),
           NEW e, NEW new \in Seq(S), NEW l, UsesAfter(s, c, e, new, l)
    PROVE  Recent(new, Append(r, c))
<1> USE DEF UsesAfter
<1> DEFINE a == Append(r, c)
<1>1. /\ UsedIn(a) = UsedIn(r) \cup {c}
      /\ LastUseIn(a, c) = Len(r) + 1
      /\ \A d \in UsedIn(r) \ {c} : LastUseIn(a, d) = LastUseIn(r, d)
  BY LastUseAfter
<1>2. Len(r) \in Nat /\ \A d \in UsedIn(r) : LastUseIn(r, d) \in 1..Len(r)
  BY LenProperties, LastUseIs
<1>3. /\ s \in Seq(UsedIn(r)) /\ Len(s) \in Nat
      /\ \A k \in 1..Len(s) : s[k] \in UsedIn(r)
      /\ \A j, k \in 1..Len(s) : j < k => LastUseIn(r, s[j]) < LastUseIn(r, s[k])
  BY ElementOfSeq, LenProperties DEF Recent
<1> HIDE DEF a
<1>4. ASSUME NEW k \in 1..l-1
      PROVE  /\ new[k] = s[e[k]] /\ e[k] \in 1..Len(s)
             /\ new[k] \in UsedIn(r) \ {c}
             /\ LastUseIn(a, new[k]) = LastUseIn(r, s[e[k]])
  <2>1. new[k] = s[e[k]] /\ e[k] \in 1..Len(s) /\ s[e[k]] # c
    OBVIOUS
  <2>2. s[e[k]] \in UsedIn(r)
    BY <1>3, <2>1
  <2> QED
    BY <1>1, <2>1, <2>2
<1>5. \A k \in 1..l : k = l \/ k \in 1..l-1
  OBVIOUS
<1>6. new \in Seq(UsedIn(a))
  <2>1. \A k \in 1..l : new[k] \in UsedIn(a)
    BY <1>1, <1>4, <1>5
  <2>2. new \in [1..l -> S]
    BY LenProperties
  <2> QED
    BY <2>1, <2>2
<1>7. ASSUME NEW j \in 1..l, NEW k \in 1..l, j < k
      PROVE  LastUseIn(a, new[j]) < LastUseIn(a, new[k])
  <2>1. j \in 1..l-1
    BY <1>7
  <2>2. LastUseIn(a, new[j]) = LastUseIn(r, s[e[j]]) /\ LastUseIn(r, s[e[j]]) \in 1..Len(r)
    BY <1>2, <1>3, <1>4, <2>1
  <2>3. CASE k = l
    BY <1>1, <1>2, <2>2, <2>3
  <2>4. CASE k \in 1..l-1
    <3>1. e[j] < e[k]
      BY <1>7, <2>1, <2>4
    <3>2. e[j] \in 1..Len(s) /\ e[k] \in 1..Len(s)
      BY <1>4, <2>1, <2>4
    <3>3. LastUseIn(r, s[e[j]]) < LastUseIn(r, s[e[k]])
      BY <1>3, <3>1, <3>2
    <3>4. LastUseIn(a, new[k]) = LastUseIn(r, s[e[k]])
      BY <1>4, <2>4
    <3> QED
      BY <2>2, <3>3, <3>4
  <2> QED
    BY <1>5, <2>3, <2>4
<1>8. ASSUME NEW d \in UsedIn(a)
      PROVE  \/ \E k \in 1..l : new[k] = d
             \/ /\ l = DedupeCacheSize
                /\ \A k \in 1..l : LastUseIn(a, d) < LastUseIn(a, new[k])
  <2>1. CASE d = c
    BY <2>1
  <2>2. ASSUME d # c, l = DedupeCacheSize,
               \A k \in 1..l-1 : LastUseIn(r, d) < LastUseIn(r, s[e[k]])
        PROVE  \A k \in 1..l : LastUseIn(a, d) < LastUseIn(a, new[k])
    <3>1. LastUseIn(a, d) = LastUseIn(r, d) /\ LastUseIn(r, d) \in 1..Len(r)
      BY <1>1, <1>2, <1>8, <2>2
    <3>2. LastUseIn(a, d) < LastUseIn(a, new[l])
      BY <1>1, <1>2, <3>1
    <3>3. \A k \in 1..l-1 : LastUseIn(a, d) < LastUseIn(a, new[k])
      BY <1>4, <2>2, <3>1
    <3> QED
      BY <1>5, <3>2, <3>3
  <2>3. ASSUME NEW q \in 1..Len(s), d = s[q], d # c
        PROVE  \/ \E k \in 1..l : new[k] = d
               \/ /\ l = DedupeCacheSize
                  /\ \A k \in 1..l : LastUseIn(a, d) < LastUseIn(a, new[k])
    <3>1. CASE \E k \in 1..l-1 : e[k] = q
      <4>1. PICK k \in 1..l-1 : e[k] = q
        BY <3>1
      <4>2. new[k] = d /\ k \in 1..l
        BY <1>4, <2>3, <4>1
      <4> QED
        BY <4>2
    <3>2. CASE l = DedupeCacheSize /\ \A k \in 1..l-1 : q < e[k]
      <4>1. \A k \in 1..l-1 : LastUseIn(r, d) < LastUseIn(r, s[e[k]])
        BY <1>3, <2>3, <3>2
      <4> QED
        BY <2>2, <2>3, <3>2, <4>1
    <3> QED
      BY <2>3, <3>1, <3>2
  <2>4. ASSUME d # c, ~ \E q \in 1..Len(s) : s[q] = d
        PROVE  /\ l = DedupeCacheSize
               /\ \A k \in 1..l : LastUseIn(a, d) < LastUseIn(a, new[k])
    <3>1. d \in UsedIn(r)
      BY <1>1, <1>8, <2>4
    <3>2. Len(s) = DedupeCacheSize /\ \A k \in 1..Len(s) : LastUseIn(r, d) < LastUseIn(r, s[k])
      BY <2>4, <3>1 DEF Recent
    <3>3. l = DedupeCacheSize /\ \A k \in 1..l-1 : LastUseIn(r, d) < LastUseIn(r, s[e[k]])
      BY <3>2
    <3> QED
      BY <2>2, <2>4, <3>3
  <2> QED
    BY <2>1, <2>3, <2>4
<1> QED
  BY <1>6, <1>7, <1>8 DEF Recent, a

LEMMA RecentIs ==
    ASSUME NEW S, NEW r \in Seq(S), NEW s, Recent(s, r)
    PROVE  /\ s \in Seq(S) /\ Len(s) \in Nat /\ Len(s) <= DedupeCacheSize
           /\ \A k \in 1..Len(s) : s[k] \in UsedIn(r)
           /\ \A j, k \in 1..Len(s) : s[j] = s[k] => j = k
<1>1. s \in Seq(UsedIn(r)) /\ Len(s) \in Nat /\ Len(s) <= DedupeCacheSize
  BY LenProperties DEF Recent
<1>2. \A k \in 1..Len(s) : s[k] \in UsedIn(r)
  BY <1>1, ElementOfSeq
<1>3. \A k \in 1..Len(r) : r[k] \in S
  BY ElementOfSeq
<1>4. \A k \in 1..Len(s) : s[k] \in S
  BY <1>2, <1>3 DEF UsedIn
<1>5. s \in Seq(S)
  <2>1. s \in [1..Len(s) -> UsedIn(r)]
    BY <1>1, LenProperties
  <2> QED
    BY <1>1, <1>4, <2>1
<1>6. ASSUME NEW j \in 1..Len(s), NEW k \in 1..Len(s), s[j] = s[k]
      PROVE  j = k
  <2>1. LastUseIn(r, s[j]) \in Nat
    <3>1. LastUseIn(r, s[j]) \in 1..Len(r)
      BY <1>2, LastUseIs
    <3>2. Len(r) \in Nat
      BY LenProperties
    <3> QED
      BY <3>1, <3>2
  <2>2. ~ (LastUseIn(r, s[j]) < LastUseIn(r, s[k])) /\ ~ (LastUseIn(r, s[k]) < LastUseIn(r, s[j]))
    BY <1>6, <2>1
  <2>3. ~ (j < k) /\ ~ (k < j)
    BY <2>2 DEF Recent
  <2> QED
    BY <1>1, <2>3
<1> QED
  BY <1>1, <1>2, <1>5, <1>6

\* The id was in the cache already.
LEMMA RecentAfterReuse ==
    ASSUME NEW S, NEW r \in Seq(S), NEW s, Recent(s, r), NEW p \in 1..Len(s)
    PROVE  /\ Recent(MovedToEnd(s, s[p]), Append(r, s[p]))
           /\ Len(MovedToEnd(s, s[p])) <= DedupeCacheSize
<1> DEFINE l == Len(s)
           c == s[p]
           new == MovedToEnd(s, s[p])
           e == [k \in 1..l-1 |-> IF k < p THEN k ELSE k + 1]
<1>1. /\ s \in Seq(S) /\ l \in Nat /\ l <= DedupeCacheSize
      /\ \A j, k \in 1..l : s[j] = s[k] => j = k
  BY RecentIs
<1>2. /\ new \in Seq(S) /\ Len(new) = l
      /\ \A k \in 1..l : new[k] = IF k < p THEN s[k]
                                  ELSE IF k < l THEN s[k + 1] ELSE s[p]
  BY <1>1, MovedToEndIs
<1>3. c \in S
  BY <1>1, ElementOfSeq
<1>4. l \in Nat \ {0} /\ p \in 1..l
  BY <1>1
<1> HIDE DEF l, new
<1>5. e \in [1..l-1 -> 1..l] /\ \A j, k \in 1..l-1 : j < k => e[j] < e[k]
  BY <1>4
<1>6. \A k \in 1..l-1 : e[k] # p /\ new[k] = s[e[k]]
  <2>1. \A k \in 1..l-1 : k \in 1..l /\ k < l
    BY <1>4
  <2> QED
    BY <1>2, <1>4, <2>1
<1>7. \A q \in 1..l : q = p \/ \E k \in 1..l-1 : e[k] = q
  <2> SUFFICES ASSUME NEW q \in 1..l, q # p
               PROVE  \E k \in 1..l-1 : e[k] = q
    OBVIOUS
  <2>1. CASE q < p
    <3>1. q \in 1..l-1 /\ e[q] = q
      BY <1>4, <2>1
    <3> QED
      BY <3>1
  <2>2. CASE ~ (q < p)
    <3>1. q - 1 \in 1..l-1 /\ e[q - 1] = q
      BY <1>4, <2>2
    <3> QED
      BY <3>1
  <2> QED
    BY <2>1, <2>2
<1>8. new[l] = c
  BY <1>2, <1>4
<1> HIDE DEF e
<1>9. \A k \in 1..l-1 : s[e[k]] # c
  BY <1>1, <1>4, <1>5, <1>6
<1>10. \A q \in 1..l : s[q] = c \/ \E k \in 1..l-1 : e[k] = q
  BY <1>7
<1> HIDE DEF c
<1>11. Recent(new, Append(r, c))
  <2>1. UsesAfter(s, c, e, new, l)
    BY <1>1, <1>2, <1>4, <1>5, <1>6, <1>8, <1>9, <1>10 DEF l, UsesAfter
  <2> QED
    BY <1>2, <1>3, <2>1, RecentWith
<1> QED
  BY <1>1, <1>2, <1>11 DEF new, c

\* It was not, and there is room for it, or there is none.
LEMMA RecentAfterNew ==
    ASSUME NEW S, NEW r \in Seq(S), NEW s, Recent(s, r), NEW c \in S,
           \A k \in 1..Len(s) : s[k] # c
    PROVE  Recent(IF Len(Append(s, c)) > DedupeCacheSize THEN Tail(Append(s, c)) ELSE Append(s, c),
                  Append(r, c))
<1> DEFINE m == Len(s)
           all == Append(s, c)
<1>1. s \in Seq(S) /\ m \in Nat /\ m <= DedupeCacheSize /\ DedupeCacheSize \in Nat \ {0}
  BY RecentIs, DedupeAssumption
<1>2. /\ all \in Seq(S) /\ all # << >> /\ Len(all) = m + 1 /\ all[m + 1] = c
      /\ \A k \in 1..m : all[k] = s[k]
  BY <1>1, AppendProperties
<1> HIDE DEF m, all
<1>3. CASE m + 1 > DedupeCacheSize
  <2> DEFINE e == [k \in 1..m-1 |-> k + 1]
             new == Tail(all)
  <2>1. m = DedupeCacheSize
    BY <1>1, <1>3
  <2>2. new \in Seq(S) /\ Len(new) = m /\ \A k \in 1..m : new[k] = all[k + 1]
    <3>1. /\ new \in Seq(S) /\ Len(new) = Len(all) - 1
          /\ \A k \in 1..Len(new) : new[k] = all[k + 1]
      BY <1>2, HeadTailProperties
    <3>2. Len(new) = m
      BY <1>1, <1>2, <3>1
    <3> QED
      BY <3>1, <3>2
  <2> HIDE DEF new
  <2>3. e \in [1..m-1 -> 1..m] /\ \A j, k \in 1..m-1 : j < k => e[j] < e[k]
    BY <1>1
  <2>4. new[m] = c
    BY <1>1, <1>2, <2>1, <2>2
  <2>5. \A k \in 1..m-1 : new[k] = s[e[k]]
    <3>1. \A k \in 1..m-1 : k \in 1..m /\ k + 1 \in 1..m /\ e[k] = k + 1
      BY <1>1
    <3> QED
      BY <1>2, <2>2, <3>1
  <2>6. ASSUME NEW q \in 1..m
        PROVE  (\E k \in 1..m-1 : e[k] = q) \/ \A k \in 1..m-1 : q < e[k]
    <3>1. CASE q = 1
      BY <1>1, <3>1
    <3>2. CASE q # 1
      <4>1. q - 1 \in 1..m-1 /\ e[q - 1] = q
        BY <1>1, <3>2
      <4> QED
        BY <4>1
    <3> QED
      BY <3>1, <3>2
  <2>8. \A k \in 1..m-1 : s[e[k]] # c
    BY <2>3 DEF m
  <2> HIDE DEF e
  <2>7. Recent(new, Append(r, c))
    <3>1. UsesAfter(s, c, e, new, m)
      BY <1>1, <2>1, <2>2, <2>3, <2>4, <2>5, <2>6, <2>8 DEF m, UsesAfter
    <3> QED
      BY <2>2, <3>1, RecentWith
  <2> QED
    BY <1>2, <1>3, <2>7 DEF new, all
<1>4. CASE ~ (m + 1 > DedupeCacheSize)
  <2> DEFINE e == [k \in 1..(m+1)-1 |-> k]
             l == m + 1
  <2>1. l \in Nat \ {0} /\ l <= DedupeCacheSize /\ l - 1 = m /\ m # DedupeCacheSize
    BY <1>1, <1>4
  <2>2. e \in [1..l-1 -> 1..m] /\ \A j, k \in 1..l-1 : j < k => e[j] < e[k]
    BY <2>1
  <2>3. \A k \in 1..l-1 : all[k] = s[e[k]] /\ s[e[k]] # c
    BY <1>2, <2>1 DEF m
  <2>4. \A q \in 1..m : \E k \in 1..l-1 : e[k] = q
    BY <2>1
  <2>5. all[l] = c /\ Len(all) = l
    BY <1>2
  <2> HIDE DEF e, l
  <2>6. Recent(all, Append(r, c))
    <3>1. UsesAfter(s, c, e, all, l)
      BY <1>2, <2>1, <2>2, <2>3, <2>4, <2>5 DEF m, UsesAfter
    <3> QED
      BY <1>2, <3>1, RecentWith
  <2> QED
    BY <1>2, <1>4, <2>6 DEF all
<1> QED
  BY <1>3, <1>4

LEMMA RecentAfterUse ==
    ASSUME NEW S, NEW r \in Seq(S), NEW s, Recent(s, r), NEW c \in S
    PROVE  Recent(IF Len(MovedToEnd(s, c)) > DedupeCacheSize
                    THEN Tail(MovedToEnd(s, c)) ELSE MovedToEnd(s, c),
                  Append(r, c))
<1>1. CASE \E k \in 1..Len(s) : s[k] = c
  <2>1. PICK p \in 1..Len(s) : s[p] = c
    BY <1>1
  <2>2. Recent(MovedToEnd(s, c), Append(r, c)) /\ Len(MovedToEnd(s, c)) <= DedupeCacheSize
    BY <2>1, RecentAfterReuse
  <2>3. Len(MovedToEnd(s, c)) \in Nat
    BY <2>2, LenProperties DEF Recent
  <2>4. ~ (Len(MovedToEnd(s, c)) > DedupeCacheSize)
    BY <2>2, <2>3, DedupeAssumption
  <2> QED
    BY <2>2, <2>4
<1>2. CASE \A k \in 1..Len(s) : s[k] # c
  <2>1. MovedToEnd(s, c) = Append(s, c)
    BY <1>2 DEF MovedToEnd
  <2> QED
    BY <1>2, <2>1, RecentAfterNew
<1> QED
  BY <1>1, <1>2

\* What was used after the k-th id of the cache is what stands behind it.
LEMMA RecentIsMostRecent ==
    ASSUME NEW S, NEW r \in Seq(S), NEW s, Recent(s, r)
    PROVE  \A c \in UsedIn(r) :
               LET Later == {d \in UsedIn(r) : LastUseIn(r, d) > LastUseIn(r, c)}
               IN  (\E k \in 1..Len(s) : s[k] = c) <=> Cardinality(Later) < DedupeCacheSize
<1>1. /\ Len(s) \in Nat /\ Len(s) <= DedupeCacheSize /\ DedupeCacheSize \in Nat
      /\ \A k \in 1..Len(s) : s[k] \in UsedIn(r)
      /\ \A j, k \in 1..Len(s) : s[j] = s[k] => j = k
  BY RecentIs, DedupeAssumption
<1>2. \A d \in UsedIn(r) : LastUseIn(r, d) \in Int
  <2>1. Len(r) \in Nat /\ \A d \in UsedIn(r) : LastUseIn(r, d) \in 1..Len(r)
    BY LenProperties, LastUseIs
  <2> QED
    BY <2>1
<1> SUFFICES ASSUME NEW c \in UsedIn(r)
             PROVE  LET Later == {d \in UsedIn(r) : LastUseIn(r, d) > LastUseIn(r, c)}
                    IN  (\E k \in 1..Len(s) : s[k] = c) <=> Cardinality(Later) < DedupeCacheSize
  OBVIOUS
<1> DEFINE Later == {d \in UsedIn(r) : LastUseIn(r, d) > LastUseIn(r, c)}
<1>3. ASSUME NEW k \in 1..Len(s), s[k] = c
      PROVE  Cardinality(Later) < DedupeCacheSize
  <2> DEFINE f == [j \in k+1..Len(s) |-> s[j]]
  <2>1. ASSUME NEW j \in k+1..Len(s)
        PROVE  s[j] \in Later
    <3>1. j \in 1..Len(s) /\ k < j
      BY <1>1
    <3>2. LastUseIn(r, s[k]) < LastUseIn(r, s[j])
      BY <3>1 DEF Recent
    <3>3. LastUseIn(r, s[j]) > LastUseIn(r, c)
      BY <1>1, <1>2, <1>3, <3>1, <3>2
    <3> QED
      BY <1>1, <3>1, <3>3
  <2>2. ASSUME NEW d \in Later
        PROVE  \E j \in k+1..Len(s) : s[j] = d
    <3>1. d \in UsedIn(r) /\ ~ (LastUseIn(r, d) < LastUseIn(r, s[k])) /\ d # s[k]
      BY <1>2, <1>3
    <3>2. PICK j \in 1..Len(s) : s[j] = d
      BY <3>1 DEF Recent
    <3>3. ~ (j < k) /\ j # k
      <4>1. j < k => LastUseIn(r, s[j]) < LastUseIn(r, s[k])
        BY DEF Recent
      <4> QED
        BY <3>1, <3>2, <4>1
    <3>4. j \in k+1..Len(s)
      BY <1>1, <3>3
    <3> QED
      BY <3>2, <3>4
  <2> HIDE DEF Later
  <2>3. f \in Surjection(k+1..Len(s), Later)
    BY <2>1, <2>2 DEF Surjection
  <2>4. IsFiniteSet(k+1..Len(s)) /\ Cardinality(k+1..Len(s)) = Len(s) - k
    <3>1. k + 1 \in Int /\ Len(s) \in Int /\ Len(s) - (k + 1) + 1 = Len(s) - k
          /\ (k + 1 > Len(s) => Len(s) - k = 0)
      BY <1>1
    <3> QED
      BY <3>1, FS_Interval
  <2>5. IsFiniteSet(Later) /\ Cardinality(Later) <= Len(s) - k
    BY <2>3, <2>4, FS_Surjection
  <2>6. Cardinality(Later) \in Nat
    BY <2>5, FS_CardinalityType
  <2> QED
    BY <1>1, <2>5, <2>6
<1>4. ASSUME \A k \in 1..Len(s) : s[k] # c
      PROVE  ~ (Cardinality(Later) < DedupeCacheSize)
  <2> DEFINE g == [k \in 1..Len(s) |-> s[k]]
  <2>1. Len(s) = DedupeCacheSize /\ \A k \in 1..Len(s) : LastUseIn(r, c) < LastUseIn(r, s[k])
    BY <1>4 DEF Recent
  <2>2. \A k \in 1..Len(s) : s[k] \in Later
    BY <1>1, <1>2, <2>1
  <2>3. IsFiniteSet(Later)
    <3> DEFINE h == [k \in 1..Len(r) |-> r[k]]
    <3>1. h \in Surjection(1..Len(r), UsedIn(r))
      BY DEF Surjection, UsedIn
    <3>2. IsFiniteSet(1..Len(r))
      <4>1. Len(r) \in Int /\ 1 \in Int
        BY LenProperties
      <4> QED
        BY <4>1, FS_Interval
    <3>3. IsFiniteSet(UsedIn(r))
      BY <3>1, <3>2, FS_Surjection
    <3>4. Later \in SUBSET UsedIn(r)
      OBVIOUS
    <3> QED
      BY <3>3, <3>4, FS_Subset
  <2> HIDE DEF Later
  <2>4. g \in Injection(1..Len(s), Later)
    <3>1. g \in [1..Len(s) -> Later]
      BY <2>2
    <3>2. IsInjective(g)
      BY <1>1 DEF IsInjective
    <3> QED
      BY <3>1, <3>2 DEF Injection
  <2>5. Cardinality(1..Len(s)) <= Cardinality(Later) /\ Cardinality(Later) \in Nat
    BY <2>3, <2>4, FS_Injection, FS_CardinalityType
  <2>6. Cardinality(1..Len(s)) = Len(s)
    <3>1. 1 \in Int /\ Len(s) \in Int /\ Len(s) - 1 + 1 = Len(s) /\ (1 > Len(s) => Len(s) = 0)
      BY <1>1
    <3> QED
      BY <3>1, FS_Interval
  <2> QED
    BY <1>1, <2>1, <2>5, <2>6
<1> QED
  BY <1>3, <1>4

-----------------------------------------------------------------------------

RecentInv == remembered \in Seq(ClientOrders) /\ Recent(seen, remembered)

LEMMA RecentStep ==
    ASSUME RecentInv, [MCStoreNext]_<<storeVars, remembered>>
    PROVE  RecentInv'
<1>1. ASSUME NEW t \in Tables, NEW c \in ClientOrders,
             StoreAccept(t, c), remembered' = Append(remembered, c)
      PROVE  RecentInv'
  <2>1. seen' = IF Len(MovedToEnd(seen, c)) > DedupeCacheSize
                  THEN Tail(MovedToEnd(seen, c)) ELSE MovedToEnd(seen, c)
    BY <1>1 DEF StoreAccept, RememberClientOrder
  <2>2. Recent(seen', remembered')
    BY <1>1, <2>1, RecentAfterUse DEF RecentInv
  <2>3. remembered' \in Seq(ClientOrders)
    BY <1>1, AppendProperties DEF RecentInv
  <2> QED
    BY <2>2, <2>3 DEF RecentInv, Recent
<1>2. CASE StoreReset /\ remembered' = << >>
  <2>1. seen' = << >> /\ remembered' = << >>
    BY <1>2 DEF StoreReset, Reset
  <2>2. Recent(<< >>, << >>)
    BY DedupeAssumption DEF Recent, UsedIn
  <2> QED
    BY <2>1, <2>2 DEF RecentInv, Recent
<1>3. ASSUME UNCHANGED <<seen, remembered>>
      PROVE  RecentInv'
  BY <1>3 DEF RecentInv, Recent
<1>4. CASE /\ \E t \in Tables, i \in 1..placed, s \in OrderStatus \ {"COOKING"} :
                  StoreFinish(t, i, s)
           /\ UNCHANGED remembered
  BY <1>3, <1>4 DEF StoreFinish
<1>5. CASE UNCHANGED <<storeVars, remembered>>
  BY <1>3, <1>5 DEF storeVars
<1> QED
  BY <1>1, <1>2, <1>4, <1>5 DEF MCStoreNext

\* However orders come and whatever was forgotten before: the cache holds the ids
\* that are the DedupeCacheSize most recently used ones of the generation, and
\* holds them in the order of their last use (store.py:113-117).
THEOREM CacheIsMostRecent == MCStoreSpec => []SeenIsMostRecent
<1>1. MCStoreInit => RecentInv
  <2> SUFFICES ASSUME MCStoreInit
               PROVE  RecentInv
    OBVIOUS
  <2>1. seen = << >> /\ remembered = << >>
    BY DEF MCStoreInit, StoreInit
  <2> QED
    BY <2>1, DedupeAssumption DEF RecentInv, Recent, UsedIn
<1>2. RecentInv /\ [MCStoreNext]_<<storeVars, remembered>> => RecentInv'
  BY RecentStep
<1>3. ASSUME RecentInv
      PROVE  SeenIsMostRecent
  <2>1. Used = UsedIn(remembered) /\ \A c : LastUse(c) = LastUseIn(remembered, c)
    BY HistoryOperators
  <2>2. /\ \A k \in 1..Len(seen) : seen[k] \in Used
        /\ \A j, k \in 1..Len(seen) : j < k => LastUse(seen[j]) < LastUse(seen[k])
    BY <1>3, <2>1, RecentIs DEF RecentInv, Recent
  <2>3. ASSUME NEW c \in Used
        PROVE  (\E k \in 1..Len(seen) : seen[k] = c) <=>
                   Cardinality({d \in Used : LastUse(d) > LastUse(c)}) < DedupeCacheSize
    <3>1. {d \in Used : LastUse(d) > LastUse(c)} =
              {d \in UsedIn(remembered) :
                   LastUseIn(remembered, d) > LastUseIn(remembered, c)}
      BY <2>1
    <3> QED
      BY <1>3, <2>1, <3>1, RecentIsMostRecent DEF RecentInv
  <2> QED
    BY <2>2, <2>3 DEF SeenIsMostRecent
<1> QED
  BY <1>1, <1>2, <1>3, PTL DEF MCStoreSpec
=============================================================================
