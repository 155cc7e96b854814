--------------------------- MODULE KitchenProofs ---------------------------
(***************************************************************************)
(* Theorems about Kitchen, for every value of its constants: that it uses  *)
(* the store as Store specifies, its types, its capacity limits, and that  *)
(* every cooking order has exactly the task that will serve it.            *)
(***************************************************************************)
EXTENDS MCKitchen, StoreProofs

-----------------------------------------------------------------------------
(* The kitchen as a user of the store *)

LEMMA InitIsStoreInit == Init => StoreInit
  BY DEF Init

\* What a step of the kitchen can do to the store.
LEMMA StoreSteps ==
    ASSUME [Next]_vars
    PROVE  \/ \E t \in Tables, c \in ClientOrders : Accept(t, c)
           \/ \E t \in Tables, i \in DOMAIN cooks : StoreFinish(t, i, "SERVED")
           \/ WipeAndRepublish
           \/ UNCHANGED storeVars
<1>1. ASSUME NEW i \in DOMAIN cooks, Serve(i)
      PROVE  \/ \E t \in Tables : StoreFinish(t, i, "SERVED")
             \/ UNCHANGED storeVars
  BY <1>1 DEF Serve
<1>2. HandleReset \/ Shutdown \/ Cancelled => WipeAndRepublish \/ UNCHANGED storeVars
  BY DEF HandleReset, Shutdown, Cancelled, CancelThen, GoOffline
<1>3. /\ \A t, c : Refuse(t, c) => UNCHANGED storeVars
      /\ \A i : CookEnds(i) => UNCHANGED storeVars
      /\ AnnounceOnline \/ Spawn \/ RefusalSent \/ Closed \/ PublishNext
           \/ BatchPublished \/ Greeted \/ PublishFails \/ LinkChanges
         => UNCHANGED storeVars
      /\ UNCHANGED vars => UNCHANGED storeVars
  BY DEF Refuse, CookEnds, AnnounceOnline, Spawn, RefusalSent, Closed, PublishNext,
         BatchPublished, Greeted, PublishFails, LinkChanges, vars
<1> QED
  BY <1>1, <1>2, <1>3 DEF Next, Steps, HandleMessage, Resume, CookStep

\* Each of them is a step of the store.
LEMMA StepIsStoreStep ==
    ASSUME StoreTypeOK, [Next]_vars
    PROVE  [StoreNext]_storeVars
<1>1. ASSUME NEW t \in Tables, NEW c \in ClientOrders, Accept(t, c)
      PROVE  StoreNext
  BY <1>1 DEF Accept, StoreNext
<1>2. ASSUME NEW t \in Tables, NEW i, StoreFinish(t, i, "SERVED")
      PROVE  StoreNext
  <2>1. orders[t] \in Histories /\ i \in DOMAIN orders[t]
    BY <1>2 DEF StoreTypeOK, StoreFinish, FinishOrder, IsCooking, Cooking
  <2>2. i \in 1..placed
    BY <2>1, HistoryIs
  <2>3. "SERVED" \in OrderStatus \ {"COOKING"}
    BY DEF OrderStatus
  <2> QED
    BY <1>2, <2>2, <2>3 DEF StoreNext
<1>3. WipeAndRepublish => StoreNext
  BY DEF WipeAndRepublish, StoreNext
<1> QED
  BY <1>1, <1>2, <1>3, StoreSteps

\* The store keeps its types under the kitchen (store.py as kitchen.py calls it).
THEOREM StoreTypeInKitchen == Spec => []StoreTypeOK
<1>1. StoreTypeOK /\ [Next]_vars => StoreTypeOK'
  BY StepIsStoreStep, StoreNextTyped
<1> QED
  BY <1>1, InitIsStoreInit, StoreInitTyped, PTL DEF Spec

\* The kitchen implements the store's specification, so that what is proved of
\* the store holds of it.
THEOREM KitchenImplementsStore == Spec => StoreSpec
<1>1. StoreTypeOK /\ [Next]_vars => [StoreNext]_storeVars
  BY StepIsStoreStep
<1> QED
  BY <1>1, InitIsStoreInit, StoreTypeInKitchen, PTL DEF Spec, StoreSpec

\* In particular the published history of a table stays bounded.
THEOREM PublishedHistoryBounded == Spec => []HistoryBounded
  BY KitchenImplementsStore, HistoryStaysBounded, PTL

-----------------------------------------------------------------------------
(* What the steps do to the cooking orders *)

\* A new order cooks, and nothing else changes about what cooks.
LEMMA CookingAfterAdd ==
    ASSUME StoreTypeOK, NEW t \in Tables, AddOrder(t)
    PROVE  /\ Cooking(orders'[t]) = Cooking(orders[t]) \cup {placed + 1}
           /\ \A u \in Tables \ {t} : orders'[u] = orders[u]
<1> DEFINE w == WithOrder(orders[t], placed + 1, "COOKING")
<1>1. orders' = [orders EXCEPT ![t] = Trimmed(w)] /\ t \in DOMAIN orders
  BY DEF AddOrder, StoreTypeOK
<1>2. Cooking(w) = Cooking(orders[t]) \cup {placed + 1}
  BY DEF WithOrder, Cooking
<1>3. Cooking(Trimmed(w)) = Cooking(w)
  BY TrimmedIs
<1> HIDE DEF w
<1> QED
  BY <1>1, <1>2, <1>3 DEF StoreTypeOK

\* An order that finishes stops cooking, and nothing else changes either.
LEMMA CookingAfterFinish ==
    ASSUME StoreTypeOK, NEW t \in Tables, NEW i, FinishOrder(t, i, "SERVED")
    PROVE  /\ Cooking(orders'[t]) = Cooking(orders[t]) \ {i}
           /\ \A u \in Tables \ {t} : orders'[u] = orders[u]
<1> DEFINE w == WithOrder(orders[t], i, "SERVED")
<1>1. orders' = [orders EXCEPT ![t] = Trimmed(w)] /\ t \in DOMAIN orders
  BY DEF FinishOrder, StoreTypeOK
<1>2. Cooking(w) = Cooking(orders[t]) \ {i}
  BY DEF WithOrder, Cooking, FinishOrder, IsCooking
<1>3. Cooking(Trimmed(w)) = Cooking(w)
  BY TrimmedIs
<1> HIDE DEF w
<1> QED
  BY <1>1, <1>2, <1>3 DEF StoreTypeOK

\* After a reset nothing cooks.
LEMMA CookingAfterReset ==
    ASSUME Reset, NEW t \in Tables
    PROVE  Cooking(orders'[t]) = {}
  BY DEF Reset, NoOrders, Cooking

LEMMA CookingIsFinite ==
    ASSUME StoreTypeOK
    PROVE  /\ \A t \in Tables : /\ IsFiniteSet(Cooking(orders[t]))
                                /\ Cooking(orders[t]) \subseteq 1..placed
           /\ IsFiniteSet(AllCooking)
<1>0. placed \in Nat
  BY BoundsAssumption DEF StoreTypeOK
<1>1. ASSUME NEW t \in Tables
      PROVE  IsFiniteSet(Cooking(orders[t])) /\ Cooking(orders[t]) \subseteq 1..placed
  <2>1. orders[t] \in Histories
    BY DEF StoreTypeOK
  <2>2. IsFiniteSet(DOMAIN orders[t]) /\ DOMAIN orders[t] \subseteq 1..placed
    BY <1>0, <2>1, HistoryIsFinite, HistoryIs
  <2> QED
    BY <2>2, FS_Subset DEF Cooking
<1>2. IsFiniteSet(Tables \X (1..placed))
  <2>1. IsFiniteSet(1..placed)
    BY <1>0, FS_Interval
  <2> QED
    BY <2>1, FS_Product, TablesAssumption
<1>3. AllCooking \subseteq Tables \X (1..placed)
  BY <1>1 DEF AllCooking
<1> QED
  BY <1>1, <1>2, <1>3, FS_Subset

-----------------------------------------------------------------------------
(* Capacity *)

\* A step of the kitchen takes no table and no kitchen over its limit: only an
\* accepted order adds a cooking dish, and it was checked against both.
LEMMA CapacityStep ==
    ASSUME StoreTypeOK, CapacityRespected, [Next]_vars
    PROVE  CapacityRespected'
<1> USE CapacityAssumption
<1>0. /\ placed \in Nat
      /\ IsFiniteSet(AllCooking) /\ Cardinality(AllCooking) \in Nat
      /\ \A t \in Tables : /\ IsFiniteSet(Cooking(orders[t]))
                           /\ Cardinality(Cooking(orders[t])) \in Nat
  BY CookingIsFinite, FS_CardinalityType, BoundsAssumption DEF StoreTypeOK
\* Steps that start no dish at all.
<1>a. ASSUME \A t \in Tables : Cooking(orders'[t]) \subseteq Cooking(orders[t])
      PROVE  CapacityRespected'
  <2>1. AllCooking' \subseteq AllCooking
    BY <1>a DEF AllCooking
  <2>2. Cardinality(AllCooking') <= Cardinality(AllCooking) /\ Cardinality(AllCooking') \in Nat
    BY <1>0, <2>1, FS_Subset, FS_CardinalityType
  <2>3. ASSUME NEW t \in Tables
        PROVE  CookingCount(t)' <= MaxOrdersPerTable
    <3>1. /\ Cardinality(Cooking(orders'[t])) <= Cardinality(Cooking(orders[t]))
          /\ Cardinality(Cooking(orders'[t])) \in Nat
      BY <1>0, <1>a, FS_Subset, FS_CardinalityType
    <3> QED
      BY <1>0, <3>1 DEF CapacityRespected, CookingCount
  <2> QED
    BY <1>0, <2>2, <2>3 DEF CapacityRespected, TotalCookingCount
<1>1. ASSUME NEW t \in Tables, NEW c \in ClientOrders, Accept(t, c)
      PROVE  CapacityRespected'
  <2>1. /\ Cooking(orders'[t]) = Cooking(orders[t]) \cup {placed + 1}
        /\ \A u \in Tables \ {t} : orders'[u] = orders[u]
    BY <1>1, CookingAfterAdd DEF Accept, StoreAccept
  <2>2. AllCooking' = AllCooking \cup {<<t, placed + 1>>}
    BY <2>1 DEF AllCooking
  <2>3. Cardinality(AllCooking') <= Cardinality(AllCooking) + 1
        /\ Cardinality(AllCooking') \in Nat
    <3>1. /\ IsFiniteSet(AllCooking \cup {<<t, placed + 1>>})
          /\ Cardinality(AllCooking \cup {<<t, placed + 1>>}) =
                IF <<t, placed + 1>> \in AllCooking THEN Cardinality(AllCooking)
                ELSE Cardinality(AllCooking) + 1
      BY <1>0, FS_AddElement
    <3> QED
      BY <1>0, <2>2, <3>1
  <2>4. TotalCookingCount' <= MaxOrdersGlobal
    BY <1>0, <1>1, <2>3 DEF Accept, GlobalRoom, TotalCookingCount
  <2>5. CookingCount(t)' <= MaxOrdersPerTable
    <3>1. /\ IsFiniteSet(Cooking(orders[t]) \cup {placed + 1})
          /\ Cardinality(Cooking(orders[t]) \cup {placed + 1}) =
                IF placed + 1 \in Cooking(orders[t]) THEN Cardinality(Cooking(orders[t]))
                ELSE Cardinality(Cooking(orders[t])) + 1
      BY <1>0, FS_AddElement
    <3> QED
      BY <1>0, <1>1, <2>1, <3>1 DEF Accept, TableRoom, CookingCount
  <2>6. \A u \in Tables \ {t} : CookingCount(u)' <= MaxOrdersPerTable
    BY <2>1 DEF CapacityRespected, CookingCount
  <2> QED
    BY <2>4, <2>5, <2>6 DEF CapacityRespected
<1>2. ASSUME NEW t \in Tables, NEW i, StoreFinish(t, i, "SERVED")
      PROVE  CapacityRespected'
  BY <1>a, <1>2, CookingAfterFinish DEF StoreFinish
<1>3. ASSUME WipeAndRepublish
      PROVE  CapacityRespected'
  BY <1>a, <1>3, CookingAfterReset DEF WipeAndRepublish, StoreReset
<1>4. CASE UNCHANGED storeVars
  BY <1>a, <1>4 DEF storeVars
<1> QED
  BY <1>1, <1>2, <1>3, <1>4, StoreSteps

\* No interleaving of orders, finishing dishes and resets takes a table or the
\* kitchen over its limit.
THEOREM CapacityIsRespected == Spec => []CapacityRespected
<1>1. Init => CapacityRespected
  <2> SUFFICES ASSUME Init
               PROVE  CapacityRespected
    OBVIOUS
  <2>1. \A t \in Tables : Cooking(orders[t]) = {}
    BY DEF Init, StoreInit, NoOrders, Cooking
  <2>2. AllCooking = {}
    BY <2>1 DEF AllCooking
  <2> QED
    BY <2>1, <2>2, FS_EmptySet, CapacityAssumption
       DEF CapacityRespected, TotalCookingCount, CookingCount
<1>2. StoreTypeOK /\ CapacityRespected /\ [Next]_vars => CapacityRespected'
  BY CapacityStep
<1> QED
  BY <1>1, <1>2, StoreTypeInKitchen, PTL DEF Spec

-----------------------------------------------------------------------------
(* Type correctness of the kitchen *)

LEMMA FirstIsMember ==
    ASSUME NEW S \in SUBSET Tables, S # {}
    PROVE  First(S) \in S
<1>1. S \in SUBSET Nat
  BY TablesAssumption
<1>2. \E t \in S : \A u \in S : t <= u
  BY <1>1, LeastElement
<1> QED
  BY <1>2 DEF First

\* What is published is a state of a table.
LEMMA SnapshotTyped ==
    ASSUME StoreTypeOK
    PROVE  AllSnapshots \in [Tables -> Snapshots]
  BY DEF StoreTypeOK, Snapshot, AllSnapshots, Snapshots

\* Ids are only ever added, so what was well typed stays so.
LEMMA TypesGrow ==
    ASSUME placed \in Nat, placed' \in Nat, placed <= placed'
    PROVE  /\ 1..placed \subseteq 1..placed'
           /\ Snapshots \subseteq Snapshots'
           /\ MainStates \subseteq MainStates'
<1>1. 1..placed \subseteq 1..placed'
  OBVIOUS
<1>2. Histories \subseteq Histories'
  BY <1>1 DEF Histories
<1>3. Snapshots \subseteq Snapshots'
  BY <1>2 DEF Snapshots
<1>4. MainStates \subseteq MainStates'
  <2>1. [at : {"accepting"}, table : Tables, order : 1..placed]
          \subseteq [at : {"accepting"}, table : Tables, order : 1..placed']
    BY <1>1
  <2>2. [Tables -> Snapshots] \subseteq [Tables -> Snapshots']
    BY <1>3
  <2>3. [at : {"publishing"}, then : {"reset", "online"},
          left : SUBSET Tables, batch : [Tables -> Snapshots]]
          \subseteq [at : {"publishing"}, then : {"reset", "online"},
                     left : SUBSET Tables, batch : [Tables -> Snapshots']]
    BY <2>2
  <2> QED
    BY <2>1, <2>3 DEF MainStates
<1> QED
  BY <1>1, <1>3, <1>4

LEMMA IdleTyped == Idle \in MainStates
  BY DEF Idle, MainStates

LEMMA PublishTyped ==
    ASSUME retained \in [Tables -> Snapshots' \cup {Nothing}],
           NEW t \in Tables, NEW state \in Snapshots', Publish(t, state)
    PROVE  retained' \in [Tables -> Snapshots' \cup {Nothing}]
  BY DEF Publish

LEMMA BatchTyped ==
    ASSUME retained \in [Tables -> Snapshots' \cup {Nothing}],
           NEW then \in {"reset", "online"}, NEW batch \in [Tables -> Snapshots'],
           StartBatch(then, batch)
    PROVE  /\ main' \in MainStates'
           /\ retained' \in [Tables -> Snapshots' \cup {Nothing}]
<1>1. First(Tables) \in Tables
  BY FirstIsMember, TablesAssumption
<1>2. main' \in MainStates'
  BY <1>1 DEF StartBatch, MainStates
<1>3. Publish(First(Tables), batch[First(Tables)]) /\ batch[First(Tables)] \in Snapshots'
  BY <1>1 DEF StartBatch
<1> QED
  BY <1>1, <1>2, <1>3, PublishTyped

KitchenTypes ==
    /\ main \in MainStates
    /\ DOMAIN cooks \subseteq 1..placed
    /\ cooks \in [DOMAIN cooks -> CookStates]
    /\ link \in {"up", "down"}
    /\ retained \in [Tables -> Snapshots \cup {Nothing}]
    /\ status \in {"none", "ONLINE", "OFFLINE"}

\* Each step of the kitchen keeps the types of what is not the store's.
LEMMA TypeStep ==
    ASSUME TypeOK, [Next]_vars
    PROVE  TypeOK'
<1>0. /\ StoreTypeOK /\ KitchenTypes
      /\ StoreTypeOK'
  BY StepIsStoreStep, StoreNextTyped DEF TypeOK, KitchenTypes
<1>a. placed \in Nat /\ placed' \in Nat /\ placed <= placed'
  <2>1. placed \in Nat /\ placed' \in Nat
    BY <1>0, BoundsAssumption DEF StoreTypeOK
  <2>2. [StoreNext]_storeVars
    BY <1>0, StepIsStoreStep
  <2>3. placed' = placed \/ placed' = placed + 1
    BY <2>2 DEF StoreNext, StoreAccept, AddOrder, StoreFinish, StoreReset, storeVars
  <2> QED
    BY <2>1, <2>3
<1>b. /\ main \in MainStates'
      /\ DOMAIN cooks \subseteq 1..placed'
      /\ cooks \in [DOMAIN cooks -> CookStates]
      /\ link \in {"up", "down"}
      /\ retained \in [Tables -> Snapshots' \cup {Nothing}]
      /\ status \in {"none", "ONLINE", "OFFLINE"}
  BY <1>0, <1>a, TypesGrow DEF KitchenTypes
<1>c. /\ \A t \in Tables : Snapshot(t)' \in Snapshots'
      /\ AllSnapshots' \in [Tables -> Snapshots']
      /\ AllSnapshots \in [Tables -> Snapshots']
  <2>1. AllSnapshots \in [Tables -> Snapshots']
    BY <1>0, <1>a, SnapshotTyped, TypesGrow
  <2>2. \A t \in Tables : Snapshot(t)' \in Snapshots'
    BY <1>0 DEF StoreTypeOK, Snapshot, Snapshots
  <2>3. AllSnapshots' \in [Tables -> Snapshots']
    BY <2>2 DEF AllSnapshots
  <2> QED
    BY <2>1, <2>2, <2>3
<1>d. Idle \in MainStates'
  BY IdleTyped DEF MainStates, Idle
<1> USE DEF KitchenTypes
<1>1. ASSUME NEW t \in Tables, NEW c \in ClientOrders, Accept(t, c)
      PROVE  KitchenTypes'
  <2>1. retained' \in [Tables -> Snapshots' \cup {Nothing}]
    BY <1>1, <1>b, <1>c, PublishTyped DEF Accept
  <2>2. placed' \in 1..placed'
    BY <1>1, <1>a DEF Accept, StoreAccept, AddOrder
  <2>3. main' \in MainStates'
    BY <1>1, <2>2 DEF Accept, MainStates
  <2> QED
    BY <1>1, <1>b, <2>1, <2>3 DEF Accept
<1>2. ASSUME NEW t \in Tables \cup {UnknownTable}, NEW c \in ClientOrders, Refuse(t, c)
      PROVE  KitchenTypes'
  <2>1. PICK r \in Refusal(t, c) : main' = [at |-> "refusing", order |-> c, reason |-> r]
    BY <1>2 DEF Refuse
  <2>2. r \in {"VALIDATION_FAILED", "UNKNOWN_TABLE", "TABLE_AT_CAPACITY", "KITCHEN_AT_CAPACITY"}
    BY <2>1 DEF Refusal, InvalidPayload
  <2>3. main' \in MainStates'
    BY <2>1, <2>2 DEF MainStates
  <2> QED
    BY <1>2, <1>b, <2>3 DEF Refuse
<1>3. ASSUME WipeAndRepublish
      PROVE  KitchenTypes'
  <2>1. StartBatch("reset", AllSnapshots') /\ UNCHANGED <<cooks, link, status>>
    BY <1>3 DEF WipeAndRepublish
  <2>2. main' \in MainStates' /\ retained' \in [Tables -> Snapshots' \cup {Nothing}]
    BY <1>b, <1>c, <2>1, BatchTyped
  <2> QED
    BY <1>b, <2>1, <2>2
<1>4. ASSUME GoOffline
      PROVE  KitchenTypes'
  <2>1. main' \in MainStates'
    BY <1>4 DEF GoOffline, MainStates
  <2> QED
    BY <1>4, <1>b, <2>1 DEF GoOffline, PublishStatus
<1>5. ASSUME NEW then \in {"reset", "offline"}, CancelThen(then)
      PROVE  KitchenTypes'
  <2>1. main' \in MainStates'
    BY <1>5 DEF CancelThen, MainStates
  <2>2. DOMAIN cooks' = DOMAIN cooks /\ cooks' \in [DOMAIN cooks -> CookStates]
    BY <1>5, <1>b DEF CancelThen, AllCancelled, CookStates
  <2> QED
    BY <1>5, <1>b, <2>1, <2>2 DEF CancelThen
<1>6. HandleReset \/ Shutdown \/ Cancelled => KitchenTypes'
  BY <1>3, <1>4, <1>5 DEF HandleReset, Shutdown, Cancelled
<1>7. AnnounceOnline => KitchenTypes'
  <2>1. AnnounceOnline => main' \in MainStates' /\ retained' \in [Tables -> Snapshots' \cup {Nothing}]
    BY <1>b, <1>c, BatchTyped DEF AnnounceOnline
  <2> QED
    BY <1>b, <2>1 DEF AnnounceOnline
<1>8. Spawn => KitchenTypes'
  <2> SUFFICES ASSUME Spawn
               PROVE  KitchenTypes'
    OBVIOUS
  <2>1. main.order \in 1..placed /\ main.table \in Tables
    BY <1>0 DEF Spawn, MainStates
  <2>2. DOMAIN cooks' \subseteq 1..placed'
    BY <1>b, <1>a, <2>1 DEF Spawn
  <2>3. cooks' \in [DOMAIN cooks' -> CookStates]
    BY <1>b, <2>1 DEF Spawn, CookStates
  <2> QED
    BY <1>b, <1>d, <2>2, <2>3 DEF Spawn
<1>9. RefusalSent \/ Greeted \/ PublishFails => KitchenTypes'
  BY <1>b, <1>d DEF RefusalSent, Greeted, PublishFails
<1>10. Closed => KitchenTypes'
  <2>1. Closed => main' \in MainStates'
    BY DEF Closed, MainStates
  <2> QED
    BY <1>b, <2>1 DEF Closed
<1>11. PublishNext => KitchenTypes'
  <2> SUFFICES ASSUME PublishNext
               PROVE  KitchenTypes'
    OBVIOUS
  <2>1. main \in [at : {"publishing"}, then : {"reset", "online"},
                  left : SUBSET Tables, batch : [Tables -> Snapshots']]
    BY <1>b DEF PublishNext, MainStates
  <2>2. First(main.left) \in Tables
    BY <2>1, FirstIsMember DEF PublishNext
  <2>3. main' \in MainStates'
    BY <2>1 DEF PublishNext, MainStates
  <2>4. retained' \in [Tables -> Snapshots' \cup {Nothing}]
    BY <1>b, <2>1, <2>2, PublishTyped DEF PublishNext
  <2> QED
    BY <1>b, <2>3, <2>4 DEF PublishNext
<1>12. BatchPublished => KitchenTypes'
  <2>1. BatchPublished => main' \in MainStates'
    BY <1>d DEF BatchPublished, MainStates
  <2> QED
    BY <1>b, <2>1 DEF BatchPublished, PublishStatus
<1>13. ASSUME NEW i \in DOMAIN cooks, Serve(i)
       PROVE  KitchenTypes'
  <2>1. PICK t \in Tables :
           /\ IF IsCooking(t, i)
                THEN /\ StoreFinish(t, i, "SERVED")
                     /\ Publish(t, Snapshot(t)')
                     /\ cooks' = [cooks EXCEPT ![i].at = "publishing"]
                ELSE /\ cooks' = WithoutCook(i)
                     /\ UNCHANGED <<storeVars, retained>>
           /\ UNCHANGED <<main, link, status>>
    BY <1>13 DEF Serve
  <2>2. retained' \in [Tables -> Snapshots' \cup {Nothing}]
    BY <1>b, <1>c, <2>1, PublishTyped
  <2>3. DOMAIN cooks' \subseteq 1..placed' /\ cooks' \in [DOMAIN cooks' -> CookStates]
    BY <1>b, <2>1 DEF WithoutCook, CookStates
  <2> QED
    BY <1>b, <2>1, <2>2, <2>3
<1>14. ASSUME NEW i \in DOMAIN cooks, CookEnds(i)
       PROVE  KitchenTypes'
  <2>1. DOMAIN cooks' \subseteq 1..placed' /\ cooks' \in [DOMAIN cooks' -> CookStates]
    BY <1>14, <1>b DEF CookEnds, WithoutCook
  <2> QED
    BY <1>14, <1>b, <2>1 DEF CookEnds
<1>15. LinkChanges \/ UNCHANGED vars => KitchenTypes'
  BY <1>b DEF LinkChanges, vars, kitchenVars
<1>16. KitchenTypes'
  BY <1>1, <1>2, <1>6, <1>7, <1>8, <1>9, <1>10, <1>11, <1>12, <1>13, <1>14, <1>15
     DEF Next, Steps, HandleMessage, Resume, CookStep
<1> QED
  BY <1>0, <1>16 DEF TypeOK

\* The kitchen keeps its types through every interleaving of its coroutines
\* (kitchen.py, with store.py and the broker's retained slots).
THEOREM TypeCorrect == Spec => []TypeOK
<1>1. Init => TypeOK
  <2> SUFFICES ASSUME Init
               PROVE  TypeOK
    OBVIOUS
  <2>1. StoreTypeOK
    BY InitIsStoreInit, StoreInitTyped
  <2>2. main \in MainStates
    BY IdleTyped DEF Init
  <2> QED
    BY <2>1, <2>2 DEF Init, TypeOK
<1>2. TypeOK /\ [Next]_vars => TypeOK'
  BY TypeStep
<1> QED
  BY <1>1, <1>2, PTL DEF Spec

-----------------------------------------------------------------------------
(* Ownership of the cooking orders *)

\* What makes the ownership of dishes inductive: the order in the hands of the
\* consumer cooks, and no task has it yet.
ConsumerHoldsOrder ==
    main.at = "accepting" =>
        IsCooking(main.table, main.order) /\ main.order \notin DOMAIN cooks

CookInv == TypeOK /\ CooksHaveTheirOrder /\ ConsumerHoldsOrder

\* A step that leaves the store alone, and neither ends a cancellation nor
\* accepts, spawns or cancels, keeps what the cooks and the consumer hold.
LEMMA CookStepHolds ==
    ASSUME CookInv, [Next]_vars
    PROVE  CooksHaveTheirOrder' /\ ConsumerHoldsOrder'
<1>0. StoreTypeOK /\ placed \in Nat /\ DOMAIN cooks \subseteq 1..placed
      /\ cooks \in [DOMAIN cooks -> CookStates]
  BY BoundsAssumption DEF CookInv, TypeOK, StoreTypeOK
<1> USE DEF CookInv, CooksHaveTheirOrder, ConsumerHoldsOrder, IsCooking
<1>1. ASSUME NEW t \in Tables, NEW c \in ClientOrders, Accept(t, c)
      PROVE  CooksHaveTheirOrder' /\ ConsumerHoldsOrder'
  <2>1. /\ Cooking(orders'[t]) = Cooking(orders[t]) \cup {placed + 1}
        /\ \A u \in Tables \ {t} : orders'[u] = orders[u]
    BY <1>0, <1>1, CookingAfterAdd DEF Accept, StoreAccept
  <2>2. main' = [at |-> "accepting", table |-> t, order |-> placed + 1] /\ cooks' = cooks
    BY <1>1 DEF Accept, StoreAccept, AddOrder
  <2>3. \A i \in DOMAIN cooks : cooks[i].at # "cancelled"
    BY <1>1 DEF Accept, Idle
  <2>4. \A i \in DOMAIN cooks : cooks[i].table \in Tables
    BY <1>0 DEF CookStates
  <2>5. placed + 1 \notin DOMAIN cooks
    BY <1>0
  <2>6. \A u \in Tables : Cooking(orders[u]) \subseteq Cooking(orders'[u])
    BY <2>1
  <2>7. CooksHaveTheirOrder'
    BY <2>2, <2>3, <2>4, <2>6
  <2>8. ConsumerHoldsOrder'
    BY <2>1, <2>2, <2>5
  <2> QED
    BY <2>7, <2>8
<1>2. ASSUME Spawn
      PROVE  CooksHaveTheirOrder' /\ ConsumerHoldsOrder'
  BY <1>2 DEF Spawn, storeVars, Idle
<1>3. ASSUME NEW i \in DOMAIN cooks, Serve(i)
      PROVE  CooksHaveTheirOrder' /\ ConsumerHoldsOrder'
  <2>1. PICK t \in Tables :
           /\ cooks[i] = [table |-> t, at |-> "sleeping"]
           /\ IF IsCooking(t, i)
                THEN /\ StoreFinish(t, i, "SERVED")
                     /\ Publish(t, Snapshot(t)')
                     /\ cooks' = [cooks EXCEPT ![i].at = "publishing"]
                ELSE /\ cooks' = WithoutCook(i)
                     /\ UNCHANGED <<storeVars, retained>>
           /\ UNCHANGED <<main, link, status>>
    BY <1>3 DEF Serve
  <2>2. StoreFinish(t, i, "SERVED") /\ cooks' = [cooks EXCEPT ![i].at = "publishing"]
    BY <2>1
  <2>3. /\ Cooking(orders'[t]) = Cooking(orders[t]) \ {i}
        /\ \A u \in Tables \ {t} : orders'[u] = orders[u]
    BY <1>0, <2>2, CookingAfterFinish DEF StoreFinish
  <2>4. \A j \in DOMAIN cooks : cooks[j].table \in Tables /\ cooks'[j].table = cooks[j].table
    BY <1>0, <2>2 DEF CookStates
  <2>5. \A j \in DOMAIN cooks \ {i} : cooks'[j] = cooks[j]
    BY <2>2
  <2>6. cooks'[i].at = "publishing" /\ DOMAIN cooks' = DOMAIN cooks
    BY <1>0, <2>2 DEF CookStates
  <2>7. \A u \in Tables : \A j : j # i /\ j \in Cooking(orders[u]) => j \in Cooking(orders'[u])
    BY <2>3
  <2>8. CooksHaveTheirOrder'
    BY <2>1, <2>4, <2>5, <2>6, <2>7
  <2>9. ConsumerHoldsOrder'
    <3> SUFFICES ASSUME main.at = "accepting"
                 PROVE  main.order \in Cooking(orders'[main.table]) /\ main.order \notin DOMAIN cooks'
      BY <2>1
    <3>1. main.table \in Tables
      BY DEF TypeOK, MainStates
    <3>2. main.order # i
      OBVIOUS
    <3> QED
      BY <2>6, <2>7, <3>1, <3>2
  <2> QED
    BY <2>8, <2>9
<1>4. ASSUME WipeAndRepublish, DOMAIN cooks = {}
      PROVE  CooksHaveTheirOrder' /\ ConsumerHoldsOrder'
  BY <1>4 DEF WipeAndRepublish, StartBatch
<1>5. ASSUME NEW then, CancelThen(then)
      PROVE  CooksHaveTheirOrder' /\ ConsumerHoldsOrder'
  <2>1. main'.at = "cancelling" /\ DOMAIN cooks' = DOMAIN cooks
        /\ \A i \in DOMAIN cooks : cooks'[i].at = "cancelled"
    BY <1>0, <1>5 DEF CancelThen, AllCancelled, CookStates
  <2> QED
    BY <2>1
<1>6. ASSUME GoOffline, DOMAIN cooks = {}
      PROVE  CooksHaveTheirOrder' /\ ConsumerHoldsOrder'
  BY <1>6 DEF GoOffline
<1>7. HandleReset \/ Shutdown \/ Cancelled => CooksHaveTheirOrder' /\ ConsumerHoldsOrder'
  BY <1>4, <1>5, <1>6 DEF HandleReset, Shutdown, Cancelled
<1>8. ASSUME NEW i \in DOMAIN cooks, CookEnds(i)
      PROVE  CooksHaveTheirOrder' /\ ConsumerHoldsOrder'
  BY <1>8 DEF CookEnds, WithoutCook, storeVars
<1>9. /\ \A t, c : Refuse(t, c) => CooksHaveTheirOrder' /\ ConsumerHoldsOrder'
      /\ RefusalSent \/ Closed \/ BatchPublished \/ Greeted \/ PublishFails
           => CooksHaveTheirOrder' /\ ConsumerHoldsOrder'
  BY DEF Refuse, RefusalSent, Closed, BatchPublished, Greeted, PublishFails, storeVars, Idle
<1>10. AnnounceOnline \/ PublishNext => CooksHaveTheirOrder' /\ ConsumerHoldsOrder'
  <2>1. PublishNext => main'.at = "publishing" /\ UNCHANGED <<storeVars, cooks>>
    BY DEF PublishNext, TypeOK, MainStates
  <2>2. AnnounceOnline => main'.at = "publishing" /\ UNCHANGED <<storeVars, cooks>>
    BY DEF AnnounceOnline, StartBatch
  <2>3. AnnounceOnline => main.at = "idle"
    BY DEF AnnounceOnline, Idle
  <2> QED
    BY <2>1, <2>2, <2>3 DEF PublishNext, storeVars
<1>11. LinkChanges \/ UNCHANGED vars => CooksHaveTheirOrder' /\ ConsumerHoldsOrder'
  BY DEF LinkChanges, vars, kitchenVars, storeVars
<1> QED
  BY <1>1, <1>2, <1>3, <1>7, <1>8, <1>9, <1>10, <1>11
     DEF Next, Steps, HandleMessage, Resume, CookStep

\* The strengthening holds in every behaviour.
LEMMA CookInvHolds == Spec => []CookInv
<1>1. Init => CooksHaveTheirOrder /\ ConsumerHoldsOrder
  BY DEF Init, CooksHaveTheirOrder, ConsumerHoldsOrder, Idle
<1>2. CookInv /\ [Next]_vars => (CooksHaveTheirOrder /\ ConsumerHoldsOrder)'
  BY CookStepHolds
<1> QED
  BY <1>1, <1>2, TypeCorrect, PTL DEF Spec, CookInv

\* No task outlives the order it cooks: one that sleeps has its order, and one
\* that was cancelled is gone before the reset or the shutdown goes on.
THEOREM EveryCookHasItsOrder == Spec => []CooksHaveTheirOrder
  BY CookInvHolds, PTL DEF CookInv

\* Where a step leaves the tables, the cooks and the consumer's order alone,
\* who owns a dish stays the same; what may change is that dishes are abandoned.
LEMMA OwnersStepHolds ==
    ASSUME CookInv, OrdersHaveACook, [Steps]_vars
    PROVE  OrdersHaveACook'
<1>0. StoreTypeOK /\ placed \in Nat /\ cooks \in [DOMAIN cooks -> CookStates]
  BY BoundsAssumption DEF CookInv, TypeOK, StoreTypeOK
<1> USE DEF OrdersHaveACook, Abandoned, OwnedByConsumer, OwnedByCook
<1>1. ASSUME NEW t \in Tables, NEW c \in ClientOrders, Accept(t, c)
      PROVE  OrdersHaveACook'
  <2>1. /\ Cooking(orders'[t]) = Cooking(orders[t]) \cup {placed + 1}
        /\ \A u \in Tables \ {t} : orders'[u] = orders[u]
    BY <1>0, <1>1, CookingAfterAdd DEF Accept, StoreAccept
  <2>2. main' = [at |-> "accepting", table |-> t, order |-> placed + 1] /\ cooks' = cooks
    BY <1>1 DEF Accept, StoreAccept, AddOrder
  <2>3. main.at = "idle"
    BY <1>1 DEF Accept, Idle
  <2>4. \A u \in Tables : \A i \in Cooking(orders[u]) : OwnedByCook(u, i)
    BY <2>3
  <2> QED
    BY <2>1, <2>2, <2>4
<1>2. ASSUME Spawn
      PROVE  OrdersHaveACook'
  <2>1. /\ cooks'[main.order] = [table |-> main.table, at |-> "sleeping"]
        /\ main.order \in DOMAIN cooks'
        /\ \A i \in DOMAIN cooks : i # main.order => i \in DOMAIN cooks' /\ cooks'[i] = cooks[i]
    BY <1>2 DEF Spawn
  <2>2. main.at = "accepting" /\ orders' = orders
    BY <1>2 DEF Spawn, storeVars
  <2>3. main.order \notin DOMAIN cooks
    BY <2>2 DEF CookInv, ConsumerHoldsOrder
  <2>4. \A u \in Tables : \A i \in Cooking(orders[u]) : OwnedByCook(u, i)'
    BY <2>1, <2>2, <2>3
  <2> QED
    BY <2>2, <2>4
<1>3. ASSUME NEW i \in DOMAIN cooks, Serve(i)
      PROVE  OrdersHaveACook'
  <2>1. PICK t \in Tables :
           /\ cooks[i] = [table |-> t, at |-> "sleeping"]
           /\ IF IsCooking(t, i)
                THEN /\ StoreFinish(t, i, "SERVED")
                     /\ Publish(t, Snapshot(t)')
                     /\ cooks' = [cooks EXCEPT ![i].at = "publishing"]
                ELSE /\ cooks' = WithoutCook(i)
                     /\ UNCHANGED <<storeVars, retained>>
           /\ UNCHANGED <<main, link, status>>
    BY <1>3 DEF Serve
  <2>2. IsCooking(t, i)
    BY <2>1 DEF CookInv, CooksHaveTheirOrder
  <2>3. StoreFinish(t, i, "SERVED") /\ cooks' = [cooks EXCEPT ![i].at = "publishing"]
    BY <2>1, <2>2
  <2>4. /\ Cooking(orders'[t]) = Cooking(orders[t]) \ {i}
        /\ \A u \in Tables \ {t} : orders'[u] = orders[u]
    BY <1>0, <2>3, CookingAfterFinish DEF StoreFinish
  <2>5. DOMAIN cooks' = DOMAIN cooks /\ \A j \in DOMAIN cooks \ {i} : cooks'[j] = cooks[j]
    BY <1>0, <2>3
  <2>6. ASSUME NEW u \in Tables, NEW j \in Cooking(orders'[u]), ~ Abandoned
        PROVE  OwnedByConsumer(u, j)' \/ OwnedByCook(u, j)'
    <3>1. j \in Cooking(orders[u])
      BY <2>4
    <3>2. OwnedByConsumer(u, j) \/ OwnedByCook(u, j)
      BY <3>1, <2>6
    <3>3. CASE j # i
      BY <3>2, <3>3, <2>1, <2>5
    <3>4. CASE j = i
      <4>1. u # t
        BY <2>4, <3>4
      <4>2. ~ OwnedByCook(u, i)
        BY <4>1, <2>1
      <4>3. ~ OwnedByConsumer(u, i)
        BY DEF CookInv, ConsumerHoldsOrder
      <4> QED
        BY <3>2, <3>4, <4>2, <4>3
    <3> QED
      BY <3>3, <3>4
  <2> QED
    BY <2>1, <2>6
<1>4. ASSUME WipeAndRepublish
      PROVE  OrdersHaveACook'
  BY <1>4, CookingAfterReset DEF WipeAndRepublish, StoreReset
<1>5. HandleReset \/ Shutdown \/ Cancelled => OrdersHaveACook'
  BY <1>4 DEF HandleReset, Shutdown, Cancelled, CancelThen, GoOffline
<1>6. ASSUME NEW i \in DOMAIN cooks, CookEnds(i)
      PROVE  OrdersHaveACook'
  BY <1>6 DEF CookEnds, WithoutCook, storeVars
<1>7. /\ \A t, c : Refuse(t, c) => OrdersHaveACook'
      /\ RefusalSent \/ Closed \/ BatchPublished \/ Greeted => OrdersHaveACook'
  BY DEF Refuse, RefusalSent, Closed, BatchPublished, Greeted, storeVars, Idle
<1>8. AnnounceOnline \/ PublishNext => OrdersHaveACook'
  <2>1. AnnounceOnline => main.at = "idle" /\ UNCHANGED <<storeVars, cooks>>
    BY DEF AnnounceOnline, Idle
  <2>2. PublishNext => main.at = "publishing" /\ UNCHANGED <<storeVars, cooks>>
    BY DEF PublishNext
  <2> QED
    BY <2>1, <2>2 DEF storeVars
<1>9. LinkChanges \/ UNCHANGED vars => OrdersHaveACook'
  BY DEF LinkChanges, vars, kitchenVars, storeVars
<1> QED
  BY <1>1, <1>2, <1>3, <1>5, <1>6, <1>7, <1>8, <1>9
     DEF Steps, HandleMessage, Resume, CookStep

\* Unless a publish raises, a dish that cooks is never left without the task
\* that will serve it, until the kitchen cancels them all.
THEOREM EveryOrderHasACook == SteadySpec => []OrdersHaveACook
<1>1. Init => OrdersHaveACook
  BY DEF Init, StoreInit, OrdersHaveACook, Cooking, NoOrders
<1>2. CookInv /\ OrdersHaveACook /\ [Steps]_vars => OrdersHaveACook'
  BY OwnersStepHolds
<1>3. [Steps]_vars => [Next]_vars
  BY DEF Next
<1>4. SteadySpec => Spec
  BY <1>3, PTL DEF SteadySpec, Spec
<1> QED
  BY <1>1, <1>2, <1>4, CookInvHolds, PTL DEF SteadySpec

-----------------------------------------------------------------------------
(* Publication *)

\* What makes PublishesForward follow from each step: no slot is ahead of its table,
\* no batch is of another generation, and while a reset publishes, nobody else does
\* and the tables it has yet to publish are of an earlier generation.
Past(state, t) == state.epoch < epoch \/ (state.epoch = epoch /\ state.version <= version[t])

SlotsArePast == \A t \in Tables : retained[t] = Nothing \/ Past(retained[t], t)

BatchIsPast ==
    main.at = "publishing" =>
        \A t \in Tables : main.batch[t].epoch = epoch /\ main.batch[t].version <= version[t]

ResetIsAlone ==
    main.at = "publishing" /\ main.then = "reset" =>
        /\ DOMAIN cooks = {}
        /\ \A t \in main.left : retained[t] = Nothing \/ retained[t].epoch < epoch

Orderly == SlotsArePast /\ BatchIsPast /\ ResetIsAlone

MovesForward(t) ==
    \/ retained'[t] = retained[t]
    \/ Newer(retained'[t], retained[t])
    \/ main'.at = "publishing" /\ main'.then = "online"

\* A publish of what its table has just become.
LEMMA ChangedTableForward ==
    ASSUME TypeOK, Orderly, NEW t \in Tables, epoch' = epoch,
           version' = [version EXCEPT ![t] = @ + 1], Publish(t, Snapshot(t)')
    PROVE  SlotsArePast' /\ \A u \in Tables : MovesForward(u)
<1>1. /\ retained \in [Tables -> Snapshots \cup {Nothing}] /\ version \in [Tables -> Nat]
      /\ epoch \in Nat
  BY DEF TypeOK, StoreTypeOK
<1>2. /\ version'[t] = version[t] + 1 /\ version[t] \in Nat
      /\ \A u \in Tables \ {t} : version'[u] = version[u]
  BY <1>1
<1>3. \A u \in Tables : retained[u] = Nothing
                         \/ (retained[u].epoch \in Nat /\ retained[u].version \in Nat)
  BY <1>1 DEF Snapshots
<1>4. \A u \in Tables \ {t} : retained'[u] = retained[u]
  BY <1>1 DEF Publish
<1>5. retained'[t] = retained[t] \/ retained'[t] = Snapshot(t)'
  BY <1>1 DEF Publish
<1>6. Snapshot(t)'.epoch = epoch /\ Snapshot(t)'.version = version[t] + 1
  BY <1>2 DEF Snapshot
<1>7. \A u \in Tables : retained[u] = Nothing \/ Past(retained[u], u)
  BY DEF Orderly, SlotsArePast
<1>8. \A u \in Tables \ {t} : MovesForward(u) /\ (retained'[u] = Nothing \/ Past(retained[u], u)')
  BY <1>1, <1>2, <1>3, <1>4, <1>7 DEF MovesForward, Past
<1>9. retained'[t] = Nothing \/ Past(retained[t], t)'
  <2>1. CASE retained'[t] = retained[t]
    BY <1>1, <1>2, <1>3, <1>7, <2>1 DEF Past
  <2>2. CASE retained'[t] = Snapshot(t)'
    BY <1>1, <1>2, <1>6, <2>2 DEF Past
  <2> QED
    BY <1>5, <2>1, <2>2
<1>10. MovesForward(t)
  <2>1. CASE retained'[t] = retained[t]
    BY <2>1 DEF MovesForward
  <2>2. CASE retained'[t] = Snapshot(t)'
    BY <1>1, <1>2, <1>3, <1>6, <1>7, <2>2 DEF MovesForward, Newer, Past
  <2> QED
    BY <1>5, <2>1, <2>2
<1> QED
  BY <1>8, <1>9, <1>10 DEF SlotsArePast

LEMMA AcceptIsOrderly ==
    ASSUME TypeOK, Orderly, NEW t \in Tables, NEW c \in ClientOrders, Accept(t, c)
    PROVE  Orderly' /\ \A u \in Tables : MovesForward(u)
<1>1. /\ epoch' = epoch /\ version' = [version EXCEPT ![t] = @ + 1]
      /\ Publish(t, Snapshot(t)') /\ main'.at = "accepting"
  BY DEF Accept, StoreAccept, AddOrder
<1>2. SlotsArePast' /\ \A u \in Tables : MovesForward(u)
  BY <1>1, ChangedTableForward
<1> QED
  BY <1>1, <1>2 DEF Orderly, BatchIsPast, ResetIsAlone

LEMMA ServeIsOrderly ==
    ASSUME TypeOK, Orderly, NEW i \in DOMAIN cooks, Serve(i)
    PROVE  Orderly' /\ \A u \in Tables : MovesForward(u)
<1>1. PICK t \in Tables :
         /\ IF IsCooking(t, i)
              THEN StoreFinish(t, i, "SERVED") /\ Publish(t, Snapshot(t)')
              ELSE UNCHANGED <<storeVars, retained>>
         /\ UNCHANGED main
  BY DEF Serve
<1>2. ~ (main.at = "publishing" /\ main.then = "reset")
  BY DEF Orderly, ResetIsAlone
<1>3. CASE IsCooking(t, i)
  <2>1. /\ epoch' = epoch /\ version' = [version EXCEPT ![t] = @ + 1]
        /\ Publish(t, Snapshot(t)') /\ main' = main
    BY <1>1, <1>3 DEF StoreFinish, FinishOrder
  <2>2. SlotsArePast' /\ \A u \in Tables : MovesForward(u)
    BY <2>1, ChangedTableForward
  <2>3. version \in [Tables -> Nat]
    BY DEF TypeOK, StoreTypeOK
  <2>4. \A u \in Tables : version[u] \in Nat /\ version'[u] \in {version[u], version[u] + 1}
    BY <2>1, <2>3
  <2>5. BatchIsPast'
    <3> SUFFICES ASSUME main.at = "publishing", NEW u \in Tables
                 PROVE  main.batch[u].epoch = epoch /\ main.batch[u].version <= version'[u]
      BY <2>1 DEF BatchIsPast
    <3>1. main.batch \in [Tables -> Snapshots]
      BY DEF TypeOK, MainStates
    <3>2. main.batch[u].version \in Nat
      BY <3>1 DEF Snapshots
    <3> QED
      BY <2>4, <3>2 DEF Orderly, BatchIsPast
  <2> QED
    BY <1>2, <2>1, <2>2, <2>5 DEF Orderly, ResetIsAlone
<1>4. CASE ~ IsCooking(t, i)
  BY <1>1, <1>2, <1>4
     DEF Orderly, SlotsArePast, Past, BatchIsPast, ResetIsAlone, MovesForward, storeVars
<1> QED
  BY <1>3, <1>4

LEMMA WipeIsOrderly ==
    ASSUME TypeOK, Orderly, WipeAndRepublish, DOMAIN cooks = {}
    PROVE  Orderly' /\ \A u \in Tables : MovesForward(u)
<1>1. PICK f \in Tables : f = First(Tables)
  BY FirstIsMember, TablesAssumption
<1>2. /\ epoch' = epoch + 1 /\ version' = [t \in Tables |-> 0] /\ cooks' = cooks
      /\ Publish(f, AllSnapshots'[f])
      /\ main' = [at |-> "publishing", then |-> "reset", left |-> Tables \ {f},
                  batch |-> AllSnapshots']
  BY <1>1 DEF WipeAndRepublish, StoreReset, Reset, StartBatch
<1>3. \A t \in Tables : AllSnapshots'[t].epoch = epoch' /\ AllSnapshots'[t].version = 0
  BY <1>2 DEF AllSnapshots, Snapshot
<1>4. epoch \in Nat /\ retained \in [Tables -> Snapshots \cup {Nothing}]
  BY DEF TypeOK, StoreTypeOK
<1>5. \A t \in Tables : retained[t] = Nothing
                         \/ (retained[t].epoch \in Nat /\ retained[t].epoch < epoch + 1)
  BY <1>4 DEF Orderly, SlotsArePast, Past, Snapshots
<1>6. /\ \A t \in Tables \ {f} : retained'[t] = retained[t]
      /\ retained'[f] = retained[f] \/ retained'[f] = AllSnapshots'[f]
  BY <1>2, <1>4 DEF Publish
<1>7. SlotsArePast'
  BY <1>2, <1>3, <1>5, <1>6 DEF SlotsArePast, Past
<1>8. BatchIsPast' /\ ResetIsAlone'
  BY <1>2, <1>3, <1>5, <1>6 DEF BatchIsPast, ResetIsAlone
<1>9. \A t \in Tables : MovesForward(t)
  BY <1>2, <1>3, <1>4, <1>5, <1>6 DEF MovesForward, Newer
<1> QED
  BY <1>7, <1>8, <1>9 DEF Orderly

LEMMA AnnounceIsOrderly ==
    ASSUME TypeOK, Orderly, AnnounceOnline
    PROVE  Orderly' /\ \A u \in Tables : MovesForward(u)
<1>1. PICK f \in Tables : f = First(Tables)
  BY FirstIsMember, TablesAssumption
<1>2. /\ epoch' = epoch /\ version' = version /\ Publish(f, AllSnapshots[f])
      /\ main' = [at |-> "publishing", then |-> "online", left |-> Tables \ {f},
                  batch |-> AllSnapshots]
  BY <1>1 DEF AnnounceOnline, StartBatch, storeVars
<1>3. \A t \in Tables : AllSnapshots[t].epoch = epoch /\ AllSnapshots[t].version = version[t]
  BY DEF AllSnapshots, Snapshot
<1>4. /\ epoch \in Nat /\ version \in [Tables -> Nat]
      /\ retained \in [Tables -> Snapshots \cup {Nothing}]
  BY DEF TypeOK, StoreTypeOK
<1>5. /\ \A t \in Tables \ {f} : retained'[t] = retained[t]
      /\ retained'[f] = retained[f] \/ retained'[f] = AllSnapshots[f]
  BY <1>2, <1>4 DEF Publish
<1>6. SlotsArePast'
  BY <1>2, <1>3, <1>4, <1>5 DEF Orderly, SlotsArePast, Past
<1>7. BatchIsPast' /\ ResetIsAlone'
  BY <1>2, <1>3, <1>4 DEF BatchIsPast, ResetIsAlone
<1> QED
  BY <1>2, <1>6, <1>7 DEF Orderly, MovesForward

LEMMA PublishNextIsOrderly ==
    ASSUME TypeOK, Orderly, PublishNext
    PROVE  Orderly' /\ \A u \in Tables : MovesForward(u)
<1>1. main \in [at : {"publishing"}, then : {"reset", "online"},
                left : SUBSET Tables, batch : [Tables -> Snapshots]]
  BY DEF PublishNext, TypeOK, MainStates
<1>2. PICK f \in main.left : f = First(main.left)
  BY <1>1, FirstIsMember DEF PublishNext
<1>3. /\ main'.at = "publishing" /\ main'.batch = main.batch /\ main'.left = main.left \ {f}
      /\ main'.then = main.then /\ Publish(f, main.batch[f])
      /\ epoch' = epoch /\ version' = version /\ cooks' = cooks
  BY <1>1, <1>2 DEF PublishNext, storeVars
<1>4. f \in Tables /\ main.left \subseteq Tables
  BY <1>1, <1>2
<1>5. epoch \in Nat /\ retained \in [Tables -> Snapshots \cup {Nothing}]
  BY DEF TypeOK, StoreTypeOK
<1>6. /\ \A t \in Tables \ {f} : retained'[t] = retained[t]
      /\ retained'[f] = retained[f] \/ retained'[f] = main.batch[f]
  BY <1>3, <1>4, <1>5 DEF Publish
<1>7. main.batch[f].epoch = epoch /\ main.batch[f].version <= version[f]
  BY <1>3, <1>1, <1>4 DEF Orderly, BatchIsPast
<1>8. SlotsArePast'
  BY <1>3, <1>4, <1>6, <1>7 DEF Orderly, SlotsArePast, Past
<1>9. BatchIsPast' /\ ResetIsAlone'
  BY <1>1, <1>3, <1>4, <1>6 DEF Orderly, BatchIsPast, ResetIsAlone
<1>10. \A t \in Tables : MovesForward(t)
  <2>1. CASE main.then = "online"
    BY <1>3, <2>1 DEF MovesForward
  <2>2. CASE main.then = "reset"
    <3>1. retained[f] = Nothing \/ retained[f].epoch < epoch
      BY <1>1, <1>2, <2>2 DEF Orderly, ResetIsAlone
    <3> QED
      BY <1>6, <1>7, <3>1 DEF MovesForward, Newer
  <2> QED
    BY <1>1, <2>1, <2>2
<1> QED
  BY <1>8, <1>9, <1>10 DEF Orderly

LEMMA StepIsOrderly ==
    ASSUME TypeOK, Orderly, [Next]_vars
    PROVE  Orderly' /\ \A u \in Tables : MovesForward(u)
\* Steps that publish no table.
<1>1. ASSUME UNCHANGED <<storeVars, retained>>, main' = main \/ main'.at # "publishing",
             (DOMAIN cooks' \subseteq DOMAIN cooks) \/ main'.at # "publishing"
      PROVE  Orderly' /\ \A u \in Tables : MovesForward(u)
  BY <1>1 DEF Orderly, SlotsArePast, Past, BatchIsPast, ResetIsAlone, MovesForward, storeVars
<1>2. ASSUME NEW then, CancelThen(then)
      PROVE  Orderly' /\ \A u \in Tables : MovesForward(u)
  BY <1>1, <1>2 DEF CancelThen
<1>3. ASSUME GoOffline
      PROVE  Orderly' /\ \A u \in Tables : MovesForward(u)
  BY <1>1, <1>3 DEF GoOffline
<1>4. HandleReset \/ Shutdown \/ Cancelled => Orderly' /\ \A u \in Tables : MovesForward(u)
  BY <1>2, <1>3, WipeIsOrderly DEF HandleReset, Shutdown, Cancelled
<1>5. ASSUME NEW i \in DOMAIN cooks, CookEnds(i)
      PROVE  Orderly' /\ \A u \in Tables : MovesForward(u)
  BY <1>1, <1>5 DEF CookEnds, WithoutCook
<1>6. ASSUME NEW t, NEW c, Refuse(t, c)
      PROVE  Orderly' /\ \A u \in Tables : MovesForward(u)
  BY <1>1, <1>6 DEF Refuse
<1>7. ASSUME \/ Spawn \/ RefusalSent \/ Closed \/ BatchPublished \/ Greeted
             \/ PublishFails \/ LinkChanges \/ UNCHANGED vars
      PROVE  Orderly' /\ \A u \in Tables : MovesForward(u)
  <2>1. /\ UNCHANGED <<storeVars, retained>>
        /\ main' = main \/ main'.at # "publishing"
        /\ cooks' = cooks \/ main'.at # "publishing"
    BY <1>7 DEF Spawn, RefusalSent, Closed, BatchPublished, Greeted, PublishFails, LinkChanges,
                vars, kitchenVars, Idle
  <2>2. (DOMAIN cooks' \subseteq DOMAIN cooks) \/ main'.at # "publishing"
    BY <2>1
  <2> QED
    BY <1>1, <2>1, <2>2
<1> QED
  BY <1>4, <1>5, <1>6, <1>7, AcceptIsOrderly, ServeIsOrderly, AnnounceIsOrderly,
     PublishNextIsOrderly DEF Next, Steps, HandleMessage, Resume, CookStep

\* What replaces a retained state is newer, except from an announcement that was
\* overtaken: resets, orders and dishes never publish the past (kitchen.py:109-111).
THEOREM PublicationGoesForward == Spec => PublishesForward
<1>1. Init => Orderly
  BY DEF Init, Orderly, SlotsArePast, BatchIsPast, ResetIsAlone, Idle
<1>2. TypeOK /\ Orderly /\ [Next]_vars => Orderly'
  BY StepIsOrderly
<1>3. TypeOK /\ Orderly /\ [Next]_vars =>
        [\A t \in Tables :
            \/ retained'[t] = retained[t]
            \/ Newer(retained'[t], retained[t])
            \/ main'.at = "publishing" /\ main'.then = "online"]_vars
  BY StepIsOrderly DEF MovesForward
<1> QED
  BY <1>1, <1>2, <1>3, TypeCorrect, PTL DEF Spec, PublishesForward

-----------------------------------------------------------------------------
(* The memory of client order ids *)

\* In the kitchen an id that is remembered is new, so that the cache is the end of
\* the history of accepted ids: all of it, as long as it fits.
SeenIsLatest ==
    /\ Len(seen) <= Len(accepted) /\ Len(seen) <= DedupeCacheSize
    /\ Len(seen) = Len(accepted) \/ Len(seen) = DedupeCacheSize
    /\ \A k \in 1..Len(seen) : seen[k] = accepted[Len(accepted) - Len(seen) + k]

AcceptedInv ==
    /\ accepted \in Seq(ClientOrders)
    /\ SeenIsLatest
    /\ AcceptedOnceInTheWindow

\* Every step of the kitchen with its history is a step of the kitchen.
LEMMA HistoryIsStep == [MCKitchenNext]_<<vars, accepted>> => [Next]_vars
BY DEF MCKitchenNext, Next, Steps, HandleMessage

\* A new id is appended, and the oldest is dropped when there is one too many.
LEMMA RememberedNew ==
    ASSUME NEW c, ~ IsDuplicate(c), RememberClientOrder(c)
    PROVE  seen' = IF Len(Append(seen, c)) > DedupeCacheSize
                     THEN Tail(Append(seen, c)) ELSE Append(seen, c)
BY DEF IsDuplicate, RememberClientOrder, MovedToEnd

\* What any other step does to the memory: nothing, or it is lost in a reset.
LEMMA OthersForget ==
    ASSUME StoreTypeOK,
           \/ \E t \in Tables \cup {UnknownTable}, c \in ClientOrders : Refuse(t, c)
           \/ HandleReset
           \/ AnnounceOnline
           \/ Shutdown
           \/ Resume
           \/ PublishFails
           \/ \E i \in DOMAIN cooks : CookStep(i)
           \/ LinkChanges
           \/ UNCHANGED vars
    PROVE  \/ UNCHANGED <<epoch, seen>>
           \/ epoch' # epoch /\ seen' = << >>
<1>1. ASSUME WipeAndRepublish
      PROVE  epoch' # epoch /\ seen' = << >>
  BY <1>1 DEF WipeAndRepublish, StoreReset, Reset, StoreTypeOK
<1>2. HandleReset \/ Shutdown \/ Cancelled => WipeAndRepublish \/ UNCHANGED <<epoch, seen>>
  BY DEF HandleReset, Shutdown, Cancelled, CancelThen, GoOffline, storeVars
<1>3. \A i : CookStep(i) => UNCHANGED <<epoch, seen>>
  BY DEF CookStep, Serve, CookEnds, StoreFinish, storeVars
<1>4. /\ \A t, c : Refuse(t, c) => UNCHANGED <<epoch, seen>>
      /\ AnnounceOnline \/ Spawn \/ RefusalSent \/ Closed \/ PublishNext
           \/ BatchPublished \/ Greeted \/ PublishFails \/ LinkChanges
         => UNCHANGED <<epoch, seen>>
      /\ UNCHANGED vars => UNCHANGED <<epoch, seen>>
  BY DEF Refuse, AnnounceOnline, Spawn, RefusalSent, Closed, PublishNext,
         BatchPublished, Greeted, PublishFails, LinkChanges, vars, storeVars
<1> QED
  BY <1>1, <1>2, <1>3, <1>4 DEF Resume

LEMMA AcceptKeepsAcceptedInv ==
    ASSUME StoreTypeOK, AcceptedInv, NEW t \in Tables, NEW c \in ClientOrders,
           Accept(t, c), accepted' = Append(accepted, c)
    PROVE  AcceptedInv'
<1> DEFINE n == Len(accepted)
           m == Len(seen)
<1>1. /\ accepted \in Seq(ClientOrders) /\ seen \in Seq(ClientOrders)
      /\ n \in Nat /\ m \in Nat /\ DedupeCacheSize \in Nat \ {0}
  BY DedupeAssumption DEF AcceptedInv, StoreTypeOK
<1>2. /\ m <= n /\ m <= DedupeCacheSize /\ (m = n \/ m = DedupeCacheSize)
      /\ \A k \in 1..m : seen[k] = accepted[n - m + k]
  BY DEF AcceptedInv, SeenIsLatest
<1>3. /\ accepted' \in Seq(ClientOrders) /\ Len(accepted') = n + 1
      /\ \A k \in 1..n : accepted'[k] = accepted[k]
      /\ accepted'[n + 1] = c
  BY <1>1, AppendProperties
<1>4. \A k \in 1..m : seen[k] # c
  BY DEF Accept, IsDuplicate
<1>5. /\ Append(seen, c) \in Seq(ClientOrders) /\ Append(seen, c) # << >>
      /\ Len(Append(seen, c)) = m + 1
      /\ \A k \in 1..m : Append(seen, c)[k] = seen[k]
      /\ Append(seen, c)[m + 1] = c
  BY <1>1, AppendProperties
<1>6. seen' = IF m + 1 > DedupeCacheSize THEN Tail(Append(seen, c)) ELSE Append(seen, c)
  BY <1>5, RememberedNew DEF Accept, StoreAccept
<1>7. /\ Len(Tail(Append(seen, c))) = m
      /\ \A k \in 1..m : Tail(Append(seen, c))[k] = Append(seen, c)[k + 1]
  BY <1>1, <1>5, HeadTailProperties
<1> HIDE DEF n, m
<1>8. SeenIsLatest'
  <2>1. CASE m + 1 > DedupeCacheSize
    <3>1. m = DedupeCacheSize /\ seen' = Tail(Append(seen, c))
      BY <1>1, <1>2, <1>6, <2>1
    <3>2. ASSUME NEW k \in 1..m
          PROVE  seen'[k] = accepted'[n + 1 - m + k]
      <4>1. CASE k = m
        <5>1. n + 1 - m + k = n + 1 /\ k + 1 = m + 1
          BY <1>1, <4>1
        <5>2. seen'[k] = Append(seen, c)[m + 1]
          BY <1>7, <3>1, <5>1
        <5>3. accepted'[n + 1 - m + k] = c
          BY <1>3, <5>1
        <5> QED
          BY <1>5, <5>2, <5>3
      <4>2. CASE k # m
        <5>1. k + 1 \in 1..m /\ n + 1 - m + k \in 1..n /\ n + 1 - m + k = n - m + (k + 1)
          BY <1>1, <1>2, <4>2
        <5>2. seen'[k] = seen[k + 1]
          BY <1>5, <1>7, <3>1, <5>1
        <5>3. accepted'[n + 1 - m + k] = accepted[n - m + (k + 1)]
          BY <1>3, <5>1
        <5>4. seen[k + 1] = accepted[n - m + (k + 1)]
          BY <1>2, <5>1
        <5> QED
          BY <5>2, <5>3, <5>4
      <4> QED
        BY <4>1, <4>2
    <3>3. Len(seen') = m
      BY <1>7, <3>1
    <3>4. \A k \in 1..Len(seen') : seen'[k] = accepted'[Len(accepted') - Len(seen') + k]
      <4> SUFFICES ASSUME NEW k \in 1..Len(seen')
                   PROVE  seen'[k] = accepted'[Len(accepted') - Len(seen') + k]
        OBVIOUS
      <4>1. k \in 1..m
        BY <3>3
      <4>2. Len(accepted') - Len(seen') + k = n + 1 - m + k
        <5>1. Len(accepted') = n + 1 /\ k \in Int
          BY <1>1, <1>3, <4>1
        <5> QED
          BY <1>1, <3>3, <5>1
      <4> QED
        BY <3>2, <4>1, <4>2
    <3>5. Len(seen') <= Len(accepted') /\ Len(seen') = DedupeCacheSize
      BY <1>1, <1>2, <1>3, <3>1, <3>3
    <3> QED
      BY <1>1, <3>3, <3>4, <3>5 DEF SeenIsLatest
  <2>2. CASE ~ (m + 1 > DedupeCacheSize)
    <3>1. m = n /\ seen' = Append(seen, c)
      BY <1>1, <1>2, <1>6, <2>2
    <3>2. ASSUME NEW k \in 1..m + 1
          PROVE  seen'[k] = accepted'[k]
      <4>1. CASE k = m + 1
        BY <1>3, <1>5, <3>1, <4>1
      <4>2. CASE k # m + 1
        <5>1. k \in 1..m /\ k \in 1..n /\ n - m + k = k
          BY <1>1, <3>1, <4>2
        <5> QED
          BY <1>2, <1>3, <1>5, <3>1, <5>1
      <4> QED
        BY <4>1, <4>2
    <3>3. Len(seen') = m + 1
      BY <1>5, <3>1
    <3>4. m + 1 <= DedupeCacheSize
      BY <1>1, <2>2
    <3>5. \A k \in 1..m + 1 : (n + 1) - (m + 1) + k = k
      BY <1>1, <3>1
    <3> QED
      BY <1>1, <1>3, <3>1, <3>2, <3>3, <3>4, <3>5 DEF SeenIsLatest
  <2> QED
    BY <2>1, <2>2
<1>9. AcceptedOnceInTheWindow'
  <2>1. ASSUME NEW j \in 1..n + 1, NEW k \in 1..n + 1, j < k, accepted'[j] = accepted'[k]
        PROVE  k - j > DedupeCacheSize
    <3>1. j \in 1..n
      BY <1>1, <2>1
    <3>2. CASE k # n + 1
      <4>1. k \in 1..n
        BY <1>1, <3>2
      <4>2. accepted[j] = accepted[k]
        BY <1>3, <2>1, <3>1, <4>1
      <4> QED
        BY <2>1, <3>1, <4>1, <4>2 DEF AcceptedInv, AcceptedOnceInTheWindow, n
    <3>3. CASE k = n + 1
      <4>1. accepted[j] = c
        BY <1>3, <2>1, <3>1, <3>3
      <4>2. ASSUME j > n - m
            PROVE  FALSE
        <5>1. j - (n - m) \in 1..m /\ n - m + (j - (n - m)) = j
          BY <1>1, <3>1, <4>2
        <5>2. seen[j - (n - m)] = accepted[n - m + (j - (n - m))]
          BY <1>2, <5>1
        <5> QED
          BY <1>4, <4>1, <5>1, <5>2
      <4>3. m = DedupeCacheSize
        BY <1>1, <1>2, <3>1, <4>2
      <4> QED
        BY <1>1, <1>2, <3>1, <3>3, <4>2, <4>3
    <3> QED
      BY <3>2, <3>3
  <2> QED
    BY <1>3, <2>1 DEF AcceptedOnceInTheWindow
<1> QED
  BY <1>3, <1>8, <1>9 DEF AcceptedInv

\* An order is accepted at most once among DedupeCacheSize accepted ones of a
\* generation, whatever else the kitchen does in between (kitchen.py:280-321).
THEOREM AcceptedOnlyOnce == MCKitchenSpec => []AcceptedOnceInTheWindow
<1>1. MCKitchenInit => AcceptedInv
  <2> SUFFICES ASSUME MCKitchenInit
               PROVE  AcceptedInv
    OBVIOUS
  <2>1. accepted = << >> /\ seen = << >>
    BY DEF MCKitchenInit, Init, StoreInit
  <2>2. accepted \in Seq(ClientOrders) /\ Len(accepted) = 0 /\ Len(seen) = 0
    BY <2>1
  <2> QED
    BY <2>2, DedupeAssumption DEF AcceptedInv, SeenIsLatest, AcceptedOnceInTheWindow
<1>2. ASSUME StoreTypeOK, AcceptedInv, [MCKitchenNext]_<<vars, accepted>>
      PROVE  AcceptedInv'
  <2>1. ASSUME UNCHANGED <<epoch, seen>>, accepted' = accepted
        PROVE  AcceptedInv'
    BY <1>2, <2>1 DEF AcceptedInv, SeenIsLatest, AcceptedOnceInTheWindow
  <2>2. ASSUME seen' = << >>, accepted' = << >>
        PROVE  AcceptedInv'
    <3>1. accepted' \in Seq(ClientOrders) /\ Len(accepted') = 0 /\ Len(seen') = 0
      BY <2>2
    <3> QED
      BY <3>1, DedupeAssumption DEF AcceptedInv, SeenIsLatest, AcceptedOnceInTheWindow
  <2>3. CASE UNCHANGED <<vars, accepted>>
    BY <2>1, <2>3 DEF vars, storeVars
  <2>4. CASE \E t \in Tables, c \in ClientOrders :
                 Accept(t, c) /\ accepted' = Append(accepted, c)
    BY <1>2, <2>4, AcceptKeepsAcceptedInv
  <2>5. CASE /\ \/ UNCHANGED <<epoch, seen>>
                \/ epoch' # epoch /\ seen' = << >>
             /\ accepted' = IF epoch' = epoch THEN accepted ELSE << >>
    BY <2>1, <2>2, <2>5
  <2> QED
    BY <1>2, <2>3, <2>4, <2>5, OthersForget DEF MCKitchenNext
<1>3. MCKitchenSpec => []StoreTypeOK
  <2>1. MCKitchenInit => StoreTypeOK
    BY InitIsStoreInit, StoreInitTyped DEF MCKitchenInit
  <2>2. StoreTypeOK /\ [MCKitchenNext]_<<vars, accepted>> => StoreTypeOK'
    BY HistoryIsStep, StepIsStoreStep, StoreNextTyped
  <2> QED
    BY <2>1, <2>2, PTL DEF MCKitchenSpec
<1>4. AcceptedInv => AcceptedOnceInTheWindow
  BY DEF AcceptedInv
<1> QED
  BY <1>1, <1>2, <1>3, <1>4, PTL DEF MCKitchenSpec
=============================================================================
