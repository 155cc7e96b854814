----------------------------- MODULE WireProofs -----------------------------
(***************************************************************************)
(* Theorems about Wire, for every number of windows, tables, orders and    *)
(* copies, and for names of any length: what is published reaches those it *)
(* is for and nobody else, and a dish that cooks is never refused.         *)
(***************************************************************************)
EXTENDS Wire, FiniteSetTheorems, SequenceTheorems, WellFoundedInduction, TLAPS

-----------------------------------------------------------------------------
(* Who hears and takes what *)

LEMMA OrderTopicsAreHeard ==
    ASSUME NEW t
    PROVE  KitchenHears(OrderTopic(t)) /\ KitchenTakes(OrderTopic(t)) = "order"
<1> DEFINE filter == <<Prefix, Word("table"), Plus, Word("order")>>
<1>1. Matches(filter, OrderTopic(t))
  BY DEF Matches, OrderTopic
<1>2. KitchenHears(OrderTopic(t))
  <2>1. filter \in INBOUND_SUBSCRIPTIONS
    BY DEF INBOUND_SUBSCRIPTIONS
  <2> HIDE DEF filter
  <2> QED
    BY <1>1, <2>1 DEF KitchenHears
<1>3. TableIdsFrom(OrderTopic(t)) = {t}
  BY DEF TableIdsFrom, OrderTopic, Prefix, Word, Number
<1>4. OrderTopic(t) # KITCHEN_RESET
  <2>1. Len(OrderTopic(t)) = 4 /\ Len(KITCHEN_RESET) = 3
    BY DEF OrderTopic, KITCHEN_RESET
  <2> QED
    BY <2>1
<1>5. ~ IsOwnOutbound(OrderTopic(t))
  <2>1. Word("order") # Word("state") /\ Word("table") # Word("client")
    BY DEF Word
  <2>2. Word("order") # Plus /\ Word("state") # Plus /\ Word("client") # Plus
    BY DEF Plus, Word
  <2>3. OrderTopic(t)[2] = Word("table") /\ OrderTopic(t)[4] = Word("order")
    BY DEF OrderTopic
  <2>4. ~ Matches(<<Prefix, Word("table"), Plus, Word("state")>>, OrderTopic(t))
    BY <2>1, <2>2, <2>3 DEF Matches
  <2>5. ~ Matches(<<Prefix, Word("client"), Plus, Word("err")>>, OrderTopic(t))
    BY <2>1, <2>2, <2>3 DEF Matches
  <2>6. OrderTopic(t) # KITCHEN_STATUS
    BY DEF OrderTopic, KITCHEN_STATUS
  <2> QED
    BY <2>4, <2>5, <2>6 DEF IsOwnOutbound
<1> QED
  BY <1>2, <1>3, <1>4, <1>5 DEF KitchenTakes

LEMMA TableStatesAreHeard ==
    ASSUME NEW t
    PROVE  /\ Receivers(TableStateTopic(t), "table-state") = Windows
           /\ KitchenTakes(TableStateTopic(t)) = "own"
<1> DEFINE filter == <<Prefix, Word("table"), Plus, Word("state")>>
           topic == TableStateTopic(t)
<1>1. Matches(filter, topic)
  BY DEF Matches, TableStateTopic
<1>2. \A w : WindowHears(w, topic) /\ WindowTakes(w, topic) = "table-state"
  <2>1. \A w : filter \in WindowSubscriptions(w)
    BY DEF WindowSubscriptions
  <2>2. IsTableStateTopic(topic)
    BY <1>1 DEF IsTableStateTopic
  <2>3. topic # KITCHEN_STATUS
    BY DEF TableStateTopic, KITCHEN_STATUS
  <2>4. \A w : ~ IsClientErrorTopic(topic, w)
    <3>1. topic[2] = Word("table")
      BY DEF TableStateTopic
    <3>2. \A w : ClientErrorTopic(w)[2] = Word("client")
      BY DEF ClientErrorTopic
    <3>3. Word("table") # Word("client")
      BY DEF Word
    <3> QED
      BY <3>1, <3>2, <3>3 DEF IsClientErrorTopic
  <2> HIDE DEF filter, topic
  <2> QED
    BY <1>1, <2>1, <2>2, <2>3, <2>4 DEF WindowHears, WindowTakes
<1>3. topic # KITCHEN_RESET
  <2>1. Len(topic) = 4 /\ Len(KITCHEN_RESET) = 3
    BY DEF TableStateTopic, KITCHEN_RESET
  <2> QED
    BY <2>1
<1>4. TableIdsFrom(topic) = {}
  BY DEF TableIdsFrom, TableStateTopic, Prefix, Word, Number
<1>5. IsOwnOutbound(topic)
  BY <1>1 DEF IsOwnOutbound
<1> HIDE DEF topic
<1>6. KitchenTakes(topic) = "own"
  BY <1>3, <1>4, <1>5 DEF KitchenTakes
<1> QED
  BY <1>2, <1>6 DEF Receivers, topic

LEMMA RefusalsAreHeard ==
    ASSUME NEW c, c # Wildcard
    PROVE  /\ {w \in Windows : WindowHears(w, ClientErrorTopic(c))} = {c} \cap Windows
           /\ c \in Windows => Receivers(ClientErrorTopic(c), "rejection") = {c}
           /\ KitchenTakes(ClientErrorTopic(c)) = "own"
<1> DEFINE topic == ClientErrorTopic(c)
<1>1. Len(topic) = 4 /\ Len(KITCHEN_STATUS) = 3 /\ Len(KITCHEN_RESET) = 3
  BY DEF ClientErrorTopic, KITCHEN_STATUS, KITCHEN_RESET
<1>2. topic # KITCHEN_STATUS /\ topic # KITCHEN_RESET /\ ~ Matches(KITCHEN_STATUS, topic)
  BY <1>1 DEF Matches
<1>3. topic[2] = Word("client") /\ topic[3] = Word(c)
  BY DEF ClientErrorTopic
<1>4. ~ Matches(<<Prefix, Word("table"), Plus, Word("state")>>, topic)
  <2>1. Word("client") # Word("table") /\ Word("table") # Plus
    BY DEF Word, Plus
  <2> QED
    BY <1>3, <2>1 DEF Matches
<1>5. ASSUME NEW w \in Windows
      PROVE  Matches(ClientErrorTopic(w), topic) <=> w = c
  <2>1. Word(w) \in {Plus, Word(c)} <=> w = c
    BY WireAssumption DEF Word, Plus, Wildcard
  <2>2. Matches(ClientErrorTopic(w), topic) => Word(w) \in {Plus, Word(c)}
    BY <1>3 DEF Matches, ClientErrorTopic
  <2>3. w = c => Matches(ClientErrorTopic(w), topic)
    BY DEF Matches, ClientErrorTopic
  <2> QED
    BY <2>1, <2>2, <2>3
<1>6. \A w \in Windows : WindowHears(w, topic) <=> w = c
  BY <1>2, <1>4, <1>5 DEF WindowHears, WindowSubscriptions
<1>7. WindowTakes(c, topic) = "rejection"
  BY <1>2, <1>4 DEF WindowTakes, IsTableStateTopic, IsClientErrorTopic
<1>8. TableIdsFrom(topic) = {}
  <2>1. Word("client") # Word("table")
    BY DEF Word
  <2> QED
    BY <1>3, <2>1 DEF TableIdsFrom
<1>9. IsOwnOutbound(topic)
  BY DEF IsOwnOutbound, Matches, ClientErrorTopic
<1> HIDE DEF topic
<1>10. KitchenTakes(topic) = "own"
  BY <1>2, <1>8, <1>9 DEF KitchenTakes
<1>11. c \in Windows => Receivers(topic, "rejection") = {c}
  BY <1>6, <1>7 DEF Receivers
<1> QED
  BY <1>6, <1>10, <1>11 DEF topic

-----------------------------------------------------------------------------
(* The orders and their types *)

Fates == RejectionReasons \cup {"accepted", "duplicate", "dropped"}

\* Orders over any topics and payloads.
OrderRecords(T, P) ==
    [author : Windows \cup {NoOne}, topic : T, payload : P,
     fates : Seq(Fates), told : BOOLEAN, lost : BOOLEAN]

OrdersTyped == \E T, P : orders \in Seq(OrderRecords(T, P))

RefusalsTyped == \E S : refusals \in Seq(S)

LEMMA OrdersAre ==
    ASSUME OrdersTyped
    PROVE  /\ Len(orders) \in Nat /\ DOMAIN orders = 1..Len(orders)
           /\ \A k \in DOMAIN orders :
                  /\ orders[k].fates \in Seq(Fates)
                  /\ Len(orders[k].fates) \in Nat
                  /\ DOMAIN orders[k].fates = 1..Len(orders[k].fates)
<1>1. PICK T, P : orders \in Seq(OrderRecords(T, P))
  BY DEF OrdersTyped
<1>2. Len(orders) \in Nat /\ DOMAIN orders = 1..Len(orders)
  BY <1>1, LenProperties
<1>3. \A k \in DOMAIN orders : orders[k] \in OrderRecords(T, P)
  BY <1>1, <1>2, ElementOfSeq
<1>4. \A k \in DOMAIN orders : orders[k].fates \in Seq(Fates)
  BY <1>3 DEF OrderRecords
<1> QED
  BY <1>2, <1>4, LenProperties

\* An order is added.
LEMMA Publishing ==
    ASSUME OrdersTyped, NEW author \in Windows \cup {NoOne}, NEW topic, NEW payload,
           orders' = Append(orders, Order(author, topic, payload))
    PROVE  /\ OrdersTyped'
           /\ Len(orders') = Len(orders) + 1
           /\ DOMAIN orders' = 1..(Len(orders) + 1)
           /\ \A k \in DOMAIN orders : orders'[k] = orders[k]
           /\ orders'[Len(orders) + 1] = Order(author, topic, payload)
<1>1. PICK T, P : orders \in Seq(OrderRecords(T, P))
  BY DEF OrdersTyped
<1> DEFINE Records == OrderRecords(T \cup {topic}, P \cup {payload})
           o == Order(author, topic, payload)
<1>2. orders \in Seq(Records)
  <2>1. OrderRecords(T, P) \subseteq Records
    BY DEF OrderRecords
  <2> QED
    BY <1>1, <2>1, SeqMonotonic
<1>3. o \in Records
  <2>1. << >> \in Seq(Fates)
    BY EmptySeq
  <2> QED
    BY <2>1 DEF Order, OrderRecords
<1> HIDE DEF Records, o
<1>4. /\ Append(orders, o) \in Seq(Records)
      /\ Len(Append(orders, o)) = Len(orders) + 1
      /\ \A k \in 1..Len(orders) : Append(orders, o)[k] = orders[k]
      /\ Append(orders, o)[Len(orders) + 1] = o
  BY <1>2, <1>3, AppendProperties
<1>5. OrdersTyped'
  BY <1>4 DEF OrdersTyped, Records, o
<1>6. DOMAIN orders' = 1..(Len(orders) + 1)
  BY <1>4, LenProperties DEF o
<1>7. DOMAIN orders = 1..Len(orders)
  BY OrdersAre
<1> QED
  BY <1>4, <1>5, <1>6, <1>7 DEF o

\* An order keeps who published what where.
SameOrder(k) ==
    /\ orders'[k].author = orders[k].author
    /\ orders'[k].topic = orders[k].topic
    /\ orders'[k].payload = orders[k].payload

\* Something becomes of an order.
LEMMA Revising ==
    ASSUME OrdersTyped, NEW k \in DOMAIN orders,
           NEW fates \in Seq(Fates), NEW told \in BOOLEAN, NEW lost \in BOOLEAN,
           orders' = [orders EXCEPT ![k] =
                         [@ EXCEPT !.fates = fates, !.told = told, !.lost = lost]]
    PROVE  /\ OrdersTyped'
           /\ DOMAIN orders' = DOMAIN orders
           /\ \A j \in DOMAIN orders : SameOrder(j) /\ (j # k => orders'[j] = orders[j])
           /\ orders'[k].fates = fates
<1>1. PICK T, P : orders \in Seq(OrderRecords(T, P))
  BY DEF OrdersTyped
<1>2. /\ Len(orders) \in Nat /\ orders \in [1..Len(orders) -> OrderRecords(T, P)]
      /\ DOMAIN orders = 1..Len(orders)
  BY <1>1, LenProperties
<1> DEFINE o == [orders[k] EXCEPT !.fates = fates, !.told = told, !.lost = lost]
<1>3. orders[k] \in OrderRecords(T, P)
  BY <1>2
<1>4. /\ o \in OrderRecords(T, P) /\ o.fates = fates
      /\ o.author = orders[k].author /\ o.topic = orders[k].topic
      /\ o.payload = orders[k].payload
  BY <1>3 DEF OrderRecords
<1>5. orders' = [orders EXCEPT ![k] = o]
  OBVIOUS
<1> HIDE DEF o
<1>6. orders' \in [1..Len(orders) -> OrderRecords(T, P)]
  BY <1>2, <1>4, <1>5
<1>7. orders' \in Seq(OrderRecords(T, P))
  BY <1>2, <1>6
<1> QED
  BY <1>2, <1>4, <1>5, <1>6, <1>7 DEF OrdersTyped, SameOrder

LEMMA Deciding ==
    ASSUME OrdersTyped, NEW k \in DOMAIN orders, NEW fate \in Fates, Decide(k, fate)
    PROVE  /\ OrdersTyped'
           /\ DOMAIN orders' = DOMAIN orders
           /\ \A j \in DOMAIN orders : SameOrder(j) /\ (j # k => orders'[j] = orders[j])
           /\ orders'[k].fates = Append(orders[k].fates, fate)
<1>1. PICK T, P : orders \in Seq(OrderRecords(T, P))
  BY DEF OrdersTyped
<1>2. /\ Len(orders) \in Nat /\ orders \in [1..Len(orders) -> OrderRecords(T, P)]
      /\ DOMAIN orders = 1..Len(orders)
  BY <1>1, LenProperties
<1>3. orders[k] \in OrderRecords(T, P)
  BY <1>2
<1>4. /\ orders[k].told \in BOOLEAN /\ orders[k].lost \in BOOLEAN
      /\ Append(orders[k].fates, fate) \in Seq(Fates)
  BY <1>3, AppendProperties DEF OrderRecords
<1>5. orders' = [orders EXCEPT ![k] =
                    [@ EXCEPT !.fates = Append(orders[k].fates, fate),
                              !.told = orders[k].told, !.lost = orders[k].lost]]
  BY <1>2, <1>3 DEF Decide, OrderRecords
<1> QED
  BY <1>4, <1>5, Revising

\* Nothing but the marks of one order changes.
LEMMA Marking ==
    ASSUME OrdersTyped, NEW k \in DOMAIN orders, NEW b \in BOOLEAN,
           \/ orders' = [orders EXCEPT ![k].lost = b]
           \/ orders' = [orders EXCEPT ![k].told = b]
    PROVE  /\ OrdersTyped'
           /\ DOMAIN orders' = DOMAIN orders
           /\ \A j \in DOMAIN orders : SameOrder(j) /\ orders'[j].fates = orders[j].fates
<1>1. PICK T, P : orders \in Seq(OrderRecords(T, P))
  BY DEF OrdersTyped
<1>2. /\ Len(orders) \in Nat /\ orders \in [1..Len(orders) -> OrderRecords(T, P)]
      /\ DOMAIN orders = 1..Len(orders)
  BY <1>1, LenProperties
<1>3. orders[k] \in OrderRecords(T, P)
  BY <1>2
<1>4. orders[k].told \in BOOLEAN /\ orders[k].lost \in BOOLEAN /\ orders[k].fates \in Seq(Fates)
  BY <1>3 DEF OrderRecords
<1>5. PICK told \in BOOLEAN, lost \in BOOLEAN :
          orders' = [orders EXCEPT ![k] =
                        [@ EXCEPT !.fates = orders[k].fates, !.told = told, !.lost = lost]]
  <2>1. orders' = [orders EXCEPT ![k] =
                      [@ EXCEPT !.fates = orders[k].fates,
                                !.told = orders[k].told, !.lost = b]]
        \/ orders' = [orders EXCEPT ![k] =
                      [@ EXCEPT !.fates = orders[k].fates,
                                !.told = b, !.lost = orders[k].lost]]
    BY <1>2, <1>3 DEF OrderRecords
  <2> QED
    BY <1>4, <2>1
<1>6. /\ OrdersTyped'
      /\ DOMAIN orders' = DOMAIN orders
      /\ \A j \in DOMAIN orders : SameOrder(j) /\ (j # k => orders'[j] = orders[j])
      /\ orders'[k].fates = orders[k].fates
  BY <1>4, <1>5, Revising
<1> QED
  BY <1>6

-----------------------------------------------------------------------------
(* The invariant *)

\* Complete payloads have ids of their own.
OrdersAreNumbered ==
    \A k \in DOMAIN orders :
        orders[k].payload.shape = "complete" => orders[k].payload.clientOrderId = k

\* Windows publish to the topics of tables.
OrdersAreAddressed ==
    \A k \in DOMAIN orders :
        FromWindow(k) => \E t \in 1..(TableCount + 1) : orders[k].topic = OrderTopic(t)

\* What was accepted would be again, and is remembered.
AcceptedAreRemembered ==
    \A k \in DOMAIN orders : Accepted(k) =>
        /\ KitchenTakes(orders[k].topic) = "order"
        /\ Welcome(k)
        /\ IsDuplicate(k)

RefusalsAreAddressed ==
    \A n \in DOMAIN refusals :
        LET payload == orders[refusals[n].of].payload
        IN  /\ refusals[n].of \in DOMAIN orders
            /\ Addressable(payload.clientId)
            /\ refusals[n].topic = ClientErrorTopic(payload.clientId)

WireInv ==
    /\ OrdersTyped /\ RefusalsTyped
    /\ OrdersAreNumbered /\ OrdersAreAddressed
    /\ AcceptedAreRemembered
    /\ RefusalsAreAddressed
    /\ CookingIsNeverRefused

LEMMA RefusalsAre ==
    ASSUME RefusalsTyped
    PROVE  /\ Len(refusals) \in Nat /\ DOMAIN refusals = 1..Len(refusals)
           /\ refusals # << >> =>
                  /\ 1 \in DOMAIN refusals /\ Head(refusals) = refusals[1]
                  /\ \E S : Tail(refusals) \in Seq(S)
                  /\ \A n \in DOMAIN Tail(refusals) :
                         n + 1 \in DOMAIN refusals /\ Tail(refusals)[n] = refusals[n + 1]
<1>1. PICK S : refusals \in Seq(S)
  BY DEF RefusalsTyped
<1>2. Len(refusals) \in Nat /\ DOMAIN refusals = 1..Len(refusals)
  BY <1>1, LenProperties
<1>3. ASSUME refusals # << >>
      PROVE  /\ 1 \in DOMAIN refusals /\ Head(refusals) = refusals[1]
             /\ Tail(refusals) \in Seq(S)
             /\ \A n \in DOMAIN Tail(refusals) :
                    n + 1 \in DOMAIN refusals /\ Tail(refusals)[n] = refusals[n + 1]
  <2>1. /\ Tail(refusals) \in Seq(S) /\ Len(Tail(refusals)) = Len(refusals) - 1
        /\ \A n \in 1..Len(Tail(refusals)) : Tail(refusals)[n] = refusals[n + 1]
    BY <1>1, <1>3, HeadTailProperties
  <2>2. DOMAIN Tail(refusals) = 1..Len(Tail(refusals))
    BY <2>1, LenProperties
  <2>3. Len(refusals) # 0
    BY <1>1, <1>3, EmptySeq
  <2> QED
    BY <1>1, <1>2, <2>1, <2>2, <2>3
<1> QED
  BY <1>2, <1>3

\* What an order's acceptance and duplication depend on.
LEMMA SameJudgement ==
    ASSUME NEW k, SameOrder(k)
    PROVE  Welcome(k)' = Welcome(k)
BY DEF SameOrder, Welcome, NamesItsTable

-----------------------------------------------------------------------------
(* Steps *)

LEMMA PublishingKeepsInv ==
    ASSUME WireInv, UNCHANGED <<seen, refusals>>,
           NEW author \in Windows \cup {NoOne}, NEW topic, NEW payload,
           orders' = Append(orders, Order(author, topic, payload)),
           payload.shape = "complete" => payload.clientOrderId = Len(orders) + 1,
           author # NoOne => \E t \in 1..(TableCount + 1) : topic = OrderTopic(t)
    PROVE  WireInv'
<1> DEFINE new == Len(orders) + 1
<1>1. /\ OrdersTyped'
      /\ DOMAIN orders' = 1..new
      /\ \A k \in DOMAIN orders : orders'[k] = orders[k]
      /\ orders'[new] = Order(author, topic, payload)
  BY Publishing DEF WireInv
<1>2. DOMAIN orders = 1..Len(orders) /\ Len(orders) \in Nat
  BY OrdersAre DEF WireInv
<1>3. \A k \in DOMAIN orders' : k \in DOMAIN orders \/ k = new
  BY <1>1, <1>2
<1>4. DOMAIN orders \subseteq DOMAIN orders'
  BY <1>1, <1>2
<1>5. /\ orders'[new].author = author /\ orders'[new].topic = topic
      /\ orders'[new].payload = payload /\ orders'[new].fates = << >>
  BY <1>1 DEF Order
<1> HIDE DEF new
<1>6. DOMAIN orders'[new].fates = {}
  <2>1. << >> \in Seq({}) /\ Len(<< >>) = 0
    BY EmptySeq
  <2> QED
    BY <1>5, <2>1
<1>7. OrdersAreNumbered'
  BY <1>1, <1>3, <1>5 DEF WireInv, OrdersAreNumbered, new
<1>8. OrdersAreAddressed'
  BY <1>1, <1>3, <1>5 DEF WireInv, OrdersAreAddressed, FromWindow
<1>9. AcceptedAreRemembered'
  <2>1. ASSUME NEW k \in DOMAIN orders', Accepted(k)'
        PROVE  k \in DOMAIN orders
    <3>1. DOMAIN orders'[k].fates # {}
      BY <2>1 DEF Accepted, Range
    <3> QED
      BY <1>3, <1>6, <3>1
  <2>2. \A k \in DOMAIN orders : SameOrder(k) /\ Accepted(k)' = Accepted(k)
    BY <1>1 DEF SameOrder, Accepted
  <2>3. \A k \in DOMAIN orders : Welcome(k)' = Welcome(k)
    BY <2>2, SameJudgement
  <2>4. \A k \in DOMAIN orders : IsDuplicate(k)' = IsDuplicate(k)
    BY <1>1 DEF IsDuplicate
  <2> QED
    BY <1>1, <2>1, <2>2, <2>3, <2>4 DEF WireInv, AcceptedAreRemembered
<1>10. RefusalsAreAddressed'
  BY <1>1, <1>4 DEF WireInv, RefusalsAreAddressed
<1>11. CookingIsNeverRefused'
  BY <1>1, <1>3, <1>6 DEF WireInv, CookingIsNeverRefused
<1> QED
  BY <1>1, <1>7, <1>8, <1>9, <1>10, <1>11 DEF WireInv, RefusalsTyped

\* A decision is the right one for an order that was accepted, or accepts it.
LEMMA DecidingKeepsInv ==
    ASSUME WireInv, NEW k \in DOMAIN orders, NEW fate \in Fates, Decide(k, fate),
           seen \subseteq seen',
           Accepted(k) => fate = "duplicate",
           fate = "accepted" =>
               /\ KitchenTakes(orders[k].topic) = "order" /\ Welcome(k)
               /\ orders[k].payload.clientOrderId \in seen',
           \/ refusals' = refusals
           \/ \E refusal :
                  /\ refusals' = Append(refusals, refusal)
                  /\ refusal.of = k
                  /\ Addressable(orders[k].payload.clientId)
                  /\ refusal.topic = ClientErrorTopic(orders[k].payload.clientId)
    PROVE  WireInv'
<1>1. /\ OrdersTyped'
      /\ DOMAIN orders' = DOMAIN orders
      /\ \A j \in DOMAIN orders : SameOrder(j) /\ (j # k => orders'[j] = orders[j])
      /\ orders'[k].fates = Append(orders[k].fates, fate)
  BY Deciding DEF WireInv
<1> DEFINE f == orders[k].fates
<1>2. f \in Seq(Fates) /\ Len(f) \in Nat /\ DOMAIN f = 1..Len(f)
  BY OrdersAre DEF WireInv
<1>3. /\ orders'[k].fates \in Seq(Fates)
      /\ Len(orders'[k].fates) = Len(f) + 1
      /\ \A i \in 1..Len(f) : orders'[k].fates[i] = f[i]
      /\ orders'[k].fates[Len(f) + 1] = fate
  BY <1>1, <1>2, AppendProperties
<1>4. DOMAIN orders'[k].fates = 1..(Len(f) + 1)
  BY <1>3, LenProperties
<1>5. \A i \in DOMAIN orders'[k].fates :
          \/ i \in DOMAIN f /\ orders'[k].fates[i] = f[i]
          \/ i = Len(f) + 1 /\ orders'[k].fates[i] = fate
  BY <1>2, <1>3, <1>4
<1>6. OrdersAreNumbered' /\ OrdersAreAddressed'
  BY <1>1 DEF WireInv, OrdersAreNumbered, OrdersAreAddressed, FromWindow, SameOrder
<1>7. AcceptedAreRemembered'
  <2>1. \A j \in DOMAIN orders : Welcome(j)' = Welcome(j)
    BY <1>1, SameJudgement
  <2>2. \A j \in DOMAIN orders : IsDuplicate(j) => IsDuplicate(j)'
    BY <1>1 DEF IsDuplicate, SameOrder
  <2>3. \A j \in DOMAIN orders : KitchenTakes(orders'[j].topic) = KitchenTakes(orders[j].topic)
    BY <1>1 DEF SameOrder
  <2>4. \A j \in DOMAIN orders : j # k => Accepted(j)' = Accepted(j)
    BY <1>1 DEF Accepted
  <2>5. Accepted(k)' => Accepted(k) \/ fate = "accepted"
    BY <1>5 DEF Accepted, Range
  <2>6. fate = "accepted" => IsDuplicate(k)'
    BY <1>1 DEF IsDuplicate, SameOrder
  <2> QED
    BY <1>1, <2>1, <2>2, <2>3, <2>4, <2>5, <2>6 DEF WireInv, AcceptedAreRemembered
<1>8. RefusalsTyped' /\ RefusalsAreAddressed'
  <2>1. CASE refusals' = refusals
    BY <1>1, <2>1 DEF WireInv, RefusalsTyped, RefusalsAreAddressed, SameOrder
  <2>2. ASSUME NEW refusal, refusals' = Append(refusals, refusal), refusal.of = k,
               Addressable(orders[k].payload.clientId),
               refusal.topic = ClientErrorTopic(orders[k].payload.clientId)
        PROVE  RefusalsTyped' /\ RefusalsAreAddressed'
    <3>1. PICK S : refusals \in Seq(S)
      BY DEF WireInv, RefusalsTyped
    <3>2. refusals \in Seq(S \cup {refusal})
      BY <3>1, SeqMonotonic
    <3>3. /\ refusals' \in Seq(S \cup {refusal})
          /\ Len(refusals') = Len(refusals) + 1
          /\ \A n \in 1..Len(refusals) : refusals'[n] = refusals[n]
          /\ refusals'[Len(refusals) + 1] = refusal
      BY <2>2, <3>2, AppendProperties
    <3>4. DOMAIN refusals' = 1..(Len(refusals) + 1)
      BY <3>3, LenProperties
    <3>5. Len(refusals) \in Nat /\ DOMAIN refusals = 1..Len(refusals)
      BY RefusalsAre DEF WireInv
    <3>6. \A n \in DOMAIN refusals' :
              \/ n \in DOMAIN refusals /\ refusals'[n] = refusals[n]
              \/ refusals'[n] = refusal
      BY <3>3, <3>4, <3>5
    <3> QED
      BY <1>1, <2>2, <3>3, <3>6 DEF WireInv, RefusalsTyped, RefusalsAreAddressed, SameOrder
  <2> QED
    BY <2>1, <2>2
<1>9. CookingIsNeverRefused'
  <2> SUFFICES ASSUME NEW j \in DOMAIN orders',
                      NEW m \in DOMAIN orders'[j].fates, NEW n \in DOMAIN orders'[j].fates,
                      m < n, orders'[j].fates[m] = "accepted"
               PROVE  orders'[j].fates[n] = "duplicate"
    BY DEF CookingIsNeverRefused
  <2>1. CASE j # k
    BY <1>1, <2>1 DEF WireInv, CookingIsNeverRefused
  <2>2. CASE j = k
    <3>1. m \in DOMAIN f /\ f[m] = "accepted"
      BY <1>2, <1>4, <1>5, <2>2
    <3>2. Accepted(k)
      BY <3>1 DEF Accepted, Range
    <3> QED
      BY <1>1, <1>5, <2>2, <3>1, <3>2 DEF WireInv, CookingIsNeverRefused
  <2> QED
    BY <2>1, <2>2
<1> QED
  BY <1>1, <1>6, <1>7, <1>8, <1>9 DEF WireInv

LEMMA MarkingKeepsInv ==
    ASSUME WireInv, UNCHANGED seen, refusals # << >>, refusals' = Tail(refusals),
           \/ UNCHANGED orders
           \/ \E k \in DOMAIN orders, b \in BOOLEAN :
                  \/ orders' = [orders EXCEPT ![k].lost = b]
                  \/ orders' = [orders EXCEPT ![k].told = b]
    PROVE  WireInv'
<1>1. /\ OrdersTyped'
      /\ DOMAIN orders' = DOMAIN orders
      /\ \A j \in DOMAIN orders : SameOrder(j) /\ orders'[j].fates = orders[j].fates
  <2>1. CASE UNCHANGED orders
    BY <2>1 DEF WireInv, OrdersTyped, SameOrder
  <2>2. ASSUME NEW k \in DOMAIN orders, NEW b \in BOOLEAN,
               \/ orders' = [orders EXCEPT ![k].lost = b]
               \/ orders' = [orders EXCEPT ![k].told = b]
        PROVE  /\ OrdersTyped'
               /\ DOMAIN orders' = DOMAIN orders
               /\ \A j \in DOMAIN orders : SameOrder(j) /\ orders'[j].fates = orders[j].fates
    BY <2>2, Marking DEF WireInv
  <2> QED
    BY <2>1, <2>2
<1>2. /\ RefusalsTyped'
      /\ \A n \in DOMAIN refusals' :
             n + 1 \in DOMAIN refusals /\ refusals'[n] = refusals[n + 1]
  BY RefusalsAre DEF WireInv, RefusalsTyped
<1>3. OrdersAreNumbered' /\ OrdersAreAddressed'
  BY <1>1 DEF WireInv, OrdersAreNumbered, OrdersAreAddressed, FromWindow, SameOrder
<1>4. AcceptedAreRemembered'
  <2>1. \A j \in DOMAIN orders : Welcome(j)' = Welcome(j)
    BY <1>1, SameJudgement
  <2>2. \A j \in DOMAIN orders : IsDuplicate(j)' = IsDuplicate(j) /\ Accepted(j)' = Accepted(j)
    BY <1>1 DEF IsDuplicate, Accepted, SameOrder
  <2>3. \A j \in DOMAIN orders : KitchenTakes(orders'[j].topic) = KitchenTakes(orders[j].topic)
    BY <1>1 DEF SameOrder
  <2> QED
    BY <1>1, <2>1, <2>2, <2>3 DEF WireInv, AcceptedAreRemembered
<1>5. RefusalsAreAddressed'
  BY <1>1, <1>2 DEF WireInv, RefusalsAreAddressed, SameOrder
<1>6. CookingIsNeverRefused'
  BY <1>1 DEF WireInv, CookingIsNeverRefused
<1> QED
  BY <1>1, <1>2, <1>3, <1>4, <1>5, <1>6 DEF WireInv

LEMMA WireInitEstablishesInv == WireInit => WireInv
<1> SUFFICES ASSUME WireInit
             PROVE  WireInv
  OBVIOUS
<1>1. orders = << >> /\ refusals = << >>
  BY DEF WireInit
<1>2. DOMAIN orders = {} /\ DOMAIN refusals = {}
  <2>1. << >> \in Seq({}) /\ Len(<< >>) = 0
    BY EmptySeq
  <2> QED
    BY <1>1, <2>1
<1>3. OrdersTyped /\ RefusalsTyped
  <2>1. << >> \in Seq(OrderRecords({}, {})) /\ << >> \in Seq({})
    BY EmptySeq
  <2> QED
    BY <1>1, <2>1 DEF OrdersTyped, RefusalsTyped
<1> QED
  BY <1>2, <1>3 DEF WireInv, OrdersAreNumbered, OrdersAreAddressed, AcceptedAreRemembered,
                    RefusalsAreAddressed, CookingIsNeverRefused

LEMMA PublishOrderKeepsInv ==
    ASSUME WireInv, NEW w \in Windows, NEW t \in 1..(TableCount + 1), NEW name,
           PublishOrder(w, t, name)
    PROVE  WireInv'
<1> DEFINE payload == Payload("complete", Len(orders) + 1, w, t, Trimmed(name))
<1>1. orders' = Append(orders, Order(w, OrderTopic(t), payload))
      /\ UNCHANGED <<seen, refusals>>
  BY DEF PublishOrder
<1>2. payload.clientOrderId = Len(orders) + 1 /\ payload.clientId = w
  BY DEF Payload
<1> HIDE DEF payload
<1> QED
  BY <1>1, <1>2, PublishingKeepsInv

LEMMA PublishForeignKeepsInv ==
    ASSUME WireInv, NEW level, NEW payload \in ForeignPayloads, PublishForeign(level, payload)
    PROVE  WireInv'
<1>1. /\ orders' = Append(orders,
             Order(NoOne, <<Prefix, Word("table"), level, Word("order")>>, payload))
      /\ UNCHANGED <<seen, refusals>>
  BY DEF PublishForeign
<1>2. payload.shape = "complete" => payload.clientOrderId = Len(orders) + 1
  BY DEF ForeignPayloads, Payload
<1> QED
  BY <1>1, <1>2, PublishingKeepsInv

LEMMA DecisionsKeepInv ==
    ASSUME WireInv, NEW k \in DOMAIN orders, Drop(k) \/ Refuse(k) \/ Accept(k) \/ Ignore(k)
    PROVE  WireInv'
<1>1. Accepted(k) => KitchenTakes(orders[k].topic) = "order" /\ Welcome(k) /\ IsDuplicate(k)
  BY DEF WireInv, AcceptedAreRemembered
<1>2. CASE Drop(k)
  <2>1. Decide(k, "dropped") /\ UNCHANGED <<seen, refusals>> /\ ~ Accepted(k)
    BY <1>1, <1>2 DEF Drop
  <2>2. "dropped" \in Fates
    BY DEF Fates
  <2> QED
    BY <2>1, <2>2, DecidingKeepsInv
<1>3. CASE Refuse(k)
  <2>1. PICK reason \in ReasonsToRefuse(k) :
            PublishRejection(k, reason) /\ Decide(k, reason) /\ UNCHANGED seen
    BY <1>3 DEF Refuse
  <2>2. reason \in RejectionReasons
    BY DEF ReasonsToRefuse, RejectionReasons
  <2>3. reason \in Fates /\ reason # "accepted"
    BY <2>2 DEF Fates, RejectionReasons
  <2>4. ~ Accepted(k)
    BY <1>1 DEF Welcome, ReasonsToRefuse
  <2>5. \/ refusals' = refusals
        \/ \E refusal :
               /\ refusals' = Append(refusals, refusal)
               /\ refusal.of = k
               /\ Addressable(orders[k].payload.clientId)
               /\ refusal.topic = ClientErrorTopic(orders[k].payload.clientId)
    <3> DEFINE refusal == [topic |-> ClientErrorTopic(orders[k].payload.clientId),
                           body |-> Rejection(k, reason), of |-> k]
    <3>1. refusal.of = k /\ refusal.topic = ClientErrorTopic(orders[k].payload.clientId)
      OBVIOUS
    <3>2. \/ refusals' = refusals
          \/ /\ Addressable(orders[k].payload.clientId)
             /\ refusals' = Append(refusals, refusal)
      BY <2>1 DEF PublishRejection, ReturnAddress
    <3> HIDE DEF refusal
    <3> QED
      BY <3>1, <3>2
  <2> QED
    BY <2>1, <2>3, <2>4, <2>5, DecidingKeepsInv
<1>4. CASE Accept(k)
  <2>1. /\ Decide(k, "accepted") /\ UNCHANGED refusals /\ ~ Accepted(k)
        /\ KitchenTakes(orders[k].topic) = "order" /\ Welcome(k)
        /\ seen' = seen \cup {orders[k].payload.clientOrderId}
    BY <1>1, <1>4 DEF Accept
  <2>2. "accepted" \in Fates
    BY DEF Fates
  <2> QED
    BY <2>1, <2>2, DecidingKeepsInv
<1>5. CASE Ignore(k)
  <2>1. Decide(k, "duplicate") /\ UNCHANGED <<seen, refusals>>
    BY <1>5 DEF Ignore
  <2>2. "duplicate" \in Fates
    BY DEF Fates
  <2> QED
    BY <2>1, <2>2, DecidingKeepsInv
<1> QED
  BY <1>2, <1>3, <1>4, <1>5

LEMMA DeliveryKeepsInv ==
    ASSUME WireInv, Lose \/ \E w \in Windows : Notify(w)
    PROVE  WireInv'
<1> DEFINE k == Head(refusals).of
<1>1. refusals # << >> /\ refusals' = Tail(refusals) /\ UNCHANGED seen
  BY DEF Lose, Notify
<1>2. k \in DOMAIN orders
  BY <1>1, RefusalsAre DEF WireInv, RefusalsAreAddressed
<1>3. CASE Lose
  <2>1. orders' = [orders EXCEPT ![k].lost = TRUE]
    BY <1>3 DEF Lose
  <2> HIDE DEF k
  <2> QED
    BY <1>1, <1>2, <2>1, MarkingKeepsInv
<1>4. ASSUME NEW w \in Windows, Notify(w)
      PROVE  WireInv'
  <2>1. UNCHANGED orders
        \/ \E b \in BOOLEAN : orders' = [orders EXCEPT ![k].told = b]
    <3> DEFINE b == orders[k].told \/ noticeSequence'[w] \in Range(notices'[w])
    <3>1. UNCHANGED orders
          \/ orders' = [orders EXCEPT ![k].told =
                            @ \/ noticeSequence'[w] \in Range(notices'[w])]
      BY <1>4 DEF Notify, noticeVars
    <3>2. b \in BOOLEAN
      OBVIOUS
    <3>3. UNCHANGED orders \/ orders' = [orders EXCEPT ![k].told = b]
      BY <1>2, <3>1
    <3> HIDE DEF b
    <3> QED
      BY <3>2, <3>3
  <2> HIDE DEF k
  <2> QED
    BY <1>1, <1>2, <2>1, MarkingKeepsInv
<1> QED
  BY <1>3, <1>4

LEMMA WireStepKeepsInv == WireInv /\ [WireNext]_wireVars => WireInv'
<1> SUFFICES ASSUME WireInv, [WireNext]_wireVars
             PROVE  WireInv'
  OBVIOUS
<1>1. CASE \E w \in Windows, t \in 1..(TableCount + 1), name \in Names : PublishOrder(w, t, name)
  BY <1>1, PublishOrderKeepsInv
<1>2. CASE \E level \in {Word("bar"), Number(1), Number(2)}, payload \in ForeignPayloads :
               PublishForeign(level, payload)
  BY <1>2, PublishForeignKeepsInv
<1>3. CASE \E k \in DOMAIN orders : Drop(k) \/ Refuse(k) \/ Accept(k) \/ Ignore(k)
  BY <1>3, DecisionsKeepInv
<1>4. CASE Lose \/ \E w \in Windows : Notify(w)
  BY <1>4, DeliveryKeepsInv
<1>5. CASE UNCHANGED wireVars \/ \E w \in Windows : Dismiss(w) \/ TimerFires(w)
  <2>1. UNCHANGED <<orders, seen, refusals>>
    BY <1>5 DEF wireVars, Dismiss, TimerFires
  <2>2. \A k : /\ Accepted(k)' = Accepted(k) /\ Welcome(k)' = Welcome(k)
               /\ IsDuplicate(k)' = IsDuplicate(k)
    BY <2>1 DEF Accepted, Welcome, NamesItsTable, IsDuplicate
  <2>3. AcceptedAreRemembered'
    BY <2>1, <2>2 DEF WireInv, AcceptedAreRemembered
  <2> QED
    BY <2>1, <2>3 DEF WireInv, OrdersTyped, RefusalsTyped, OrdersAreNumbered, OrdersAreAddressed,
                      FromWindow, RefusalsAreAddressed, CookingIsNeverRefused
<1> QED
  BY <1>1, <1>2, <1>3, <1>4, <1>5 DEF WireNext

LEMMA WireInvHolds == WireSpec => []WireInv
BY WireInitEstablishesInv, WireStepKeepsInv, PTL DEF WireSpec

\* Whatever is ordered, by whom and how often it is delivered: no order that was
\* accepted is ever told that there is no room, for its duplicate is recognised
\* before the capacity checks (kitchen.py:288-317).
THEOREM CookingStaysUnrefused == WireSpec => []CookingIsNeverRefused
<1>1. WireInv => CookingIsNeverRefused
  BY DEF WireInv
<1> QED
  BY <1>1, WireInvHolds, PTL

\* For every number of windows and tables, and whatever the windows are called: the
\* topics that both sides build are recognised by both, and a refusal by its author's
\* window alone (topics.py:39-76, dispatch.ts:47-80).
THEOREM NothingEverGoesAstray == WireSpec => []NothingGoesAstray
<1>1. ASSUME WireInv
      PROVE  NothingGoesAstray
  <2>1. ASSUME NEW k \in DOMAIN orders, FromWindow(k)
        PROVE  KitchenHears(orders[k].topic) /\ KitchenTakes(orders[k].topic) = "order"
    BY <1>1, <2>1, OrderTopicsAreHeard DEF WireInv, OrdersAreAddressed
  <2>2. ASSUME NEW n \in DOMAIN refusals
        PROVE  LET topic == refusals[n].topic
                   author == orders[refusals[n].of].payload.clientId
               IN  /\ {w \in Windows : WindowHears(w, topic)} = {author} \cap Windows
                   /\ author \in Windows =>
                          /\ Receivers(topic, "rejection") = {author}
                          /\ KitchenTakes(topic) = "own"
    <3> DEFINE author == orders[refusals[n].of].payload.clientId
    <3>1. refusals[n].topic = ClientErrorTopic(author) /\ author # Wildcard
      BY <1>1 DEF WireInv, RefusalsAreAddressed, Addressable
    <3> HIDE DEF author
    <3>2. /\ {w \in Windows : WindowHears(w, refusals[n].topic)} = {author} \cap Windows
          /\ author \in Windows => Receivers(refusals[n].topic, "rejection") = {author}
          /\ KitchenTakes(refusals[n].topic) = "own"
      BY <3>1, RefusalsAreHeard
    <3> QED
      BY <3>2 DEF author
  <2> QED
    BY <2>1, <2>2, TableStatesAreHeard DEF NothingGoesAstray
<1> QED
  BY <1>1, WireInvHolds, PTL

-----------------------------------------------------------------------------
(* Notices *)

\* The last m elements of a sequence.
LastOf(s, m) == SubSeq(s, Max({1, Len(s) - m + 1}), Len(s))

\* What last is to s, when it is the end of s and not longer than m.
IsEnd(last, s, m) ==
    /\ Len(last) \in 1..m
    /\ last[Len(last)] = s[Len(s)]
    /\ \E b \in Nat :
           /\ b + Len(last) = Len(s) /\ (b = 0 \/ Len(last) = m)
           /\ \A i \in 1..Len(last) : b + i \in 1..Len(s) /\ last[i] = s[b + i]

LEMMA LastElements ==
    ASSUME NEW S, NEW s \in Seq(S), s # << >>, NEW m \in Nat \ {0}, NEW last,
           last = LastOf(s, m)
    PROVE  last \in Seq(S) /\ IsEnd(last, s, m)
<1> DEFINE n == Len(s)
<1>1. n \in Nat /\ n # 0 /\ \A i \in 1..n : s[i] \in S
  BY EmptySeq, LenProperties, ElementOfSeq
<1>2. PICK a \in 1..n : /\ a = Max({1, n - m + 1}) /\ n - a + 1 <= m
                        /\ a = 1 \/ a = n - m + 1
  <2> DEFINE T == {1, n - m + 1}
  <2>1. \E x \in T : \A y \in T : x >= y
    BY <1>1
  <2>2. Max(T) \in T /\ \A y \in T : Max(T) >= y
    <3> HIDE DEF T
    <3> QED
      BY <2>1 DEF Max
  <2>3. /\ Max(T) \in 1..n /\ n - Max(T) + 1 <= m
        /\ Max(T) = 1 \/ Max(T) = n - m + 1
    <3> DEFINE x == Max(T)
    <3>1. x \in {1, n - m + 1} /\ 1 <= x /\ n - m + 1 <= x
      BY <2>2
    <3> HIDE DEF x, n
    <3>2. x \in 1..n /\ n - x + 1 <= m /\ (x = 1 \/ x = n - m + 1)
      BY <1>1, <3>1
    <3> QED
      BY <3>2 DEF x
  <2> HIDE DEF n
  <2> QED
    BY <2>3
<1>3. last = SubSeq(s, a, n)
  BY <1>2 DEF LastOf
<1>4. /\ last \in Seq(S) /\ Len(last) = (n - a) + 1
      /\ \A i \in 1..(n - a) + 1 : last[i] = s[(a - 1) + i]
  <2> DEFINE r == SubSeq(s, a, n)
  <2>1. a \in Nat /\ (n - a) + 1 \in Nat /\ \A i \in a..n : s[i] \in S
    BY <1>1
  <2>2. /\ r \in Seq(S) /\ Len(r) = (n - a) + 1
        /\ \A i \in 1..(n - a) + 1 : r[i] = s[(a - 1) + i]
    BY <1>1, <2>1
  <2> QED
    BY <1>3, <2>2
<1> HIDE DEF n
<1>5. /\ a - 1 \in Nat
      /\ \A i \in 1..Len(last) : (a - 1) + i \in 1..n /\ last[i] = s[(a - 1) + i]
  <2>1. ASSUME NEW i \in 1..(n - a) + 1
        PROVE  (a - 1) + i \in 1..n
    BY <1>1
  <2>2. a - 1 \in Nat
    BY <1>1
  <2> QED
    BY <1>4, <2>1, <2>2
<1>6. Len(last) \in 1..m /\ last[Len(last)] = s[n]
  <2> DEFINE l == Len(last)
  <2>1. l = (n - a) + 1
    BY <1>4
  <2> HIDE DEF l
  <2>2. l \in 1..l /\ l \in 1..m /\ (a - 1) + l = n
    BY <1>1, <1>2, <2>1
  <2> QED
    BY <1>5, <2>2 DEF l
<1>7. n = Len(s)
  BY DEF n
<1>8. (a - 1) + Len(last) = n /\ (a - 1 = 0 \/ Len(last) = m)
  <2> DEFINE l == Len(last)
  <2>1. l = (n - a) + 1
    BY <1>4
  <2> HIDE DEF l
  <2>2. (a - 1) + l = n /\ (a - 1 = 0 \/ l = m)
    BY <1>1, <1>2, <2>1
  <2> QED
    BY <2>2 DEF l
<1> QED
  BY <1>4, <1>5, <1>6, <1>7, <1>8 DEF IsEnd

\* A non-empty set of numbers has a least element.
LEMMA LeastIndex ==
    ASSUME NEW I \in SUBSET Nat, I # {}
    PROVE  Min(I) \in I /\ \A y \in I : Min(I) <= y
<1>1. PICK m \in I : \A y \in I : ~ (<<y, m>> \in OpToRel(<, Nat))
  BY NatLessThanWellFounded, WFMin
<1>2. ASSUME NEW y \in I
      PROVE  m <= y
  <2>1. ~ (<<y, m>> \in {ss \in Nat \X Nat : ss[1] < ss[2]})
    BY <1>1 DEF OpToRel
  <2>2. <<y, m>> \in Nat \X Nat
    OBVIOUS
  <2>3. ~ (y < m)
    BY <2>1, <2>2
  <2> QED
    BY <2>3
<1> QED
  BY <1>2 DEF Min

\* A sequence without one of its elements.
LEMMA WithoutFirst ==
    ASSUME NEW S, NEW s \in Seq(S), NEW e, NEW rest, rest = RemoveFirst(s, e)
    PROVE  /\ rest \in Seq(S)
           /\ \/ rest = s /\ \A i \in 1..Len(s) : s[i] # e
              \/ \E k \in 1..Len(s) :
                     /\ s[k] = e /\ Len(rest) = Len(s) - 1
                     /\ \A i \in 1..Len(rest) :
                            rest[i] = IF i < k THEN s[i] ELSE s[i + 1]
<1> DEFINE n == Len(s)
<1>1. n \in Nat /\ \A i \in 1..n : s[i] \in S
  BY LenProperties, ElementOfSeq
<1>2. CASE \A i \in 1..n : s[i] # e
  BY <1>2 DEF RemoveFirst
<1>3. CASE \E i \in 1..n : s[i] = e
  <2> DEFINE I == {i \in 1..n : s[i] = e}
  <2>1. PICK k \in 1..n : k = Min(I) /\ s[k] = e
    <3>1. I \in SUBSET Nat /\ I # {}
      BY <1>1, <1>3
    <3>2. Min(I) \in I
      <4> HIDE DEF I
      <4> QED
        BY <3>1, LeastIndex
    <3> QED
      BY <3>2
  <2> DEFINE front == SubSeq(s, 1, k - 1)
             back == SubSeq(s, k + 1, n)
  <2>2. rest = front \o back
    BY <1>3, <2>1 DEF RemoveFirst, RemoveAt, SelectInSeq
  <2>3. /\ front \in Seq(S) /\ Len(front) = k - 1
        /\ \A i \in 1..k-1 : front[i] = s[i]
    <3>1. k - 1 \in Nat /\ \A i \in 1..k-1 : s[i] \in S
      BY <1>1
    <3> QED
      BY <1>1, <3>1
  <2>4. /\ back \in Seq(S) /\ Len(back) = n - k
        /\ \A i \in 1..n-k : back[i] = s[k + i]
    <3>1. n - k \in Nat /\ \A i \in k+1..n : s[i] \in S
      BY <1>1
    <3> QED
      BY <1>1, <3>1
  <2> HIDE DEF front, back, n, I
  <2>5. /\ rest \in Seq(S) /\ Len(rest) = (k - 1) + (n - k)
        /\ \A i \in 1..(k - 1) + (n - k) :
               rest[i] = IF i <= k - 1 THEN front[i] ELSE back[i - (k - 1)]
    <3>1. /\ front \o back \in Seq(S) /\ Len(front \o back) = Len(front) + Len(back)
          /\ \A i \in 1..Len(front) + Len(back) :
                 (front \o back)[i] = IF i <= Len(front) THEN front[i] ELSE back[i - Len(front)]
      BY <2>3, <2>4, ConcatProperties
    <3>2. Len(front) = k - 1 /\ Len(back) = n - k
      BY <2>3, <2>4
    <3> QED
      BY <2>2, <3>1, <3>2, Zenon
  <2>6. (k - 1) + (n - k) = n - 1
    BY <1>1
  <2>7. ASSUME NEW i \in 1..n-1
        PROVE  rest[i] = IF i < k THEN s[i] ELSE s[i + 1]
    <3>1. CASE i < k
      BY <1>1, <2>3, <2>5, <2>7, <3>1
    <3>2. CASE ~ (i < k)
      <4>1. i - (k - 1) \in 1..n-k /\ k + (i - (k - 1)) = i + 1
        BY <1>1, <3>2
      <4>2. rest[i] = back[i - (k - 1)]
        BY <1>1, <2>5, <3>2
      <4> QED
        BY <2>4, <3>2, <4>1, <4>2
    <3> QED
      BY <3>1, <3>2
  <2>8. rest \in Seq(S) /\ Len(rest) = n - 1
    BY <2>5, <2>6
  <2>9. \A i \in 1..Len(rest) : rest[i] = IF i < k THEN s[i] ELSE s[i + 1]
    BY <2>7, <2>8
  <2>10. k \in 1..Len(s) /\ Len(rest) = Len(s) - 1
    BY <2>8 DEF n
  <2> QED
    BY <2>1, <2>8, <2>9, <2>10, Zenon
<1> QED
  BY <1>2, <1>3

Increasing(s) == \A i, j \in 1..Len(s) : i < j => s[i] < s[j]

\* The notices of a window: handed out in order, and so distinct; few enough.
NoticesOf(w) ==
    /\ notices[w] \in Seq(1..noticeSequence[w])
    /\ timers[w] \subseteq 1..noticeSequence[w]
    /\ Len(notices[w]) <= MaxVisibleNotices
    /\ Increasing(notices[w])

NoticeInv ==
    /\ noticeSequence \in [Windows -> Nat]
    /\ DOMAIN notices = Windows /\ DOMAIN timers = Windows
    /\ \A w \in Windows : NoticesOf(w)

\* RemoveFirst, of distinct notices, is the filter of dismissNotice: it keeps all
\* the others, and in their order (stores.ts:59-61).
LEMMA DismissedIs ==
    ASSUME NEW S \in SUBSET Nat, NEW s \in Seq(S), Increasing(s), NEW e, NEW rest,
           rest = RemoveFirst(s, e)
    PROVE  /\ rest \in Seq(S) /\ Len(rest) <= Len(s)
           /\ Increasing(rest)
           /\ Range(rest) = Range(s) \ {e}
<1> DEFINE n == Len(s)
<1>1. n \in Nat /\ (\A i \in 1..n : s[i] \in Nat) /\ DOMAIN s = 1..n
  BY LenProperties, ElementOfSeq
<1>2. CASE rest = s /\ \A i \in 1..n : s[i] # e
  BY <1>1, <1>2 DEF Range
<1>3. ASSUME NEW k \in 1..n, s[k] = e, rest \in Seq(S), Len(rest) = n - 1,
             \A i \in 1..Len(rest) : rest[i] = IF i < k THEN s[i] ELSE s[i + 1]
      PROVE  /\ Len(rest) <= Len(s)
             /\ Increasing(rest)
             /\ Range(rest) = Range(s) \ {e}
  <2> HIDE DEF n
  <2>1. DOMAIN rest = 1..n-1 /\ \A i \in 1..n-1 : rest[i] = IF i < k THEN s[i] ELSE s[i + 1]
    BY <1>3, LenProperties
  <2>2. Increasing(rest)
    <3> SUFFICES ASSUME NEW i \in 1..n-1, NEW j \in 1..n-1, i < j
                 PROVE  rest[i] < rest[j]
      BY <1>3 DEF Increasing
    <3>1. /\ i \in 1..n /\ j \in 1..n /\ i + 1 \in 1..n /\ j + 1 \in 1..n
          /\ i < j + 1 /\ i + 1 < j + 1 /\ (j < k => i < k)
      BY <1>1
    <3>2. s[i] < s[j] /\ s[i] < s[j + 1] /\ s[i + 1] < s[j + 1]
      BY <3>1 DEF Increasing, n
    <3> QED
      BY <2>1, <3>1, <3>2
  <2>3. ASSUME NEW x \in Range(rest)
        PROVE  x \in Range(s) \ {e}
    <3>1. PICK i \in 1..n-1 : x = rest[i]
      BY <2>1 DEF Range
    <3>2. CASE i < k
      <4>1. i \in 1..n /\ x = s[i]
        BY <1>1, <2>1, <3>1, <3>2
      <4>2. s[i] < s[k]
        BY <1>1, <3>2, <4>1 DEF Increasing, n
      <4> QED
        BY <1>1, <1>3, <4>1, <4>2 DEF Range
    <3>3. CASE ~ (i < k)
      <4>1. i + 1 \in 1..n /\ x = s[i + 1] /\ k < i + 1
        BY <1>1, <2>1, <3>1, <3>3
      <4>2. s[k] < s[i + 1] /\ s[k] \in Nat /\ s[i + 1] \in Nat
        BY <1>1, <4>1 DEF Increasing, n
      <4>3. x # e
        BY <1>3, <4>1, <4>2
      <4> QED
        BY <1>1, <4>1, <4>3 DEF Range
    <3> QED
      BY <3>2, <3>3
  <2>4. ASSUME NEW x \in Range(s) \ {e}
        PROVE  x \in Range(rest)
    <3>1. PICK i \in 1..n : x = s[i] /\ i # k
      BY <1>1, <1>3 DEF Range
    <3>2. CASE i < k
      <4>1. i \in 1..n-1 /\ rest[i] = x
        BY <1>1, <2>1, <3>1, <3>2
      <4> QED
        BY <2>1, <4>1 DEF Range
    <3>3. CASE ~ (i < k)
      <4>1. i - 1 \in 1..n-1 /\ ~ (i - 1 < k) /\ (i - 1) + 1 = i
        BY <1>1, <3>1, <3>3
      <4>2. rest[i - 1] = x
        BY <2>1, <3>1, <4>1
      <4> QED
        BY <2>1, <4>1, <4>2 DEF Range
    <3> QED
      BY <3>2, <3>3
  <2>5. Len(rest) <= Len(s)
    BY <1>1, <1>3 DEF n
  <2> QED
    BY <2>2, <2>3, <2>4, <2>5
<1>4. /\ rest \in Seq(S)
      /\ \/ rest = s /\ \A i \in 1..n : s[i] # e
         \/ \E k \in 1..n :
                /\ s[k] = e /\ Len(rest) = n - 1
                /\ \A i \in 1..Len(rest) : rest[i] = IF i < k THEN s[i] ELSE s[i + 1]
  BY WithoutFirst
<1> HIDE DEF n
<1>5. ASSUME NEW k \in 1..n, s[k] = e, Len(rest) = n - 1,
             \A i \in 1..Len(rest) : rest[i] = IF i < k THEN s[i] ELSE s[i + 1]
      PROVE  /\ Len(rest) <= Len(s)
             /\ Increasing(rest)
             /\ Range(rest) = Range(s) \ {e}
  BY <1>3, <1>4, <1>5
<1>6. CASE \E k \in 1..n :
               /\ s[k] = e /\ Len(rest) = n - 1
               /\ \A i \in 1..Len(rest) : rest[i] = IF i < k THEN s[i] ELSE s[i + 1]
  BY <1>4, <1>5, <1>6
<1> QED
  BY <1>2, <1>4, <1>6

\* A larger number at its end leaves a sequence increasing.
LEMMA AppendedIncreases ==
    ASSUME NEW n \in Nat, NEW s \in Seq(1..n), Increasing(s), NEW list,
           Len(list) = Len(s) + 1, \A i \in 1..Len(s) : list[i] = s[i],
           list[Len(s) + 1] = n + 1
    PROVE  Increasing(list)
<1> SUFFICES ASSUME NEW i \in 1..Len(list), NEW j \in 1..Len(list), i < j
             PROVE  list[i] < list[j]
  BY DEF Increasing
<1>1. Len(s) \in Nat
  BY LenProperties
<1>2. i \in 1..Len(s) /\ list[i] = s[i]
  BY <1>1
<1>3. s[i] \in 1..n
  BY <1>2, ElementOfSeq
<1>4. CASE j = Len(s) + 1
  BY <1>2, <1>3, <1>4
<1>5. CASE j # Len(s) + 1
  <2>1. j \in 1..Len(s)
    BY <1>1, <1>5
  <2> QED
    BY <1>2, <2>1 DEF Increasing
<1> QED
  BY <1>4, <1>5

LEMMA PushKeepsNotices ==
    ASSUME NoticeInv, NEW w \in Windows, PushNotice(w)
    PROVE  NoticeInv' /\ noticeSequence'[w] \in Range(notices'[w])
<1> DEFINE top == noticeSequence[w] + 1
           list == Append(notices[w], top)
           last == SubSeq(list, Max({1, Len(list) - MaxVisibleNotices + 1}), Len(list))
<1>1. /\ noticeSequence[w] \in Nat /\ top \in Nat
      /\ notices[w] \in Seq(1..noticeSequence[w]) /\ Increasing(notices[w])
  BY DEF NoticeInv, NoticesOf
<1>2. /\ noticeSequence' = [noticeSequence EXCEPT ![w] = top]
      /\ notices' = [notices EXCEPT ![w] = last]
      /\ timers' = [timers EXCEPT ![w] = @ \cup {top}]
  BY DEF PushNotice
<1>3. /\ list \in Seq(1..top) /\ Len(list) = Len(notices[w]) + 1 /\ list # << >>
      /\ \A i \in 1..Len(notices[w]) : list[i] = notices[w][i]
      /\ list[Len(notices[w]) + 1] = top
  <2>1. notices[w] \in Seq(1..top) /\ top \in 1..top
    <3>1. 1..noticeSequence[w] \subseteq 1..top /\ top \in 1..top
      BY <1>1
    <3> QED
      BY <1>1, <3>1, SeqMonotonic
  <2> HIDE DEF top
  <2> QED
    BY <2>1, AppendProperties
<1>4. Increasing(list)
  <2> HIDE DEF list
  <2> QED
    BY <1>1, <1>3, AppendedIncreases
<1> HIDE DEF list
<1>5. /\ last \in Seq(1..top) /\ Len(last) \in 1..MaxVisibleNotices
      /\ last[Len(last)] = top
      /\ \E b \in Nat : \A i \in 1..Len(last) : b + i \in 1..Len(list) /\ last[i] = list[b + i]
  <2>1. MaxVisibleNotices \in Nat \ {0}
    BY WireAssumption
  <2>2. PICK n : n = Len(notices[w]) + 1
    OBVIOUS
  <2>3. list \in Seq(1..top) /\ list # << >> /\ Len(list) = n /\ list[n] = top
    BY <1>3, <2>2
  <2>4. last = LastOf(list, MaxVisibleNotices)
    BY DEF LastOf
  <2> HIDE DEF top, last
  <2>5. PICK T : T = 1..top
    OBVIOUS
  <2>6. list \in Seq(T) /\ list # << >>
    BY <2>3, <2>5
  <2>7. last \in Seq(T) /\ IsEnd(last, list, MaxVisibleNotices)
    BY <2>1, <2>4, <2>6, LastElements
  <2> QED
    BY <2>3, <2>5, <2>7 DEF IsEnd
<1> HIDE DEF last
<1>6. Increasing(last)
  <2> SUFFICES ASSUME NEW i \in 1..Len(last), NEW j \in 1..Len(last), i < j
               PROVE  last[i] < last[j]
    BY DEF Increasing
  <2>1. PICK b \in Nat : \A k \in 1..Len(last) : b + k \in 1..Len(list) /\ last[k] = list[b + k]
    BY <1>5
  <2>2. b + i < b + j
    OBVIOUS
  <2> QED
    BY <1>4, <2>1, <2>2 DEF Increasing
<1>7. top \in Range(last)
  <2>1. DOMAIN last = 1..Len(last) /\ Len(last) \in 1..Len(last)
    <3>1. MaxVisibleNotices \in Nat
      BY WireAssumption
    <3> QED
      BY <1>5, <3>1, LenProperties
  <2> QED
    BY <1>5, <2>1 DEF Range
<1>8. /\ noticeSequence'[w] = top /\ notices'[w] = last /\ timers'[w] = timers[w] \cup {top}
      /\ \A v \in Windows \ {w} : UNCHANGED <<noticeSequence[v], notices[v], timers[v]>>
      /\ noticeSequence' \in [Windows -> Nat]
      /\ DOMAIN notices' = Windows /\ DOMAIN timers' = Windows
  BY <1>1, <1>2 DEF NoticeInv
<1>9. NoticesOf(w)'
  <2>1. timers'[w] \subseteq 1..top
    BY <1>1, <1>8 DEF NoticeInv, NoticesOf
  <2>2. Len(last) <= MaxVisibleNotices
    BY <1>5, WireAssumption
  <2> HIDE DEF top
  <2> QED
    BY <1>5, <1>6, <1>8, <2>1, <2>2 DEF NoticesOf
<1>10. \A v \in Windows \ {w} : NoticesOf(v)'
  BY <1>8 DEF NoticeInv, NoticesOf
<1> QED
  BY <1>7, <1>8, <1>9, <1>10 DEF NoticeInv

LEMMA DismissKeepsNotices ==
    ASSUME NoticeInv, NEW w \in Windows, NEW id, DismissNotice(w, id),
           noticeSequence' = noticeSequence,
           timers' = timers \/ timers' = [timers EXCEPT ![w] = @ \ {Min(@)}]
    PROVE  NoticeInv'
<1> DEFINE rest == RemoveFirst(notices[w], id)
<1>1. /\ noticeSequence[w] \in Nat /\ notices[w] \in Seq(1..noticeSequence[w])
      /\ Increasing(notices[w]) /\ Len(notices[w]) <= MaxVisibleNotices
  BY DEF NoticeInv, NoticesOf
<1>2. rest \in Seq(1..noticeSequence[w]) /\ Len(rest) <= Len(notices[w]) /\ Increasing(rest)
  <2>1. 1..noticeSequence[w] \in SUBSET Nat
    BY <1>1
  <2> QED
    BY <1>1, <2>1, DismissedIs
<1>3. Len(rest) <= MaxVisibleNotices
  <2>1. Len(rest) \in Nat /\ Len(notices[w]) \in Nat /\ MaxVisibleNotices \in Nat
    BY <1>1, <1>2, LenProperties, WireAssumption
  <2> QED
    BY <1>1, <1>2, <2>1
<1>4. notices' = [notices EXCEPT ![w] = rest]
  BY DEF DismissNotice
<1> HIDE DEF rest
<1>5. /\ notices'[w] = rest /\ DOMAIN notices' = Windows /\ DOMAIN timers' = Windows
      /\ \A v \in Windows : timers'[v] \subseteq timers[v]
      /\ \A v \in Windows \ {w} : notices'[v] = notices[v]
  BY <1>4 DEF NoticeInv
<1>6. NoticesOf(w)'
  BY <1>2, <1>3, <1>5 DEF NoticeInv, NoticesOf
<1>7. \A v \in Windows \ {w} : NoticesOf(v)'
  BY <1>5 DEF NoticeInv, NoticesOf
<1> QED
  BY <1>5, <1>6, <1>7 DEF NoticeInv

LEMMA StepKeepsNotices == NoticeInv /\ [WireNext]_wireVars => NoticeInv'
<1> SUFFICES ASSUME NoticeInv, [WireNext]_wireVars
             PROVE  NoticeInv'
  OBVIOUS
<1>1. UNCHANGED noticeVars => NoticeInv'
  BY DEF noticeVars, NoticeInv, NoticesOf
<1>2. ASSUME NEW w \in Windows, Notify(w) \/ Dismiss(w) \/ TimerFires(w)
      PROVE  NoticeInv'
  <2>1. Notify(w) => PushNotice(w) \/ UNCHANGED noticeVars
    BY DEF Notify
  <2>2. Dismiss(w) => NoticeInv'
    BY DismissKeepsNotices DEF Dismiss
  <2>3. TimerFires(w) => NoticeInv'
    BY DismissKeepsNotices DEF TimerFires
  <2> QED
    BY <1>1, <1>2, <2>1, <2>2, <2>3, PushKeepsNotices
<1>3. CASE UNCHANGED wireVars
  BY <1>1, <1>3 DEF wireVars
<1>4. CASE \/ \E w \in Windows, t \in 1..(TableCount + 1), name \in Names : PublishOrder(w, t, name)
           \/ \E level \in {Word("bar"), Number(1), Number(2)}, payload \in ForeignPayloads :
                  PublishForeign(level, payload)
           \/ \E k \in DOMAIN orders : Drop(k) \/ Refuse(k) \/ Accept(k) \/ Ignore(k)
           \/ Lose
  <2>1. UNCHANGED noticeVars
    BY <1>4 DEF PublishOrder, PublishForeign, Drop, Refuse, Accept, Ignore, Lose
  <2> QED
    BY <1>1, <2>1
<1> QED
  BY <1>2, <1>3, <1>4 DEF WireNext

LEMMA NoticesStart == WireInit => NoticeInv
<1> SUFFICES ASSUME WireInit
             PROVE  NoticeInv
  OBVIOUS
<1>1. \A w \in Windows : notices[w] = << >> /\ timers[w] = {} /\ noticeSequence[w] = 0
  BY DEF WireInit
<1>2. ASSUME NEW w \in Windows
      PROVE  NoticesOf(w)
  <2>1. notices[w] \in Seq(1..noticeSequence[w]) /\ Len(notices[w]) = 0
    BY <1>1, EmptySeq
  <2>2. 0 <= MaxVisibleNotices
    BY WireAssumption
  <2>3. Increasing(notices[w])
    BY <2>1 DEF Increasing
  <2> QED
    BY <1>1, <2>1, <2>2, <2>3 DEF NoticesOf
<1> QED
  BY <1>2 DEF WireInit, NoticeInv

-----------------------------------------------------------------------------
(* Names *)

\* What stripping leaves: nothing of a name that is blank, and otherwise the part
\* between two characters that are not.
LEMMA StripIs ==
    ASSUME NEW S, NEW name \in Seq(S), NEW blanks
    PROVE  /\ Strip(name, blanks) \in Seq(S)
           /\ Len(Strip(name, blanks)) <= Len(name)
           /\ \A i \in 1..Len(Strip(name, blanks)) :
                  \E j \in 1..Len(name) : Strip(name, blanks)[i] = name[j]
           /\ IF \A i \in 1..Len(name) : name[i] \in blanks
                THEN Strip(name, blanks) = << >>
                ELSE 1 \in 1..Len(Strip(name, blanks)) /\ Strip(name, blanks)[1] \notin blanks
<1> DEFINE n == Len(name)
           ink == {i \in 1..n : name[i] \notin blanks}
           strip == Strip(name, blanks)
<1>1. n \in Nat /\ DOMAIN name = 1..n /\ \A i \in 1..n : name[i] \in S
  BY LenProperties, ElementOfSeq
<1>2. strip = IF ink = {} THEN << >> ELSE SubSeq(name, Min(ink), Max(ink))
  BY <1>1 DEF Strip
<1>3. CASE ink = {}
  <2>1. strip = << >> /\ << >> \in Seq(S) /\ Len(<< >>) = 0
    BY <1>2, <1>3, EmptySeq
  <2>2. \A i \in 1..n : name[i] \in blanks
    BY <1>3
  <2> HIDE DEF strip, ink
  <2>3. 0 <= n
    BY <1>1
  <2> QED
    BY <2>1, <2>2, <2>3 DEF strip, n
<1>4. CASE ink # {}
  <2>1. PICK a \in 1..n : a = Min(ink) /\ name[a] \notin blanks
    <3>1. ink \in SUBSET Nat
      BY <1>1
    <3>2. Min(ink) \in ink
      <4> HIDE DEF ink
      <4> QED
        BY <1>4, <3>1, LeastIndex
    <3> QED
      BY <3>2
  <2>2. PICK b \in a..n : b = Max(ink)
    <3> DEFINE mirror == {n - i : i \in ink}
    <3>1. mirror \in SUBSET Nat /\ mirror # {}
      BY <1>1, <1>4
    <3>2. PICK m \in mirror : \A y \in mirror : m <= y
      <4> HIDE DEF mirror
      <4> QED
        BY <3>1, LeastIndex
    <3>3. PICK i \in ink : m = n - i
      OBVIOUS
    <3>4. \A j \in ink : i >= j
      <4>1. \A j \in ink : n - i <= n - j
        BY <3>2, <3>3
      <4> QED
        BY <1>1, <4>1
    <3>5. Max(ink) \in ink /\ \A j \in ink : Max(ink) >= j
      <4> HIDE DEF ink
      <4> QED
        BY <3>4 DEF Max
    <3>6. a \in ink
      BY <2>1
    <3>7. Max(ink) \in 1..n /\ Max(ink) >= a
      BY <3>5, <3>6
    <3> HIDE DEF ink
    <3> QED
      BY <1>1, <3>7
  <2>3. strip = SubSeq(name, a, b)
    BY <1>2, <1>4, <2>1, <2>2
  <2> HIDE DEF strip, ink
  <2>4. /\ strip \in Seq(S) /\ Len(strip) = (b - a) + 1
        /\ \A i \in 1..(b - a) + 1 : strip[i] = name[(a - 1) + i]
    <3> DEFINE r == SubSeq(name, a, b)
    <3>1. a \in Nat /\ b \in Nat /\ (b - a) + 1 \in Nat /\ \A i \in a..b : name[i] \in S
      BY <1>1
    <3>2. /\ r \in Seq(S) /\ Len(r) = (b - a) + 1
          /\ \A i \in 1..(b - a) + 1 : r[i] = name[(a - 1) + i]
      BY <1>1, <3>1
    <3> QED
      BY <2>3, <3>2
  <2> HIDE DEF n
  <2>5. /\ (b - a) + 1 <= n /\ 1 \in 1..(b - a) + 1 /\ (a - 1) + 1 = a
        /\ \A i \in 1..(b - a) + 1 : (a - 1) + i \in 1..n
    BY <1>1
  <2>6. strip[1] \notin blanks
    BY <2>1, <2>4, <2>5
  <2>7. ~ \A i \in 1..n : name[i] \in blanks
    BY <2>1
  <2>8. \A i \in 1..Len(strip) : \E j \in 1..n : strip[i] = name[j]
    BY <2>4, <2>5
  <2> QED
    BY <2>4, <2>5, <2>6, <2>7, <2>8 DEF n, strip
<1> QED
  BY <1>3, <1>4

\* The window lets nothing pass that the kitchen refuses, but U+0085 (state.ts:165,
\* models.py:90-98).
LEMMA NamesAreAccepted ==
    ASSUME NEW typed \in Seq(Characters), NEW name, name = Trimmed(typed),
           ValidInWindow(name), ~ ValidInKitchen(name)
    PROVE  Range(name) \ {"blank"} = {"nel"}
<1> DEFINE n == Len(name)
           cleaned == Strip(name, {"blank", "tab", "separator", "nel"})
<1>1. /\ name \in Seq(Characters) /\ n \in Nat /\ DOMAIN name = 1..n
      /\ \A i \in 1..n : name[i] \in Characters
      /\ 1 \in 1..n => name[1] # "blank"
  <2>1. name \in Seq(Characters) /\ n \in Nat /\ DOMAIN name = 1..n
    BY StripIs, LenProperties DEF Trimmed
  <2>2. CASE \A i \in 1..Len(typed) : typed[i] \in {"blank", "tab", "bom"}
    <3>1. name = << >>
      BY <2>2, StripIs DEF Trimmed
    <3>2. n = 0
      BY <3>1, EmptySeq
    <3> QED
      BY <2>1, <3>2
  <2>3. CASE ~ \A i \in 1..Len(typed) : typed[i] \in {"blank", "tab", "bom"}
    <3>1. name[1] \notin {"blank", "tab", "bom"}
      BY <2>3, StripIs DEF Trimmed
    <3> QED
      BY <2>1, <3>1, ElementOfSeq
  <2> QED
    BY <2>2, <2>3
<1>2. /\ cleaned \in Seq(Characters) /\ Len(cleaned) \in Nat /\ DOMAIN cleaned = 1..Len(cleaned)
      /\ Len(cleaned) <= n
      /\ \A i \in 1..Len(cleaned) : \E j \in 1..n : cleaned[i] = name[j]
      /\ \/ \A i \in 1..n : name[i] \in {"blank", "tab", "separator", "nel"}
         \/ 1 \in 1..Len(cleaned)
  <2>1. cleaned \in Seq(Characters)
    BY <1>1, StripIs
  <2>2. Len(cleaned) \in Nat /\ DOMAIN cleaned = 1..Len(cleaned)
    BY <2>1, LenProperties
  <2>3. name \in Seq(Characters)
    BY <1>1
  <2>4. /\ Len(cleaned) <= Len(name)
        /\ \A i \in 1..Len(cleaned) : \E j \in 1..Len(name) : cleaned[i] = name[j]
        /\ IF \A i \in 1..Len(name) : name[i] \in {"blank", "tab", "separator", "nel"}
             THEN cleaned = << >>
             ELSE 1 \in 1..Len(cleaned)
    BY <2>3, StripIs
  <2> HIDE DEF cleaned
  <2> QED
    BY <2>1, <2>2, <2>4
<1>3. n \in 1..MaxFoodNameLength
  <2> DEFINE wide == {i \in DOMAIN name : name[i] = "astral"}
  <2>1. n + Cardinality(wide) \in 1..MaxFoodNameLength
    BY DEF ValidInWindow, LengthInWindow
  <2>2. IsFiniteSet(1..n) /\ wide \subseteq 1..n
    BY <1>1, FS_Interval
  <2>3. Cardinality(wide) \in Nat /\ (n = 0 => Cardinality(wide) = 0)
    <3>1. IsFiniteSet(wide)
      BY <2>2, FS_Subset
    <3>2. n = 0 => wide = {}
      BY <1>1, <2>2
    <3> HIDE DEF wide
    <3> QED
      BY <3>1, <3>2, FS_CardinalityType, FS_EmptySet
  <2>4. MaxFoodNameLength \in Nat
    BY WireAssumption
  <2> HIDE DEF wide
  <2> QED
    BY <1>1, <2>1, <2>3, <2>4
<1>4. \A i \in 1..n : name[i] \notin {"tab", "separator", "control"}
  BY <1>1 DEF ValidInWindow, IsControl
<1> HIDE DEF n, cleaned
<1>5. \A i \in 1..n : name[i] \in {"blank", "tab", "separator", "nel"}
  <2> SUFFICES ASSUME 1 \in 1..Len(cleaned)
               PROVE  FALSE
    BY <1>2
  <2>1. Len(cleaned) \in 1..MaxFoodNameLength
    BY <1>1, <1>2, <1>3, WireAssumption
  <2>2. \A i \in DOMAIN cleaned : ~ IsControl(cleaned[i])
    BY <1>2, <1>4 DEF IsControl
  <2> QED
    BY <2>1, <2>2 DEF ValidInKitchen, cleaned
<1>6. 1 \in 1..n /\ name[1] = "nel"
  <2>1. 1 \in 1..n
    BY <1>1, <1>3, WireAssumption
  <2> QED
    BY <1>1, <1>4, <1>5, <2>1
<1>7. \A i \in 1..n : name[i] \in {"blank", "nel"}
  BY <1>4, <1>5
<1> QED
  BY <1>1, <1>6, <1>7 DEF Range

-----------------------------------------------------------------------------
(* Answers *)

\* The kitchen remembers nothing but what it accepted.
SeenAreAccepted == \A id \in seen : id \in DOMAIN orders /\ Accepted(id)

RefusalsHaveReasons == \A n \in DOMAIN refusals : refusals[n].body.reason \in RejectionReasons

\* Only what is no order, or names another table, fails the validation.
FailuresAreInvalid ==
    \A k \in DOMAIN orders :
        "VALIDATION_FAILED" \in Range(orders[k].fates) =>
            ~ IsOrder(orders[k].payload) \/ ~ NamesItsTable(orders[k])

\* What publishOrder lets a window publish.
IsFromWindow(author, topic, payload) ==
    \E t \in 1..(TableCount + 1), typed \in Seq(Characters) :
        /\ topic = OrderTopic(t)
        /\ payload = Payload("complete", payload.clientOrderId, author, t, Trimmed(typed))
        /\ ValidInWindow(Trimmed(typed))

WindowOrders ==
    \A k \in DOMAIN orders :
        FromWindow(k) => IsFromWindow(orders[k].author, orders[k].topic, orders[k].payload)

WithinBounds ==
    /\ Len(orders) <= MaxOrders
    /\ \A k \in DOMAIN orders : Len(orders[k].fates) <= MaxCopies

\* One conjunct of OrdersAreAnswered.
Answered(k) ==
    /\ orders[k].fates # << >> /\ "dropped" \notin Range(orders[k].fates)
    /\ Addressable(orders[k].payload.clientId)
    => \/ Accepted(k) \/ orders[k].told \/ orders[k].lost
       \/ \E n \in DOMAIN refusals : refusals[n].of = k

AnswerInv ==
    /\ SeenAreAccepted /\ RefusalsHaveReasons /\ FailuresAreInvalid
    /\ WindowOrders /\ WithinBounds
    /\ \A k \in DOMAIN orders : Answered(k)

LEMMA PublishingKeepsAnswers ==
    ASSUME WireInv, AnswerInv, UNCHANGED <<seen, refusals>>, Len(orders) < MaxOrders,
           NEW author \in Windows \cup {NoOne}, NEW topic, NEW payload,
           orders' = Append(orders, Order(author, topic, payload)),
           author # NoOne => IsFromWindow(author, topic, payload)
    PROVE  AnswerInv'
<1> DEFINE new == Len(orders) + 1
<1>1. /\ Len(orders') = new /\ DOMAIN orders' = 1..new
      /\ \A k \in DOMAIN orders : orders'[k] = orders[k]
      /\ orders'[new] = Order(author, topic, payload)
  BY Publishing DEF WireInv
<1>2. DOMAIN orders = 1..Len(orders) /\ Len(orders) \in Nat
  BY OrdersAre DEF WireInv
<1>3. /\ \A k \in DOMAIN orders' : k \in DOMAIN orders \/ k = new
      /\ DOMAIN orders \subseteq DOMAIN orders'
  BY <1>1, <1>2
<1>4. WithinBounds'
  <2>1. Len(orders') <= MaxOrders
    BY <1>1, <1>2, WireAssumption
  <2>2. Len(orders'[new].fates) <= MaxCopies
    <3>1. orders'[new].fates = << >>
      BY <1>1 DEF Order
    <3>2. Len(<< >>) = 0 /\ 0 <= MaxCopies
      BY EmptySeq, WireAssumption
    <3> QED
      BY <3>1, <3>2
  <2> HIDE DEF new
  <2> QED
    BY <1>1, <1>3, <2>1, <2>2 DEF AnswerInv, WithinBounds
<1>5. /\ orders'[new].author = author /\ orders'[new].topic = topic
      /\ orders'[new].payload = payload /\ orders'[new].fates = << >>
  BY <1>1 DEF Order
<1> HIDE DEF new
<1>6. Range(orders'[new].fates) = {}
  <2>1. << >> \in Seq({}) /\ Len(<< >>) = 0
    BY EmptySeq
  <2> QED
    BY <1>5, <2>1 DEF Range
<1>7. SeenAreAccepted'
  BY <1>1, <1>3 DEF AnswerInv, SeenAreAccepted, Accepted
<1>8. FailuresAreInvalid'
  BY <1>1, <1>3, <1>6 DEF AnswerInv, FailuresAreInvalid, NamesItsTable
<1>9. WindowOrders'
  BY <1>1, <1>3, <1>5 DEF AnswerInv, WindowOrders, FromWindow
<1>10. \A k \in DOMAIN orders' : Answered(k)'
  <2>1. \A k \in DOMAIN orders : Answered(k)' = Answered(k)
    BY <1>1 DEF Answered, Accepted
  <2>2. ASSUME NEW k \in DOMAIN orders', k = new
        PROVE  Answered(k)'
    BY <1>5, <2>2 DEF Answered
  <2> QED
    BY <1>3, <2>1, <2>2 DEF AnswerInv
<1> QED
  BY <1>4, <1>7, <1>8, <1>9, <1>10 DEF AnswerInv, RefusalsHaveReasons

\* What answers the delivery of an order: it is cooked, or was, or is refused, or was
\* for nobody to hear of.
Settles(k, fate) ==
    \/ fate \in {"accepted", "dropped"}
    \/ fate = "duplicate" /\ Accepted(k)
    \/ ~ Addressable(orders[k].payload.clientId)
    \/ \E n \in DOMAIN refusals' : refusals'[n].of = k

LEMMA DecidingKeepsAnswers ==
    ASSUME WireInv, AnswerInv, NEW k \in DOMAIN orders, NEW fate \in Fates, Decide(k, fate),
           Len(orders[k].fates) < MaxCopies,
           fate = "VALIDATION_FAILED" =>
               ~ IsOrder(orders[k].payload) \/ ~ NamesItsTable(orders[k]),
           seen' = seen \/ (seen' = seen \cup {k} /\ fate = "accepted"),
           DOMAIN refusals \subseteq DOMAIN refusals',
           \A n \in DOMAIN refusals : refusals'[n] = refusals[n],
           RefusalsHaveReasons',
           Settles(k, fate)
    PROVE  AnswerInv'
<1>1. /\ OrdersTyped'
      /\ DOMAIN orders' = DOMAIN orders
      /\ \A j \in DOMAIN orders : SameOrder(j) /\ (j # k => orders'[j] = orders[j])
      /\ orders'[k].fates = Append(orders[k].fates, fate)
  BY Deciding DEF WireInv
<1> DEFINE f == orders[k].fates
           g == orders'[k].fates
<1>2. f \in Seq(Fates) /\ Len(f) \in Nat /\ DOMAIN f = 1..Len(f)
  BY OrdersAre DEF WireInv
<1>3. /\ g \in Seq(Fates) /\ Len(g) = Len(f) + 1
      /\ \A i \in 1..Len(f) : g[i] = f[i]
      /\ g[Len(f) + 1] = fate
  BY <1>1, <1>2, AppendProperties
<1>4. Range(g) = Range(f) \cup {fate}
  <2>1. DOMAIN g = 1..(Len(f) + 1)
    BY <1>3, LenProperties
  <2> HIDE DEF f, g
  <2>2. \A i \in 1..(Len(f) + 1) : i \in 1..Len(f) \/ i = Len(f) + 1
    BY <1>2
  <2>3. 1..Len(f) \subseteq 1..(Len(f) + 1) /\ Len(f) + 1 \in 1..(Len(f) + 1)
    BY <1>2
  <2> QED
    BY <1>2, <1>3, <2>1, <2>2, <2>3 DEF Range
<1>5. Len(orders') = Len(orders)
  <2>1. Len(orders) \in Nat /\ DOMAIN orders = 1..Len(orders)
    BY OrdersAre DEF WireInv
  <2>2. Len(orders') \in Nat /\ DOMAIN orders' = 1..Len(orders')
    <3>1. PICK T, P : orders' \in Seq(OrderRecords(T, P))
      BY <1>1 DEF OrdersTyped, OrderRecords
    <3> QED
      BY <3>1, LenProperties
  <2> QED
    BY <1>1, <2>1, <2>2
<1>6. WithinBounds'
  <2>1. Len(g) <= MaxCopies
    BY <1>2, <1>3, WireAssumption
  <2> QED
    BY <1>1, <1>5, <2>1 DEF AnswerInv, WithinBounds
<1> HIDE DEF f, g
<1>7. /\ \A j \in DOMAIN orders \ {k} : Accepted(j)' = Accepted(j)
      /\ Accepted(k) => Accepted(k)'
      /\ fate = "accepted" => Accepted(k)'
  BY <1>1, <1>4 DEF Accepted, f, g
<1>8. SeenAreAccepted'
  <2>1. \A id \in seen' : id \in seen \/ (id = k /\ fate = "accepted")
    OBVIOUS
  <2> QED
    BY <1>1, <1>7, <2>1 DEF AnswerInv, SeenAreAccepted
<1>9. FailuresAreInvalid'
  <2>1. \A j \in DOMAIN orders : /\ IsOrder(orders'[j].payload) = IsOrder(orders[j].payload)
                                 /\ NamesItsTable(orders'[j]) = NamesItsTable(orders[j])
    BY <1>1 DEF SameOrder, NamesItsTable
  <2>2. \A j \in DOMAIN orders \ {k} : orders'[j].fates = orders[j].fates
    BY <1>1
  <2> QED
    BY <1>1, <1>4, <2>1, <2>2 DEF AnswerInv, FailuresAreInvalid, f, g
<1>10. WindowOrders'
  BY <1>1 DEF AnswerInv, WindowOrders, FromWindow, SameOrder
<1>11. \A j \in DOMAIN orders : Answered(j)'
  <2> SUFFICES ASSUME NEW j \in DOMAIN orders
               PROVE  Answered(j)'
    OBVIOUS
  <2>1. \A n \in DOMAIN refusals : n \in DOMAIN refusals' /\ refusals'[n].of = refusals[n].of
    OBVIOUS
  <2>2. CASE j # k
    <3>1. orders'[j] = orders[j] /\ Answered(j)
      BY <1>1, <2>2 DEF AnswerInv
    <3> QED
      BY <2>1, <3>1 DEF Answered, Accepted
  <2>3. CASE j = k
    <3>1. /\ orders'[k].payload = orders[k].payload
          /\ "dropped" \in Range(g) <=> "dropped" \in Range(f) \/ fate = "dropped"
      BY <1>1, <1>4 DEF SameOrder
    <3> QED
      BY <1>7, <2>3, <3>1 DEF Answered, Settles, g
  <2> QED
    BY <2>2, <2>3
<1> QED
  BY <1>1, <1>6, <1>8, <1>9, <1>10, <1>11 DEF AnswerInv

LEMMA Marked ==
    ASSUME OrdersTyped, NEW k \in DOMAIN orders,
           \/ orders' = [orders EXCEPT ![k].lost = TRUE]
           \/ orders' = [orders EXCEPT ![k].told = TRUE]
    PROVE  /\ orders'[k].lost \/ orders'[k].told
           /\ \A j \in DOMAIN orders \ {k} : orders'[j] = orders[j]
<1>1. PICK T, P : orders \in Seq(OrderRecords(T, P))
  BY DEF OrdersTyped
<1>2. orders[k] \in OrderRecords(T, P)
  <2>1. orders \in [1..Len(orders) -> OrderRecords(T, P)] /\ DOMAIN orders = 1..Len(orders)
    BY <1>1, LenProperties
  <2> QED
    BY <2>1
<1> QED
  BY <1>2 DEF OrderRecords

LEMMA MarkingKeepsAnswers ==
    ASSUME WireInv, AnswerInv, UNCHANGED seen, refusals # << >>, refusals' = Tail(refusals),
           NEW k \in DOMAIN orders, k = Head(refusals).of,
           \/ orders' = [orders EXCEPT ![k].lost = TRUE]
           \/ orders' = [orders EXCEPT ![k].told = TRUE]
    PROVE  AnswerInv'
<1>1. /\ OrdersTyped'
      /\ DOMAIN orders' = DOMAIN orders
      /\ \A j \in DOMAIN orders : SameOrder(j) /\ orders'[j].fates = orders[j].fates
  BY Marking DEF WireInv
<1>2. /\ orders'[k].lost \/ orders'[k].told
      /\ \A j \in DOMAIN orders \ {k} : orders'[j] = orders[j]
  BY Marked DEF WireInv
<1>3. /\ Len(refusals) \in Nat /\ DOMAIN refusals = 1..Len(refusals)
      /\ Head(refusals) = refusals[1]
      /\ \A n \in DOMAIN refusals' :
             n + 1 \in DOMAIN refusals /\ refusals'[n] = refusals[n + 1]
      /\ \A n \in DOMAIN refusals \ {1} :
             n - 1 \in DOMAIN refusals' /\ refusals'[n - 1] = refusals[n]
  <2>1. PICK S : refusals \in Seq(S)
    BY DEF WireInv, RefusalsTyped
  <2>2. /\ Len(refusals) \in Nat /\ DOMAIN refusals = 1..Len(refusals) /\ Len(refusals) # 0
        /\ Head(refusals) = refusals[1]
    BY <2>1, EmptySeq, LenProperties, HeadTailProperties
  <2>3. /\ refusals' \in Seq(S) /\ Len(refusals') = Len(refusals) - 1
        /\ \A n \in 1..Len(refusals') : refusals'[n] = refusals[n + 1]
    BY <2>1, HeadTailProperties
  <2>4. DOMAIN refusals' = 1..(Len(refusals) - 1)
    BY <2>3, LenProperties
  <2>5. \A n \in 1..(Len(refusals) - 1) : n + 1 \in 1..Len(refusals)
    BY <2>2
  <2>6. \A n \in (1..Len(refusals)) \ {1} :
            n - 1 \in 1..(Len(refusals) - 1) /\ (n - 1) + 1 = n
    BY <2>2
  <2> QED
    BY <2>2, <2>3, <2>4, <2>5, <2>6
<1>4. Len(orders') = Len(orders)
  <2>1. Len(orders) \in Nat /\ DOMAIN orders = 1..Len(orders)
    BY OrdersAre DEF WireInv
  <2>2. Len(orders') \in Nat /\ DOMAIN orders' = 1..Len(orders')
    <3>1. PICK T, P : orders' \in Seq(OrderRecords(T, P))
      BY <1>1 DEF OrdersTyped, OrderRecords
    <3> QED
      BY <3>1, LenProperties
  <2> QED
    BY <1>1, <2>1, <2>2
<1>5. WithinBounds'
  BY <1>1, <1>4 DEF AnswerInv, WithinBounds
<1>6. \A j \in DOMAIN orders : Accepted(j)' = Accepted(j)
  BY <1>1 DEF Accepted
<1>7. SeenAreAccepted'
  BY <1>1, <1>6 DEF AnswerInv, SeenAreAccepted
<1>8. RefusalsHaveReasons'
  BY <1>3 DEF AnswerInv, RefusalsHaveReasons
<1>9. FailuresAreInvalid'
  <2>1. \A j \in DOMAIN orders : /\ IsOrder(orders'[j].payload) = IsOrder(orders[j].payload)
                                 /\ NamesItsTable(orders'[j]) = NamesItsTable(orders[j])
    BY <1>1 DEF SameOrder, NamesItsTable
  <2> QED
    BY <1>1, <2>1 DEF AnswerInv, FailuresAreInvalid
<1>10. WindowOrders'
  BY <1>1 DEF AnswerInv, WindowOrders, FromWindow, SameOrder
<1>11. \A j \in DOMAIN orders : Answered(j)'
  <2> SUFFICES ASSUME NEW j \in DOMAIN orders
               PROVE  Answered(j)'
    OBVIOUS
  <2>1. CASE j = k
    BY <1>2, <2>1 DEF Answered
  <2>2. CASE j # k
    <3>1. orders'[j] = orders[j] /\ Answered(j) /\ Accepted(j)' = Accepted(j)
      BY <1>2, <1>6, <2>2 DEF AnswerInv
    <3>2. ASSUME NEW n \in DOMAIN refusals, refusals[n].of = j
          PROVE  \E m \in DOMAIN refusals' : refusals'[m].of = j
      <4>1. n # 1
        BY <1>3, <2>2, <3>2
      <4> QED
        BY <1>3, <3>2, <4>1
    <3> QED
      BY <3>1, <3>2 DEF Answered
  <2> QED
    BY <2>1, <2>2
<1> QED
  BY <1>1, <1>5, <1>7, <1>8, <1>9, <1>10, <1>11 DEF AnswerInv

LEMMA DecisionsKeepAnswers ==
    ASSUME WireInv, AnswerInv, NEW k \in DOMAIN orders,
           Drop(k) \/ Refuse(k) \/ Accept(k) \/ Ignore(k)
    PROVE  AnswerInv'
<1>1. Len(orders[k].fates) < MaxCopies
  BY DEF Drop, Refuse, Accept, Ignore, Deliverable
<1>2. Welcome(k) => orders[k].payload.clientOrderId = k
  BY DEF WireInv, OrdersAreNumbered, Welcome, IsOrder
<1>3. UNCHANGED refusals => RefusalsHaveReasons'
  BY DEF AnswerInv, RefusalsHaveReasons
<1>4. CASE Drop(k)
  <2>1. Decide(k, "dropped") /\ UNCHANGED <<seen, refusals>>
    BY <1>4 DEF Drop
  <2>2. "dropped" \in Fates /\ Settles(k, "dropped")
    BY DEF Fates, Settles
  <2> QED
    BY <1>1, <1>3, <2>1, <2>2, DecidingKeepsAnswers
<1>5. CASE Refuse(k)
  <2>1. PICK reason \in ReasonsToRefuse(k) :
            PublishRejection(k, reason) /\ Decide(k, reason) /\ UNCHANGED seen
    BY <1>5 DEF Refuse
  <2>2. reason \in RejectionReasons
    BY DEF ReasonsToRefuse, RejectionReasons
  <2>3. reason \in Fates
    BY <2>2 DEF Fates
  <2>4. reason = "VALIDATION_FAILED" =>
            ~ IsOrder(orders[k].payload) \/ ~ NamesItsTable(orders[k])
    BY DEF ReasonsToRefuse
  <2>5. CASE ~ Addressable(orders[k].payload.clientId)
    <3>1. UNCHANGED refusals /\ Settles(k, reason)
      BY <2>1, <2>5 DEF PublishRejection, ReturnAddress, Settles
    <3> QED
      BY <1>1, <1>3, <2>1, <2>3, <2>4, <3>1, DecidingKeepsAnswers
  <2>6. CASE Addressable(orders[k].payload.clientId)
    <3> DEFINE refusal == [topic |-> ClientErrorTopic(orders[k].payload.clientId),
                           body |-> Rejection(k, reason), of |-> k]
    <3>1. refusals' = Append(refusals, refusal)
      BY <2>1, <2>6 DEF PublishRejection, ReturnAddress
    <3>2. refusal.of = k /\ refusal.body.reason = reason
      BY DEF Rejection
    <3> HIDE DEF refusal
    <3>3. PICK S : refusals \in Seq(S)
      BY DEF WireInv, RefusalsTyped
    <3>4. refusals \in Seq(S \cup {refusal})
      BY <3>3, SeqMonotonic
    <3>5. /\ refusals' \in Seq(S \cup {refusal})
          /\ Len(refusals') = Len(refusals) + 1
          /\ \A n \in 1..Len(refusals) : refusals'[n] = refusals[n]
          /\ refusals'[Len(refusals) + 1] = refusal
      BY <3>1, <3>4, AppendProperties
    <3>6. /\ DOMAIN refusals' = 1..(Len(refusals) + 1)
          /\ DOMAIN refusals = 1..Len(refusals) /\ Len(refusals) \in Nat
      BY <3>4, <3>5, LenProperties
    <3>7. /\ DOMAIN refusals \subseteq DOMAIN refusals'
          /\ Len(refusals) + 1 \in DOMAIN refusals'
          /\ \A n \in DOMAIN refusals' : n \in DOMAIN refusals \/ n = Len(refusals) + 1
      BY <3>6
    <3>8. RefusalsHaveReasons'
      BY <2>2, <3>2, <3>5, <3>6, <3>7 DEF AnswerInv, RefusalsHaveReasons
    <3>9. Settles(k, reason)
      BY <3>2, <3>5, <3>7 DEF Settles
    <3>10. \A n \in DOMAIN refusals : refusals'[n] = refusals[n]
      BY <3>5, <3>6
    <3> QED
      BY <1>1, <2>1, <2>3, <2>4, <3>7, <3>8, <3>9, <3>10, DecidingKeepsAnswers
  <2> QED
    BY <2>5, <2>6
<1>6. CASE Accept(k)
  <2>1. /\ Decide(k, "accepted") /\ UNCHANGED refusals /\ Welcome(k)
        /\ seen' = seen \cup {orders[k].payload.clientOrderId}
    BY <1>6 DEF Accept
  <2>2. seen' = seen \cup {k}
    BY <1>2, <2>1
  <2>3. "accepted" \in Fates /\ Settles(k, "accepted")
    BY DEF Fates, Settles
  <2> QED
    BY <1>1, <1>3, <2>1, <2>2, <2>3, DecidingKeepsAnswers
<1>7. CASE Ignore(k)
  <2>1. Decide(k, "duplicate") /\ UNCHANGED <<seen, refusals>> /\ Welcome(k) /\ IsDuplicate(k)
    BY <1>7 DEF Ignore
  <2>2. Accepted(k)
    BY <1>2, <2>1 DEF IsDuplicate, AnswerInv, SeenAreAccepted
  <2>3. "duplicate" \in Fates /\ Settles(k, "duplicate")
    BY <2>2 DEF Fates, Settles
  <2> QED
    BY <1>1, <1>3, <2>1, <2>3, DecidingKeepsAnswers
<1> QED
  BY <1>4, <1>5, <1>6, <1>7

\* A notice of a refusal that parses is on the screen when it was pushed.
LEMMA DeliveryKeepsAnswers ==
    ASSUME WireInv, AnswerInv, NoticeInv, Lose \/ \E w \in Windows : Notify(w)
    PROVE  AnswerInv'
<1>1. refusals # << >> /\ refusals' = Tail(refusals) /\ UNCHANGED seen
  BY DEF Lose, Notify
<1>2. PICK k \in DOMAIN orders : k = Head(refusals).of
  BY <1>1, RefusalsAre DEF WireInv, RefusalsAreAddressed
<1>3. CASE Lose
  <2>1. orders' = [orders EXCEPT ![k].lost = TRUE]
    BY <1>2, <1>3 DEF Lose
  <2> QED
    BY <1>1, <1>2, <2>1, MarkingKeepsAnswers
<1>4. ASSUME NEW w \in Windows, Notify(w)
      PROVE  AnswerInv'
  <2>1. ParsesAsRejection(Head(refusals).body)
    BY <1>1, RefusalsAre DEF WireInv, AnswerInv, RefusalsHaveReasons, ParsesAsRejection
  <2>2. PushNotice(w)
        /\ orders' = [orders EXCEPT ![k].told =
                         @ \/ noticeSequence'[w] \in Range(notices'[w])]
    BY <1>2, <1>4, <2>1 DEF Notify
  <2>3. noticeSequence'[w] \in Range(notices'[w])
    BY <2>2, PushKeepsNotices
  <2>4. (orders[k].told \/ noticeSequence'[w] \in Range(notices'[w])) = TRUE
    BY <2>3
  <2>5. orders' = [orders EXCEPT ![k].told = TRUE]
    BY <2>2, <2>4
  <2> QED
    BY <1>1, <1>2, <2>5, MarkingKeepsAnswers
<1> QED
  BY <1>3, <1>4

LEMMA PublishOrderKeepsAnswers ==
    ASSUME WireInv, AnswerInv, NEW w \in Windows, NEW t \in 1..(TableCount + 1),
           NEW name \in Names, PublishOrder(w, t, name)
    PROVE  AnswerInv'
<1> DEFINE payload == Payload("complete", Len(orders) + 1, w, t, Trimmed(name))
<1>1. /\ orders' = Append(orders, Order(w, OrderTopic(t), payload))
      /\ UNCHANGED <<seen, refusals>> /\ Len(orders) < MaxOrders
      /\ ValidInWindow(Trimmed(name))
  BY DEF PublishOrder
<1>2. name \in Seq(Characters)
  BY DEF Names
<1>3. IsFromWindow(w, OrderTopic(t), payload)
  <2>1. payload = Payload("complete", payload.clientOrderId, w, t, Trimmed(name))
    BY DEF Payload
  <2> HIDE DEF payload
  <2> QED
    BY <1>1, <1>2, <2>1 DEF IsFromWindow
<1> HIDE DEF payload
<1> QED
  BY <1>1, <1>3, PublishingKeepsAnswers

LEMMA StepKeepsAnswers ==
    ASSUME WireInv, AnswerInv, NoticeInv, [WireNext]_wireVars
    PROVE  AnswerInv'
<1>1. CASE \E w \in Windows, t \in 1..(TableCount + 1), name \in Names : PublishOrder(w, t, name)
  BY <1>1, PublishOrderKeepsAnswers
<1>2. ASSUME NEW level, NEW payload, PublishForeign(level, payload)
      PROVE  AnswerInv'
  <2> DEFINE topic == <<Prefix, Word("table"), level, Word("order")>>
  <2>1. /\ orders' = Append(orders, Order(NoOne, topic, payload))
        /\ UNCHANGED <<seen, refusals>> /\ Len(orders) < MaxOrders
    BY <1>2 DEF PublishForeign
  <2> HIDE DEF topic
  <2> QED
    BY <2>1, PublishingKeepsAnswers
<1>3. CASE \E k \in DOMAIN orders : Drop(k) \/ Refuse(k) \/ Accept(k) \/ Ignore(k)
  BY <1>3, DecisionsKeepAnswers
<1>4. CASE Lose \/ \E w \in Windows : Notify(w)
  BY <1>4, DeliveryKeepsAnswers
<1>5. CASE UNCHANGED wireVars \/ \E w \in Windows : Dismiss(w) \/ TimerFires(w)
  <2>1. UNCHANGED <<orders, seen, refusals>>
    BY <1>5 DEF wireVars, Dismiss, TimerFires
  <2>2. \A k : /\ Answered(k)' = Answered(k) /\ Accepted(k)' = Accepted(k)
               /\ NamesItsTable(orders'[k]) = NamesItsTable(orders[k])
    BY <2>1 DEF Answered, Accepted
  <2> QED
    BY <2>1, <2>2 DEF AnswerInv, SeenAreAccepted, RefusalsHaveReasons, FailuresAreInvalid,
                      WindowOrders, FromWindow, WithinBounds
<1> QED
  BY <1>1, <1>2, <1>3, <1>4, <1>5 DEF WireNext

LEMMA AnswersStart == WireInit => AnswerInv
<1> SUFFICES ASSUME WireInit
             PROVE  AnswerInv
  OBVIOUS
<1>1. orders = << >> /\ refusals = << >> /\ seen = {}
  BY DEF WireInit
<1>2. DOMAIN orders = {} /\ DOMAIN refusals = {} /\ Len(orders) = 0
  <2>1. << >> \in Seq({}) /\ Len(<< >>) = 0
    BY EmptySeq
  <2> QED
    BY <1>1, <2>1
<1>3. Len(orders) <= MaxOrders
  BY <1>2, WireAssumption
<1> QED
  BY <1>1, <1>2, <1>3 DEF AnswerInv, SeenAreAccepted, RefusalsHaveReasons, FailuresAreInvalid,
                          WindowOrders, WithinBounds

LEMMA WireInvariants == WireSpec => [](WireInv /\ AnswerInv /\ NoticeInv)
<1>1. WireInit => WireInv /\ AnswerInv /\ NoticeInv
  BY WireInitEstablishesInv, AnswersStart, NoticesStart
<1>2. WireInv /\ AnswerInv /\ NoticeInv /\ [WireNext]_wireVars =>
          WireInv' /\ AnswerInv' /\ NoticeInv'
  BY WireStepKeepsInv, StepKeepsAnswers, StepKeepsNotices
<1> QED
  BY <1>1, <1>2, PTL DEF WireSpec

-----------------------------------------------------------------------------
(* How notices leave *)

\* What NoticesStayTheirTime says of one step, of one window.
LeavesInTime(w) ==
    \A id \in Range(notices[w]) \ Range(notices'[w]) :
        \/ id \in timers[w] \ timers'[w]
        \/ /\ Len(notices'[w]) = MaxVisibleNotices
           /\ \A later \in Range(notices'[w]) : id < later
        \/ /\ Range(notices[w]) = Range(notices'[w]) \cup {id}
           /\ UNCHANGED <<timers, noticeSequence>>

\* What an end of increasing numbers lacks comes before it, and it is a full one.
LEMMA PushedOff ==
    ASSUME NEW S \in SUBSET Nat, NEW s \in Seq(S), Increasing(s), NEW m \in Nat \ {0},
           NEW last \in Seq(S), IsEnd(last, s, m), NEW id \in Range(s) \ Range(last)
    PROVE  Len(last) = m /\ \A later \in Range(last) : id < later
<1> DEFINE n == Len(s)
           l == Len(last)
<1>1. n \in Nat /\ DOMAIN s = 1..n /\ l \in Nat /\ DOMAIN last = 1..l
  BY LenProperties
<1>2. PICK b \in Nat :
          /\ b + l = n /\ (b = 0 \/ l = m)
          /\ \A i \in 1..l : b + i \in 1..n /\ last[i] = s[b + i]
  BY DEF IsEnd
<1>3. \A i, j \in 1..n : i < j => s[i] < s[j]
  BY DEF Increasing
<1> HIDE DEF n, l
<1>4. PICK k \in 1..n : s[k] = id
  BY <1>1 DEF Range
<1>5. ~ (k > b)
  <2> SUFFICES ASSUME k > b
               PROVE  FALSE
    OBVIOUS
  <2>1. k - b \in 1..l /\ b + (k - b) = k
    BY <1>1, <1>2
  <2>2. last[k - b] = id
    BY <1>2, <1>4, <2>1
  <2> QED
    BY <1>1, <2>1, <2>2 DEF Range
<1>6. l = m
  BY <1>1, <1>2, <1>5
<1>7. ASSUME NEW later \in Range(last)
      PROVE  id < later
  <2>1. PICK i \in 1..l : last[i] = later
    BY <1>1 DEF Range
  <2>2. b + i \in 1..n /\ later = s[b + i]
    BY <1>2, <2>1
  <2>3. k < b + i
    BY <1>1, <1>2, <1>5
  <2> QED
    BY <1>3, <1>4, <2>2, <2>3
<1> QED
  BY <1>6, <1>7 DEF l

LEMMA PushLeavesInTime ==
    ASSUME NoticeInv, NEW w \in Windows, PushNotice(w)
    PROVE  LeavesInTime(w)
<1> DEFINE n == noticeSequence[w]
           list == Append(notices[w], n + 1)
           last == LastOf(list, MaxVisibleNotices)
<1>1. n \in Nat /\ notices[w] \in Seq(1..n) /\ Increasing(notices[w])
  BY DEF NoticeInv, NoticesOf
<1>2. notices'[w] = last
  BY DEF PushNotice, LastOf, NoticeInv
<1> HIDE DEF n
<1>3. notices[w] \in Seq(1..n + 1) /\ n + 1 \in 1..n + 1
  <2>1. 1..n \subseteq 1..n + 1 /\ n + 1 \in 1..n + 1
    BY <1>1
  <2> QED
    BY <1>1, <2>1, SeqMonotonic
<1>4. /\ list \in Seq(1..n + 1) /\ Len(list) = Len(notices[w]) + 1 /\ list # << >>
      /\ \A i \in 1..Len(notices[w]) : list[i] = notices[w][i]
      /\ list[Len(notices[w]) + 1] = n + 1
  BY <1>3, AppendProperties
<1>5. Len(notices[w]) \in Nat /\ DOMAIN notices[w] = 1..Len(notices[w])
  BY <1>1, LenProperties
<1> HIDE DEF list
<1>6. Increasing(list)
  BY <1>1, <1>4, <1>5, AppendedIncreases
<1>7. DOMAIN list = 1..(Len(notices[w]) + 1)
  BY <1>4, LenProperties
<1>8. Range(notices[w]) \subseteq Range(list)
  BY <1>4, <1>5, <1>7 DEF Range
<1>9. MaxVisibleNotices \in Nat \ {0}
  BY WireAssumption
<1>10. last \in Seq(1..n + 1) /\ IsEnd(last, list, MaxVisibleNotices)
  BY <1>4, <1>9, LastElements
<1> HIDE DEF last
<1>11. 1..n + 1 \in SUBSET Nat
  BY <1>1
<1>12. ASSUME NEW id \in Range(notices[w]) \ Range(last)
       PROVE  Len(last) = MaxVisibleNotices /\ \A later \in Range(last) : id < later
  <2>1. id \in Range(list) \ Range(last)
    BY <1>8, <1>12
  <2> QED
    BY <1>4, <1>6, <1>9, <1>10, <1>11, <2>1, PushedOff
<1> QED
  BY <1>2, <1>12 DEF LeavesInTime

LEMMA DismissLeavesInTime ==
    ASSUME NoticeInv, NEW w \in Windows, NEW id, DismissNotice(w, id),
           \/ id \in timers[w] \ timers'[w]
           \/ id \in Range(notices[w]) /\ UNCHANGED <<timers, noticeSequence>>
    PROVE  LeavesInTime(w)
<1> DEFINE rest == RemoveFirst(notices[w], id)
<1>1. notices'[w] = rest
  BY DEF DismissNotice, NoticeInv
<1>2. Range(rest) = Range(notices[w]) \ {id}
  <2>1. /\ 1..noticeSequence[w] \in SUBSET Nat
        /\ notices[w] \in Seq(1..noticeSequence[w]) /\ Increasing(notices[w])
    BY DEF NoticeInv, NoticesOf
  <2> QED
    BY <2>1, DismissedIs
<1> HIDE DEF rest
<1> QED
  BY <1>1, <1>2 DEF LeavesInTime

\* For any number of windows, notices and places: a timer that runs on, of a notice that
\* was pushed off or dismissed, takes no other notice away (stores.ts:51-61).
THEOREM TimersTakeTheirOwn == WireSpec => NoticesStayTheirTime
<1>1. ASSUME NoticeInv, [WireNext]_wireVars, NEW w \in Windows
      PROVE  LeavesInTime(w)
  <2>1. UNCHANGED notices => LeavesInTime(w)
    BY DEF LeavesInTime
  <2>2. ASSUME NEW v \in Windows, v # w, PushNotice(v) \/ \E id : DismissNotice(v, id)
        PROVE  LeavesInTime(w)
    <3>1. notices'[w] = notices[w]
      BY <1>1, <2>2 DEF PushNotice, DismissNotice, NoticeInv
    <3> QED
      BY <3>1 DEF LeavesInTime
  <2>3. ASSUME NEW v \in Windows, Notify(v)
        PROVE  LeavesInTime(w)
    <3>1. PushNotice(v) \/ UNCHANGED notices
      BY <2>3 DEF Notify, noticeVars
    <3> QED
      BY <1>1, <2>1, <2>2, <3>1, PushLeavesInTime
  <2>4. ASSUME NEW v \in Windows, Dismiss(v)
        PROVE  LeavesInTime(w)
    <3>1. PICK id \in Range(notices[v]) : DismissNotice(v, id)
      BY <2>4 DEF Dismiss
    <3>2. UNCHANGED <<timers, noticeSequence>>
      BY <2>4 DEF Dismiss
    <3> QED
      BY <1>1, <2>2, <3>1, <3>2, DismissLeavesInTime
  <2>5. ASSUME NEW v \in Windows, TimerFires(v)
        PROVE  LeavesInTime(w)
    <3>1. DismissNotice(v, Min(timers[v]))
      BY <2>5 DEF TimerFires
    <3>2. Min(timers[v]) \in timers[v]
      <4>1. timers[v] \in SUBSET Nat /\ timers[v] # {}
        BY <1>1, <2>5 DEF NoticeInv, NoticesOf, TimerFires
      <4> QED
        BY <4>1, LeastIndex
    <3>3. timers'[v] = timers[v] \ {Min(timers[v])}
      BY <1>1, <2>5 DEF TimerFires, NoticeInv
    <3>4. v = w => LeavesInTime(w)
      BY <1>1, <3>1, <3>2, <3>3, DismissLeavesInTime
    <3> QED
      BY <2>2, <3>1, <3>4
  <2>6. CASE UNCHANGED wireVars
    BY <2>1, <2>6 DEF wireVars, noticeVars
  <2>7. CASE \/ \E v \in Windows, t \in 1..(TableCount + 1), name \in Names : PublishOrder(v, t, name)
             \/ \E level \in {Word("bar"), Number(1), Number(2)}, payload \in ForeignPayloads :
                    PublishForeign(level, payload)
             \/ \E k \in DOMAIN orders : Drop(k) \/ Refuse(k) \/ Accept(k) \/ Ignore(k)
             \/ Lose
    <3>1. UNCHANGED notices
      BY <2>7 DEF PublishOrder, PublishForeign, Drop, Refuse, Accept, Ignore, Lose, noticeVars
    <3> QED
      BY <2>1, <3>1
  <2> QED
    BY <1>1, <2>3, <2>4, <2>5, <2>6, <2>7 DEF WireNext
<1> DEFINE InTime == \A w \in Windows : LeavesInTime(w)
<1>2. NoticeInv /\ [WireNext]_wireVars => InTime
  BY <1>1
<1>3. NoticesStayTheirTime <=> [][InTime]_wireVars
  BY DEF NoticesStayTheirTime, LeavesInTime
<1> HIDE DEF InTime
<1>4. NoticeInv /\ [WireNext]_wireVars => [InTime]_wireVars
  BY <1>2
<1> QED
  BY <1>3, <1>4, WireInvariants, PTL DEF WireSpec

-----------------------------------------------------------------------------
\* Every order, however often it arrives and whoever sent it, is cooked, or a refusal
\* of it reaches its author's screen or is lost by a link, if there is an author to
\* be told (kitchen.py:222-257, 319-340).
THEOREM EveryOrderIsAnswered == WireSpec => []OrdersAreAnswered
<1>1. AnswerInv => OrdersAreAnswered
  BY DEF AnswerInv, OrdersAreAnswered, Answered
<1> QED
  BY <1>1, WireInvariants, PTL

\* For names of any length: what a window lets pass fails the kitchen's validation
\* only if it is made of U+0085 and blanks between (state.ts:165-177, models.py:90-98).
THEOREM WindowsValidateEnough == WireSpec => []WindowNamesAreAccepted
<1>1. ASSUME AnswerInv
      PROVE  WindowNamesAreAccepted
  <2> SUFFICES ASSUME NEW k \in DOMAIN orders, FromWindow(k),
                      "VALIDATION_FAILED" \in Range(orders[k].fates)
               PROVE  Range(orders[k].payload.foodName) \ {"blank"} = {"nel"}
    BY DEF WindowNamesAreAccepted
  <2> DEFINE payload == orders[k].payload
  <2>1. PICK t \in 1..(TableCount + 1), typed \in Seq(Characters) :
            /\ orders[k].topic = OrderTopic(t)
            /\ payload = Payload("complete", payload.clientOrderId, orders[k].author, t,
                                 Trimmed(typed))
            /\ ValidInWindow(Trimmed(typed))
    BY <1>1 DEF AnswerInv, WindowOrders, IsFromWindow
  <2>2. /\ payload.shape = "complete" /\ payload.clientId = orders[k].author
        /\ payload.tableId = t /\ payload.foodName = Trimmed(typed)
    <3> HIDE DEF payload
    <3> QED
      BY <2>1 DEF Payload
  <2>3. NamesItsTable(orders[k])
    <3>1. TableIdsFrom(OrderTopic(t)) = {t}
      BY DEF TableIdsFrom, OrderTopic, Prefix, Word, Number
    <3> QED
      BY <2>1, <2>2, <3>1 DEF NamesItsTable
  <2>4. ~ IsOrder(payload)
    BY <1>1, <2>3 DEF AnswerInv, FailuresAreInvalid
  <2>5. ~ ValidInKitchen(payload.foodName)
    BY <2>2, <2>4 DEF IsOrder, FromWindow
  <2> HIDE DEF payload
  <2>6. Range(payload.foodName) \ {"blank"} = {"nel"}
    BY <2>1, <2>2, <2>5, NamesAreAccepted
  <2> QED
    BY <2>6 DEF payload
<1> QED
  BY <1>1, WireInvariants, PTL

\* The types: of orders and refusals, and of what a window shows of them.
THEOREM WireTypesAreCorrect == WireSpec => []WireTypeOK
<1>1. ASSUME WireInv, AnswerInv, NoticeInv
      PROVE  WireTypeOK
  <2>1. PICK T, P : orders \in Seq(OrderRecords(T, P))
    BY <1>1 DEF WireInv, OrdersTyped
  <2>2. Len(orders) \in Nat /\ DOMAIN orders = 1..Len(orders)
    BY <2>1, LenProperties
  <2>3. Len(orders) \in 0..MaxOrders
    BY <1>1, <2>2, WireAssumption DEF AnswerInv, WithinBounds
  <2>4. ASSUME NEW k \in DOMAIN orders
        PROVE  /\ orders[k].author \in Windows \cup {NoOne}
               /\ Len(orders[k].fates) \in 0..MaxCopies
               /\ Range(orders[k].fates) \subseteq
                      RejectionReasons \cup {"accepted", "duplicate", "dropped"}
               /\ {orders[k].told, orders[k].lost} \subseteq BOOLEAN
    <3>1. orders[k] \in OrderRecords(T, P)
      BY <2>1, <2>2, ElementOfSeq
    <3>2. /\ orders[k].author \in Windows \cup {NoOne} /\ orders[k].fates \in Seq(Fates)
          /\ orders[k].told \in BOOLEAN /\ orders[k].lost \in BOOLEAN
      BY <3>1 DEF OrderRecords
    <3> DEFINE f == orders[k].fates
    <3>3. f \in Seq(Fates) /\ Len(f) <= MaxCopies
      BY <1>1, <3>2 DEF AnswerInv, WithinBounds
    <3> HIDE DEF f
    <3>4. Len(f) \in Nat /\ \A i \in DOMAIN f : f[i] \in Fates
      BY <3>3, LenProperties, ElementOfSeq
    <3>5. Len(f) \in 0..MaxCopies /\ Range(f) \subseteq Fates
      BY <3>3, <3>4, WireAssumption DEF Range
    <3> QED
      BY <3>2, <3>5 DEF Fates, f
  <2>5. seen \subseteq 1..MaxOrders
    <3>1. 1..Len(orders) \subseteq 1..MaxOrders
      BY <2>3, WireAssumption
    <3> QED
      BY <1>1, <2>2, <3>1 DEF AnswerInv, SeenAreAccepted
  <2>6. ASSUME NEW n \in DOMAIN refusals
        PROVE  refusals[n].of \in DOMAIN orders /\ refusals[n].body.reason \in RejectionReasons
    BY <1>1 DEF WireInv, RefusalsAreAddressed, AnswerInv, RefusalsHaveReasons
  <2>7. ASSUME NEW w \in Windows
        PROVE  /\ notices[w] \in Seq(1..noticeSequence[w])
               /\ timers[w] \subseteq 1..noticeSequence[w]
               /\ Len(notices[w]) <= MaxVisibleNotices
    BY <1>1 DEF NoticeInv, NoticesOf
  <2> QED
    BY <2>3, <2>4, <2>5, <2>6, <2>7 DEF WireTypeOK
<1> QED
  BY <1>1, WireInvariants, PTL
=============================================================================
