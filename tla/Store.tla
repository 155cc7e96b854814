------------------------------- MODULE Store -------------------------------
(***************************************************************************)
(* InMemoryStore (backend/src/restaurant/store.py): the tables with their  *)
(* orders and versions, the epoch, and the cache of client order ids.      *)
(*                                                                         *)
(* Every method of the store is synchronous and asyncio switches tasks     *)
(* only at an await, so a method is one atomic action here.  A method that *)
(* changes part of the state is an action on the variables it assigns, and *)
(* the kitchen conjoins the ones its code calls in one stretch.            *)
(*                                                                         *)
(* An order id (uuid4().hex) is abstracted to the number of the order, in  *)
(* order of acceptance: it is fresh, and "inserted earlier" is "<".  An    *)
(* epoch (a uuid too) is the number of the generation.                     *)
(***************************************************************************)
EXTENDS Naturals, Sequences, FiniteSets

CONSTANTS
    Tables,            \* Settings.table_ids
    ClientOrders,      \* the client order ids that browsers generate
    MaxServedHistory,  \* finished orders a table keeps (10 in the code)
    DedupeCacheSize,   \* client order ids remembered (1000 by default)
    MaxOrders,         \* bound: orders accepted in a behaviour
    MaxEpochs          \* bound: generations in a behaviour

ASSUME TablesAssumption == Tables \subseteq Nat \ {0} /\ Tables # {} /\ IsFiniteSet(Tables)
ASSUME HistoryAssumption == MaxServedHistory \in Nat
ASSUME DedupeAssumption == DedupeCacheSize \in Nat \ {0}
ASSUME BoundsAssumption == MaxOrders \in Nat /\ MaxEpochs \in Nat \ {0}

VARIABLES
    epoch,    \* InMemoryStore._epoch
    version,  \* version[t]: _TableRecord.version
    orders,   \* orders[t]: _TableRecord.orders, status by order id
    seen,     \* _seen_client_orders, oldest first
    placed    \* the number of orders ever added, the source of fresh ids

storeVars == <<epoch, version, orders, seen, placed>>

OrderStatus == {"COOKING", "SERVED", "FAILED"}

NoOrders == [i \in {} |-> "COOKING"]

Histories == UNION {[S -> OrderStatus] : S \in SUBSET (1..placed)}

-----------------------------------------------------------------------------
(* Queries *)

Cooking(o) == {i \in DOMAIN o : o[i] = "COOKING"}

Finished(o) == DOMAIN o \ Cooking(o)

IsCooking(t, i) == i \in Cooking(orders[t])

IsDuplicate(c) == \E k \in 1..Len(seen) : seen[k] = c

CookingCount(t) == Cardinality(Cooking(orders[t]))

AllCooking == UNION {{t} \X Cooking(orders[t]) : t \in Tables}

TotalCookingCount == Cardinality(AllCooking)

Snapshot(t) ==
    [table |-> t, epoch |-> epoch, version |-> version[t], orders |-> orders[t]]

AllSnapshots == [t \in Tables |-> Snapshot(t)]

-----------------------------------------------------------------------------
(* Mutations *)

\* The definitions whose names say what is wrong with them (EvictedOneTooFew,
\* FinishOrderUnchecked, ...) are used by no action: each is a mistake in the
\* definition that follows it, which some property has to catch.

\* _trim_served_history: of the finished orders, in insertion order, all but
\* the last MaxServedHistory are deleted.
EvictedOneTooFew(o) ==
    {i \in Finished(o) :
        Cardinality({j \in Finished(o) : j > i}) > MaxServedHistory}

EvictedYoungest(o) ==
    {i \in Finished(o) :
        Cardinality({j \in Finished(o) : j < i}) >= MaxServedHistory}

Evicted(o) ==
    {i \in Finished(o) :
        Cardinality({j \in Finished(o) : j > i}) >= MaxServedHistory}

Trimmed(o) == [i \in DOMAIN o \ Evicted(o) |-> o[i]]

WithOrder(o, i, status) ==
    [j \in DOMAIN o \cup {i} |-> IF j = i THEN status ELSE o[j]]

AddOrder(t) ==
    /\ placed' = placed + 1
    /\ orders' = [orders EXCEPT ![t] = Trimmed(WithOrder(@, placed + 1, "COOKING"))]
    /\ version' = [version EXCEPT ![t] = @ + 1]

\* finish_order, when it does not return None.
FinishOrderUnchecked(t, i, status) ==
    /\ i \in DOMAIN orders[t]
    /\ orders' = [orders EXCEPT ![t] = Trimmed(WithOrder(@, i, status))]
    /\ version' = [version EXCEPT ![t] = @ + 1]

FinishOrderSameVersion(t, i, status) ==
    /\ IsCooking(t, i)
    /\ orders' = [orders EXCEPT ![t] = Trimmed(WithOrder(@, i, status))]
    /\ UNCHANGED version

FinishOrder(t, i, status) ==
    /\ IsCooking(t, i)
    /\ orders' = [orders EXCEPT ![t] = Trimmed(WithOrder(@, i, status))]
    /\ version' = [version EXCEPT ![t] = @ + 1]

\* remember_client_order: c becomes the newest key, the oldest is dropped when
\* there is one too many.
NotMovedToEnd(s, c) ==
    IF \E k \in 1..Len(s) : s[k] = c THEN s ELSE Append(s, c)

MovedToEnd(s, c) ==
    Append(IF \E k \in 1..Len(s) : s[k] = c
             THEN LET k == CHOOSE k \in 1..Len(s) : s[k] = c
                  IN  SubSeq(s, 1, k - 1) \o SubSeq(s, k + 1, Len(s))
             ELSE s,
           c)

RememberClientOrder(c) ==
    LET all == MovedToEnd(seen, c)
    IN  seen' = IF Len(all) > DedupeCacheSize THEN Tail(all) ELSE all

Reset ==
    /\ epoch' = epoch + 1
    /\ seen' = << >>
    /\ orders' = [t \in Tables |-> NoOrders]
    /\ version' = [t \in Tables |-> 0]

-----------------------------------------------------------------------------
(* The store under any caller that respects its protocol.                  *)

StoreInit ==
    /\ epoch = 1
    /\ version = [t \in Tables |-> 0]
    /\ orders = [t \in Tables |-> NoOrders]
    /\ seen = << >>
    /\ placed = 0

\* _try_accept remembers the client's id and adds the order in one step.
StoreAccept(t, c) ==
    /\ placed < MaxOrders
    /\ RememberClientOrder(c)
    /\ AddOrder(t)
    /\ UNCHANGED epoch

StoreFinish(t, i, status) ==
    /\ FinishOrder(t, i, status)
    /\ UNCHANGED <<epoch, seen, placed>>

StoreReset ==
    /\ epoch < MaxEpochs
    /\ Reset
    /\ UNCHANGED placed

StoreNext ==
    \/ \E t \in Tables, c \in ClientOrders : StoreAccept(t, c)
    \/ \E t \in Tables, i \in 1..placed, s \in OrderStatus \ {"COOKING"} :
           StoreFinish(t, i, s)
    \/ StoreReset

StoreSpec == StoreInit /\ [][StoreNext]_storeVars

-----------------------------------------------------------------------------
(* Properties *)

\* The state has its types: every table maps ids that were handed out to a
\* status, and the cache holds client order ids.
StoreTypeOK ==
    /\ epoch \in 1..MaxEpochs
    /\ placed \in 0..MaxOrders
    /\ version \in [Tables -> Nat]
    /\ orders \in [Tables -> Histories]
    /\ seen \in Seq(ClientOrders)

\* The retained payload stays bounded: however orders finish, a table never
\* keeps more than MaxServedHistory finished ones (store.py:166-178).
HistoryBounded ==
    \A t \in Tables : Cardinality(Finished(orders[t])) <= MaxServedHistory

\* The key by which browsers deduplicate, (epoch, version), identifies the
\* content of a table: whatever is done to a table, what it holds changes only
\* with a new epoch or a higher version of that table (store.py:119-164).
VersionIdentifiesContent ==
    [][\A t \in Tables :
           \/ epoch' > epoch
           \/ version'[t] > version[t]
           \/ orders'[t] = orders[t] /\ version'[t] = version[t]]_storeVars

\* "SERVED (food visible on the table)", docs/EVENT-CONTRACT.md section 4: an
\* order that stops cooking is on its table, finished, in the very state that
\* records it.
ServedIsVisible ==
    [][epoch' = epoch =>
          \A t \in Tables : \A i \in Cooking(orders[t]) :
              i \in DOMAIN orders'[t]]_storeVars

\* What the trimming may cost: an order leaves its table, unless the store is reset,
\* only where MaxServedHistory finished orders that arrived later stay.  The last
\* MaxServedHistory to arrive are so never lost (store.py:166-178).
LatestAreKept ==
    [][epoch' = epoch =>
          \A t \in Tables : \A i \in DOMAIN orders[t] \ DOMAIN orders'[t] :
              Cardinality({j \in Finished(orders'[t]) : j > i}) = MaxServedHistory]_storeVars
=============================================================================
