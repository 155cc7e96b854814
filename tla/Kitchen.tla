------------------------------ MODULE Kitchen ------------------------------
(***************************************************************************)
(* Kitchen (backend/src/restaurant/kitchen.py): the consumer of orders and *)
(* the cooking tasks, over the store and a publisher.                      *)
(*                                                                         *)
(* A coroutine runs from one await to the next without interruption, so an *)
(* action is such a stretch.  A publish hands the packet over before it    *)
(* suspends: an action that publishes sends, and a later action resumes    *)
(* the coroutine when the acknowledgement or the timeout is in.  The       *)
(* transport calls announce_online, handle_message and shutdown one after  *)
(* the other, so they share one program counter, main; each cooking task   *)
(* has its own, in cooks.                                                  *)
(*                                                                         *)
(* Cook times are not modelled: the tasks wake in any order.  Messages     *)
(* that change nothing and are answered by nothing (an unroutable topic, a *)
(* malformed payload without a return address, a duplicate, a reset while  *)
(* resets are disabled) leave the state as it is and have no action.       *)
(***************************************************************************)
EXTENDS Store

CONSTANTS
    MaxOrdersPerTable,  \* Settings.max_orders_per_table
    MaxOrdersGlobal,    \* Settings.max_orders_global
    EnableReset         \* Settings.enable_reset

ASSUME CapacityAssumption ==
    MaxOrdersPerTable \in Nat \ {0} /\ MaxOrdersGlobal \in Nat \ {0}
ASSUME SwitchAssumption == EnableReset \in BOOLEAN

VARIABLES
    main,      \* where the one caller of the kitchen's methods stands
    cooks,     \* _cook_tasks: table and progress of each task, by order id
    link,      \* does a published packet reach the broker?
    retained,  \* the broker's retained slot of each table's topic
    status     \* the broker's retained slot of restaurant/kitchen/status

kitchenVars == <<main, cooks, link, retained, status>>
vars == <<storeVars, kitchenVars>>

Nothing == [empty |-> TRUE]

UnknownTable == 0

Idle == [at |-> "idle"]

\* ReconnectingPublisher.publish: a publish without a working link is dropped.
Publish(t, state) ==
    retained' = IF link = "up" THEN [retained EXCEPT ![t] = state] ELSE retained

PublishStatus(s) ==
    status' = IF link = "up" THEN s ELSE status

First(S) == CHOOSE t \in S : \A u \in S : t <= u

\* The loops "for state in all_snapshots(): await publish": the batch is taken
\* once, its first table is sent at once, the others after each resumption.
StartBatch(then, batch) ==
    /\ main' = [at |-> "publishing", then |-> then,
                left |-> Tables \ {First(Tables)}, batch |-> batch]
    /\ Publish(First(Tables), batch[First(Tables)])

-----------------------------------------------------------------------------
(* Orders: _handle_order_message and _try_accept.  A message carries the    *)
(* client's order id c; its topic and payload both name a table, t.         *)

GlobalRoom == TotalCookingCount < MaxOrdersGlobal

TableRoomOneMore(t) == CookingCount(t) <= MaxOrdersPerTable

TableRoom(t) == CookingCount(t) < MaxOrdersPerTable

\* Without the entry in the cache of seen ids.
AcceptUnremembered(t, c) ==
    /\ main = Idle
    /\ ~ IsDuplicate(c)
    /\ GlobalRoom
    /\ TableRoom(t)
    /\ placed < MaxOrders
    /\ AddOrder(t)
    /\ UNCHANGED <<epoch, seen>>
    /\ Publish(t, Snapshot(t)')
    /\ main' = [at |-> "accepting", table |-> t, order |-> placed']
    /\ UNCHANGED <<cooks, link, status>>

Accept(t, c) ==
    /\ main = Idle
    /\ ~ IsDuplicate(c)
    /\ GlobalRoom
    /\ TableRoom(t)
    /\ StoreAccept(t, c)
    /\ Publish(t, Snapshot(t)')
    /\ main' = [at |-> "accepting", table |-> t, order |-> placed']
    /\ UNCHANGED <<cooks, link, status>>

\* A task nobody holds a reference to is collected and never finishes.
SpawnWeak ==
    /\ main.at = "accepting"
    /\ main' = Idle
    /\ UNCHANGED <<storeVars, cooks, link, retained, status>>

\* The publish returns: the cook is spawned.
Spawn ==
    /\ main.at = "accepting"
    /\ cooks' = [i \in DOMAIN cooks \cup {main.order} |->
                    IF i = main.order THEN [table |-> main.table, at |-> "sleeping"]
                    ELSE cooks[i]]
    /\ main' = Idle
    /\ UNCHANGED <<storeVars, link, retained, status>>

\* _parse_order: a payload may fail validation whatever the state.
InvalidPayload == {"VALIDATION_FAILED"}

\* Why an order is refused, in the order of the checks.  One that names another
\* table than its topic counts as invalid too.  t may be none of Tables.
Refusal(t, c) ==
    InvalidPayload \cup
    IF t \notin Tables THEN {"UNKNOWN_TABLE"}
    ELSE IF IsDuplicate(c) THEN {}
    ELSE IF ~ GlobalRoom THEN {"KITCHEN_AT_CAPACITY"}
    ELSE IF ~ TableRoom(t) THEN {"TABLE_AT_CAPACITY"}
    ELSE {}

Refuse(t, c) ==
    /\ main = Idle
    /\ \E r \in Refusal(t, c) :
           main' = [at |-> "refusing", order |-> c, reason |-> r]
    /\ UNCHANGED <<storeVars, cooks, link, retained, status>>

RefusalSent ==
    /\ main.at = "refusing"
    /\ main' = Idle
    /\ UNCHANGED <<storeVars, cooks, link, retained, status>>

-----------------------------------------------------------------------------
(* Cancelling and resetting: _cancel_all_cooking, _handle_reset, shutdown.  *)

AllCancelled == [i \in DOMAIN cooks |-> [cooks[i] EXCEPT !.at = "cancelled"]]

\* store.reset() and the republication of every table; cooks are unwound.
WipeAndRepublish ==
    /\ StoreReset
    /\ StartBatch("reset", AllSnapshots')
    /\ UNCHANGED <<cooks, link, status>>

GoOffline ==
    /\ PublishStatus("OFFLINE")
    /\ main' = [at |-> "closing"]
    /\ UNCHANGED <<storeVars, cooks, link, retained>>

CancelThen(then) ==
    /\ DOMAIN cooks # {}
    /\ cooks' = AllCancelled
    /\ main' = [at |-> "cancelling", then |-> then]
    /\ UNCHANGED <<storeVars, link, retained, status>>

ResetUncancelled ==
    /\ main = Idle
    /\ EnableReset
    /\ epoch < MaxEpochs
    /\ WipeAndRepublish

HandleReset ==
    /\ main = Idle
    /\ EnableReset
    /\ epoch < MaxEpochs
    /\ \/ DOMAIN cooks = {} /\ WipeAndRepublish
       \/ CancelThen("reset")

Shutdown ==
    /\ main = Idle
    /\ \/ DOMAIN cooks = {} /\ GoOffline
       \/ CancelThen("offline")

\* gather() returns when every cancelled task has unwound.
Cancelled ==
    /\ main.at = "cancelling"
    /\ DOMAIN cooks = {}
    /\ \/ main.then = "reset" /\ WipeAndRepublish
       \/ main.then = "offline" /\ GoOffline

Closed ==
    /\ main.at = "closing"
    /\ main' = [at |-> "closed"]
    /\ UNCHANGED <<storeVars, cooks, link, retained, status>>

-----------------------------------------------------------------------------
(* Publishing every table: announce_online, and the tail of a reset.        *)

AnnounceOnline ==
    /\ main = Idle
    /\ StartBatch("online", AllSnapshots)
    /\ UNCHANGED <<storeVars, cooks, link, status>>

PublishNext ==
    /\ main.at = "publishing"
    /\ main.left # {}
    /\ Publish(First(main.left), main.batch[First(main.left)])
    /\ main' = [main EXCEPT !.left = @ \ {First(@)}]
    /\ UNCHANGED <<storeVars, cooks, link, status>>

BatchPublished ==
    /\ main.at = "publishing"
    /\ main.left = {}
    /\ \/ main.then = "reset" /\ main' = Idle /\ UNCHANGED status
       \/ main.then = "online" /\ main' = [at |-> "greeting"] /\ PublishStatus("ONLINE")
    /\ UNCHANGED <<storeVars, cooks, link, retained>>

Greeted ==
    /\ main.at = "greeting"
    /\ main' = Idle
    /\ UNCHANGED <<storeVars, cooks, link, retained, status>>

\* A publish that raises, other than for a lost link, ends the handler:
\* handle_message logs the exception and drops what was left to do.
PublishFails ==
    /\ \/ main.at \in {"accepting", "refusing"}
       \/ main.at = "publishing" /\ main.then = "reset"
    /\ main' = Idle
    /\ UNCHANGED <<storeVars, cooks, link, retained, status>>

-----------------------------------------------------------------------------
(* A cooking task: _cook. *)

WithoutCook(i) == [j \in DOMAIN cooks \ {i} |-> cooks[j]]

\* The sleep ends.  finish_order may find the order gone.
ServeStale(i) ==
    \E t \in Tables :
        /\ cooks[i] = [table |-> t, at |-> "sleeping"]
        /\ IF IsCooking(t, i)
             THEN /\ StoreFinish(t, i, "SERVED")
                  /\ Publish(t, Snapshot(t))
                  /\ cooks' = [cooks EXCEPT ![i].at = "publishing"]
             ELSE /\ cooks' = WithoutCook(i)
                  /\ UNCHANGED <<storeVars, retained>>
        /\ UNCHANGED <<main, link, status>>

Serve(i) ==
    \E t \in Tables :
        /\ cooks[i] = [table |-> t, at |-> "sleeping"]
        /\ IF IsCooking(t, i)
             THEN /\ StoreFinish(t, i, "SERVED")
                  /\ Publish(t, Snapshot(t)')
                  /\ cooks' = [cooks EXCEPT ![i].at = "publishing"]
             ELSE /\ cooks' = WithoutCook(i)
                  /\ UNCHANGED <<storeVars, retained>>
        /\ UNCHANGED <<main, link, status>>

\* The task ends: its publish returned, or raised and _mark_failed found the
\* order no longer COOKING, or its cancellation has unwound.
CookEnds(i) ==
    /\ cooks[i].at \in {"publishing", "cancelled"}
    /\ cooks' = WithoutCook(i)
    /\ UNCHANGED <<storeVars, main, link, retained, status>>

-----------------------------------------------------------------------------
(* The environment: the link comes and goes.  Transport says when.          *)

LinkChanges ==
    /\ link' \in {"up", "down"} \ {link}
    /\ UNCHANGED <<storeVars, main, cooks, retained, status>>

Init ==
    /\ StoreInit
    /\ main = Idle
    /\ cooks = [i \in {} |-> Nothing]
    /\ link = "up"
    /\ retained = [t \in Tables |-> Nothing]
    /\ status = "none"

Resume ==
    \/ Spawn \/ RefusalSent \/ Cancelled \/ Closed
    \/ PublishNext \/ BatchPublished \/ Greeted

HandleMessage ==
    \/ \E t \in Tables, c \in ClientOrders : Accept(t, c)
    \/ \E t \in Tables \cup {UnknownTable}, c \in ClientOrders : Refuse(t, c)
    \/ HandleReset

CookStep(i) == Serve(i) \/ CookEnds(i)

Steps ==
    \/ HandleMessage
    \/ AnnounceOnline
    \/ Shutdown
    \/ Resume
    \/ \E i \in DOMAIN cooks : CookStep(i)
    \/ LinkChanges

Next == Steps \/ PublishFails

Spec == Init /\ [][Next]_vars

\* With a publisher that raises nothing.
SteadySpec == Init /\ [][Steps]_vars

\* The event loop runs every ready coroutine, every sleep ends, and every
\* publish returns: with its acknowledgement, or by the client's timeout.
Fairness ==
    /\ WF_vars(Resume)
    /\ \A i \in 1..MaxOrders : WF_vars(i \in DOMAIN cooks /\ CookStep(i))

FairSpec == Spec /\ Fairness

FairSteadySpec == SteadySpec /\ Fairness

-----------------------------------------------------------------------------
(* Properties *)

Snapshots ==
    [table : Tables, epoch : 1..MaxEpochs, version : Nat, orders : Histories]

MainStates ==
    [at : {"idle", "greeting", "closing", "closed"}]
    \cup [at : {"accepting"}, table : Tables, order : 1..placed]
    \cup [at : {"refusing"}, order : ClientOrders,
          reason : {"VALIDATION_FAILED", "UNKNOWN_TABLE",
                    "TABLE_AT_CAPACITY", "KITCHEN_AT_CAPACITY"}]
    \cup [at : {"cancelling"}, then : {"reset", "offline"}]
    \cup [at : {"publishing"}, then : {"reset", "online"},
          left : SUBSET Tables, batch : [Tables -> Snapshots]]

CookStates == [table : Tables, at : {"sleeping", "publishing", "cancelled"}]

\* The state has its types.
TypeOK ==
    /\ StoreTypeOK
    /\ main \in MainStates
    /\ DOMAIN cooks \subseteq 1..placed
    /\ cooks \in [DOMAIN cooks -> CookStates]
    /\ link \in {"up", "down"}
    /\ retained \in [Tables -> Snapshots \cup {Nothing}]
    /\ status \in {"none", "ONLINE", "OFFLINE"}

\* However orders, finishes and resets interleave, no table cooks more than
\* its limit and the kitchen no more than the global one (kitchen.py:259-269,
\* 295-317).
CapacityRespected ==
    /\ TotalCookingCount <= MaxOrdersGlobal
    /\ \A t \in Tables : CookingCount(t) <= MaxOrdersPerTable

\* Who owns an order that is COOKING: the consumer, which will spawn its cook, or
\* a sleeping task.  A cancellation or the end of the process abandons orders.
Abandoned == main.at \in {"cancelling", "closing", "closed"}

OwnedByConsumer(t, i) == main.at = "accepting" /\ main.order = i /\ main.table = t

OwnedByCook(t, i) ==
    i \in DOMAIN cooks /\ cooks[i].at = "sleeping" /\ cooks[i].table = t

\* Every sleeping task has its order, at its table, in this generation: no task
\* outlives the reset that wiped its order (kitchen.py:157-168).
CooksHaveTheirOrder ==
    /\ \A i \in DOMAIN cooks :
           cooks[i].at = "sleeping" => IsCooking(cooks[i].table, i)
    /\ \A i \in DOMAIN cooks :
           cooks[i].at = "cancelled" => main.at = "cancelling"

\* And every cooking order has its task: none waits at its table for a cook that
\* will never come, as long as no publish raises (kitchen.py:193-205).
OrdersHaveACook ==
    Abandoned \/ \A t \in Tables : \A i \in Cooking(orders[t]) :
                      OwnedByConsumer(t, i) \/ OwnedByCook(t, i)

Newer(new, old) ==
    \/ old = Nothing
    \/ new.epoch > old.epoch
    \/ new.epoch = old.epoch /\ new.version > old.version

\* A state that replaces another in a retained slot is newer, of a later
\* generation or a higher version: except from announce_online, whose batch may
\* be overtaken (kitchen.py:109-111).
PublishesForward ==
    [][\A t \in Tables :
          \/ retained'[t] = retained[t]
          \/ Newer(retained'[t], retained[t])
          \/ main'.at = "publishing" /\ main'.then = "online"]_vars

\* A dish is served, or its table wiped, unless the kitchen shuts down first:
\* no order cooks forever (kitchen.py:367-370, 395).
NoDishCooksForever ==
    \A t \in Tables : \A i \in 1..MaxOrders :
        IsCooking(t, i) ~> (~ IsCooking(t, i) \/ main.at \in {"closing", "closed"})
=============================================================================
