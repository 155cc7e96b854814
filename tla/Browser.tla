------------------------------ MODULE Browser ------------------------------
(***************************************************************************)
(* Browser windows (frontend/src: App.svelte, lib/mqttClient.ts,           *)
(* lib/dispatch.ts, lib/stores.ts, lib/state.ts): their connection to the  *)
(* broker, and the tables and kitchen status they show.                    *)
(*                                                                         *)
(* mqtt.js reconnects and subscribes again by itself; the broker then      *)
(* sends every retained message, and after those what is published, in     *)
(* order.  inbox is what is on its way; a closed connection loses it (the  *)
(* sessions are clean).  A table state is a record with at least table,    *)
(* epoch and version.  Payloads that do not parse are dropped without      *)
(* effect and have no action.                                              *)
(***************************************************************************)
EXTENDS Naturals, SequencesExt

CONSTANT Browsers

VARIABLES
    connection,  \* stores.connection of each window
    subscribed,  \* has the broker granted its subscriptions?
    view,        \* stores.tables: the states it holds, by table
    kitchen,     \* stores.kitchen: the last status it heard
    inbox        \* messages on their way to it

browserVars == <<connection, subscribed, view, kitchen, inbox>>

BrowserInit ==
    /\ connection = [b \in Browsers |-> "connecting"]
    /\ subscribed = [b \in Browsers |-> FALSE]
    /\ view = [b \in Browsers |-> << >>]
    /\ kitchen = [b \in Browsers |-> "unknown"]
    /\ inbox = [b \in Browsers |-> << >>]

-----------------------------------------------------------------------------
(* What a window shows *)

ShowTables(b) == kitchen[b] = "ONLINE" /\ DOMAIN view[b] # {}

CanOrder(b) == connection[b] = "connected" /\ kitchen[b] = "ONLINE"

-----------------------------------------------------------------------------
(* Messages *)

TableMessage(state) == [kind |-> "table", state |-> state]

StatusMessage(s) == [kind |-> "status", status |-> s]

\* applyTableState: a state of the generation it holds must be newer; a state
\* of another generation is always accepted.
WithState(current, next) ==
    [t \in DOMAIN current \cup {next.table} |->
        IF t = next.table THEN next ELSE current[t]]

ApplyAnyState(current, next) == WithState(current, next)

ApplyWithoutEpoch(current, next) ==
    IF next.table \in DOMAIN current /\ next.version <= current[next.table].version
      THEN current
      ELSE WithState(current, next)

ApplyTableState(current, next) ==
    IF /\ next.table \in DOMAIN current
       /\ current[next.table].epoch = next.epoch
       /\ next.version <= current[next.table].version
      THEN current
      ELSE WithState(current, next)

\* The broker forwards what is published to the windows subscribed to it.
Forward(messages) ==
    inbox' = [b \in Browsers |->
                 IF subscribed[b] THEN inbox[b] \o messages ELSE inbox[b]]

\* dispatchMessage, ingestTableState and ingestKitchenStatus.
OnMessage(b) ==
    /\ inbox[b] # << >>
    /\ LET m == Head(inbox[b])
       IN  \/ /\ m.kind = "table"
              /\ view' = [view EXCEPT ![b] = ApplyTableState(@, m.state)]
              /\ UNCHANGED kitchen
           \/ /\ m.kind = "status"
              /\ kitchen' = [kitchen EXCEPT ![b] = m.status]
              /\ UNCHANGED view
    /\ inbox' = [inbox EXCEPT ![b] = Tail(@)]
    /\ UNCHANGED <<connection, subscribed>>

-----------------------------------------------------------------------------
(* Connections.  What a window shows survives them.                         *)

\* The handlers of "close" and "offline".
LoseKeepingInbox(B) ==
    /\ connection' = [b \in Browsers |->
                         IF b \in B /\ connection[b] # "reconnecting"
                           THEN "offline" ELSE connection[b]]
    /\ subscribed' = [b \in Browsers |-> subscribed[b] /\ b \notin B]
    /\ UNCHANGED <<view, kitchen, inbox>>

Lose(B) ==
    /\ connection' = [b \in Browsers |->
                         IF b \in B /\ connection[b] # "reconnecting"
                           THEN "offline" ELSE connection[b]]
    /\ subscribed' = [b \in Browsers |-> subscribed[b] /\ b \notin B]
    /\ inbox' = [b \in Browsers |-> IF b \in B THEN << >> ELSE inbox[b]]
    /\ UNCHANGED <<view, kitchen>>

Reconnects(b) ==
    /\ connection[b] = "offline"
    /\ connection' = [connection EXCEPT ![b] = "reconnecting"]
    /\ UNCHANGED <<subscribed, view, kitchen, inbox>>

Connects(b) ==
    /\ connection[b] \in {"connecting", "reconnecting"}
    /\ connection' = [connection EXCEPT ![b] = "connected"]
    /\ UNCHANGED <<subscribed, view, kitchen, inbox>>

\* The broker grants the subscriptions and sends what it retains on the topics:
\* the tables in any order, then the status.
Subscribes(b, states, statuses) ==
    /\ connection[b] = "connected"
    /\ ~ subscribed[b]
    /\ subscribed' = [subscribed EXCEPT ![b] = TRUE]
    /\ \E first \in SetToSeqs({TableMessage(s) : s \in states}),
          last \in SetToSeqs({StatusMessage(s) : s \in statuses}) :
           inbox' = [inbox EXCEPT ![b] = first \o last]
    /\ UNCHANGED <<connection, view, kitchen>>
=============================================================================
