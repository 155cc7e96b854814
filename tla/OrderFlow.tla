----------------------------- MODULE OrderFlow -----------------------------
(***************************************************************************)
(* Ordering and resetting in one browser window (App.svelte,               *)
(* OrderDialog.svelte, publish in mqttClient.ts): the modal dialog, its    *)
(* form, and the requests on their way to the broker.                      *)
(*                                                                         *)
(* JavaScript runs a handler, its promise continuations and the effects    *)
(* they trigger before the next event, so each is one action: the dialog   *)
(* is open exactly when activeTable is a table, since the effect in        *)
(* OrderDialog has run, and the "close" event that dialog.close() queues   *)
(* comes before the user's next click.  While the dialog is open the page  *)
(* behind it is inert.                                                     *)
(*                                                                         *)
(* mqtt.js (external) keeps a packet until the broker acknowledges it,     *)
(* sends it when there is a connection, and sends it again after the next  *)
(* connection: a request that timed out can still arrive.                  *)
(***************************************************************************)
EXTENDS Naturals, Sequences

CONSTANTS
    Tables,       \* the tables the window shows
    MaxRequests,  \* bound: requests in a behaviour
    MaxChanges    \* bound: connections lost, and news of the kitchen

ASSUME RequestsAssumption == MaxRequests \in Nat /\ MaxChanges \in Nat

VARIABLES
    activeTable,  \* App: the table being ordered for
    submitting,   \* OrderDialog: is the form waiting for its order?
    error,        \* OrderDialog: is an error shown in the form?
    resetting,    \* App: is the reset button waiting?
    requests,     \* every call of publish, in order
    dialogs,      \* how often the dialog was opened
    connected,    \* stores.connection = "connected"
    online,       \* stores.kitchen says ONLINE
    changes       \* changes of the last two so far

formVars == <<activeTable, submitting, error>>
worldVars == <<connected, online, changes>>
flowVars == <<formVars, resetting, requests, dialogs, worldVars>>

NoTable == "none"

Reset == "reset"

ASSUME TablesAssumption == {NoTable, Reset} \cap Tables = {}

CanOrder == connected /\ online

\* A request for a table, made from the n-th opening of the dialog, or a reset:
\* how far its packet has come, and how its promise stands.
Request(target, n) ==
    [target |-> target, dialog |-> n, packet |-> "stored", promise |-> "pending"]

Pending(k) == requests[k].promise = "pending"

FlowInit ==
    /\ activeTable = NoTable
    /\ submitting = FALSE
    /\ error = FALSE
    /\ resetting = FALSE
    /\ requests = << >>
    /\ dialogs = 0
    /\ connected = FALSE
    /\ online = FALSE
    /\ changes = 0

-----------------------------------------------------------------------------
(* The user.  As in Store, definitions that no action uses                  *)
(* (SubmitWithoutTable, FailsStillSubmitting, ...) are mistakes that some    *)
(* property has to catch.                                                   *)

\* ORDER on a table's card; the effect in OrderDialog clears the form.
Open(t) ==
    /\ activeTable = NoTable
    /\ CanOrder
    /\ dialogs < MaxRequests
    /\ activeTable' = t
    /\ submitting' = FALSE
    /\ error' = FALSE
    /\ dialogs' = dialogs + 1
    /\ UNCHANGED <<resetting, requests, worldVars>>

\* Escape closes a dialog at any time; the Cancel button only while no order is
\* on its way.
Close ==
    /\ activeTable # NoTable
    /\ activeTable' = NoTable
    /\ UNCHANGED <<submitting, error, resetting, requests, dialogs, worldVars>>

\* handleSubmit with a name that does not pass validateFoodName.
SubmitInvalid ==
    /\ activeTable # NoTable
    /\ ~ submitting
    /\ error' = TRUE
    /\ UNCHANGED <<activeTable, submitting, resetting, requests, dialogs, worldVars>>

SubmitWithoutTable ==
    /\ ~ submitting
    /\ Len(requests) < MaxRequests
    /\ submitting' = TRUE
    /\ requests' = Append(requests, Request(activeTable, dialogs))
    /\ UNCHANGED <<activeTable, error, resetting, dialogs, worldVars>>

SubmitWhileSubmitting ==
    /\ activeTable # NoTable
    /\ Len(requests) < MaxRequests
    /\ submitting' = TRUE
    /\ requests' = Append(requests, Request(activeTable, dialogs))
    /\ UNCHANGED <<activeTable, error, resetting, dialogs, worldVars>>

\* handleSubmit, submitOrder, publishOrder and publish, up to its await.
Submit ==
    /\ activeTable # NoTable
    /\ ~ submitting
    /\ Len(requests) < MaxRequests
    /\ submitting' = TRUE
    /\ requests' = Append(requests, Request(activeTable, dialogs))
    /\ UNCHANGED <<activeTable, error, resetting, dialogs, worldVars>>

\* resetKitchen up to its await; the button is enabled when ordering is.
RequestReset ==
    /\ activeTable = NoTable
    /\ CanOrder
    /\ ~ resetting
    /\ Len(requests) < MaxRequests
    /\ resetting' = TRUE
    /\ requests' = Append(requests, Request(Reset, 0))
    /\ UNCHANGED <<formVars, dialogs, worldVars>>

-----------------------------------------------------------------------------
(* The requests *)

\* The broker receives the packet.
Received(k) ==
    /\ connected
    /\ requests[k].packet = "stored"
    /\ requests' = [requests EXCEPT ![k].packet = "received"]
    /\ UNCHANGED <<formVars, resetting, dialogs, worldVars>>

\* publish resolves: resetKitchen or submitOrder, then handleSubmit, go on.
Succeeds(k) ==
    IF requests[k].target = Reset
      THEN resetting' = FALSE /\ UNCHANGED formVars
      ELSE activeTable' = NoTable /\ submitting' = FALSE /\ UNCHANGED <<error, resetting>>

\* publish rejects: the error goes to the form or to a notice.
FailsStillSubmitting(k) ==
    IF requests[k].target = Reset
      THEN resetting' = FALSE /\ UNCHANGED formVars
      ELSE error' = TRUE /\ UNCHANGED <<activeTable, submitting, resetting>>

Fails(k) ==
    IF requests[k].target = Reset
      THEN resetting' = FALSE /\ UNCHANGED formVars
      ELSE error' = TRUE /\ submitting' = FALSE /\ UNCHANGED <<activeTable, resetting>>

\* The acknowledgement: the packet is forgotten.  A promise that was rejected
\* stays so.
Acknowledged(k) ==
    /\ connected
    /\ requests[k].packet = "received"
    /\ requests' = [requests EXCEPT ![k].packet = "acknowledged",
                                    ![k].promise = IF @ = "pending" THEN "resolved" ELSE @]
    /\ IF Pending(k) THEN Succeeds(k) ELSE UNCHANGED <<formVars, resetting>>
    /\ UNCHANGED <<dialogs, worldVars>>

\* The timer of publish.
Untimed(k) == FALSE /\ UNCHANGED flowVars

TimesOut(k) ==
    /\ Pending(k)
    /\ requests' = [requests EXCEPT ![k].promise = "rejected"]
    /\ Fails(k)
    /\ UNCHANGED <<dialogs, worldVars>>

-----------------------------------------------------------------------------
(* The world: Browser says how these two come about. *)

\* What is left in mqtt.js's store when the connection is lost.
StoreIsCleared ==
    [k \in DOMAIN requests |->
        IF requests[k].packet = "acknowledged"
          THEN requests[k]
          ELSE [requests[k] EXCEPT !.packet = "dropped"]]

StoreIsKept ==
    [k \in DOMAIN requests |->
        IF requests[k].packet = "received"
          THEN [requests[k] EXCEPT !.packet = "stored"]
          ELSE requests[k]]

WorldChanges ==
    /\ changes < MaxChanges
    /\ changes' = changes + 1
    /\ \/ /\ connected' = ~ connected
          /\ requests' = IF connected THEN StoreIsKept ELSE requests
          /\ UNCHANGED online
       \/ /\ connected
          /\ online' = ~ online
          /\ UNCHANGED <<connected, requests>>
    /\ UNCHANGED <<formVars, resetting, dialogs>>

User == (\E t \in Tables : Open(t)) \/ Close \/ SubmitInvalid \/ Submit \/ RequestReset

FlowNext ==
    \/ User
    \/ \E k \in DOMAIN requests : Received(k) \/ Acknowledged(k) \/ TimesOut(k)
    \/ WorldChanges

\* A timer fires unless it is cleared.
FlowSpec ==
    /\ FlowInit
    /\ [][FlowNext]_flowVars
    /\ \A k \in 1..MaxRequests : WF_flowVars(k \in DOMAIN requests /\ TimesOut(k))

-----------------------------------------------------------------------------
(* Properties *)

\* The types.
FlowTypeOK ==
    /\ activeTable \in Tables \cup {NoTable}
    /\ {submitting, error, resetting, connected, online} \subseteq BOOLEAN
    /\ requests \in Seq([target : Tables \cup {Reset}, dialog : 0..dialogs,
                         packet : {"stored", "received", "acknowledged"},
                         promise : {"pending", "resolved", "rejected"}])
    /\ dialogs \in 0..MaxRequests
    /\ changes \in 0..MaxChanges

\* The open form waits only for an order of its own, and the reset button for the
\* one reset: whatever earlier dialogs and late answers do, neither is disabled
\* for nothing, and there are never two resets on their way
\* (OrderDialog.svelte:47-56, App.svelte:72-88).
WaitsAreOwed ==
    /\ activeTable # NoTable /\ submitting =>
           \E k \in DOMAIN requests : Pending(k) /\ requests[k].dialog = dialogs
    /\ resetting <=> \E k \in DOMAIN requests : Pending(k) /\ requests[k].target = Reset
    /\ \A j, k \in DOMAIN requests :
           /\ Pending(j) /\ requests[j].target = Reset
           /\ Pending(k) /\ requests[k].target = Reset
           => j = k

\* From one dialog orders go out one at a time: a form never sends a second while
\* its first is undecided, except after an earlier dialog's order has failed and
\* woken it up (OrderDialog.svelte:47-56, 71-83).
OneOrderAtATime ==
    \A j, k \in DOMAIN requests :
        /\ j < k
        /\ requests[j].target # Reset /\ requests[j].dialog = requests[k].dialog
        /\ Pending(j)
        => \E m \in DOMAIN requests :
               /\ requests[m].target # Reset
               /\ requests[m].dialog < requests[j].dialog
               /\ requests[m].promise = "rejected"

\* mqtt.js sends what it has stored, and the broker acknowledges it.
PacketsMove ==
    \A k \in 1..MaxRequests :
        /\ WF_flowVars(k \in DOMAIN requests /\ Received(k))
        /\ WF_flowVars(k \in DOMAIN requests /\ Acknowledged(k))

\* "Timed out waiting" is not "not sent": the timer of publish gives up the promise,
\* not the packet, which reaches the broker all the same once there is a lasting
\* connection, whatever the user was told and has done since (mqttClient.ts:86-98).
FailedOrdersStillArrive ==
    PacketsMove /\ <>[]connected =>
        \A k \in 1..MaxRequests :
            (k \in DOMAIN requests /\ requests[k].promise = "rejected")
                ~> (k \in DOMAIN requests /\ requests[k].packet = "acknowledged")

\* No form and no button waits forever, even for a broker that never answers
\* (mqttClient.ts:86-91).
WaitsEnd ==
    /\ submitting ~> ~ submitting
    /\ resetting ~> ~ resetting

\* "Only closes on success" (App.svelte:67): the dialog closes because the user
\* closes it, or because an order made from it was sent.
ClosesOnItsOwnSuccess ==
    [][activeTable # NoTable /\ activeTable' = NoTable =>
           \/ requests' = requests
           \/ \E k \in DOMAIN requests :
                  /\ requests'[k].promise = "resolved" /\ Pending(k)
                  /\ requests[k].dialog = dialogs]_flowVars
=============================================================================
