----------------------------- MODULE Transport -----------------------------
(***************************************************************************)
(* MqttTransport and run (backend/src/restaurant/transport.py, app.py):    *)
(* the sessions with the broker in which the kitchen is announced, fed     *)
(* with messages and shut down, over links that break, brokers that        *)
(* restart and processes that crash.                                       *)
(*                                                                         *)
(* The broker is external, modelled from the way the code uses it: it      *)
(* keeps one retained message per topic, in memory (retained and status);  *)
(* it holds the Last Will of the session it knows and publishes it when    *)
(* the session is lost without a DISCONNECT, or is taken over by another   *)
(* one of the same client id.  Sessions are clean: what was published      *)
(* while the kitchen was away is not delivered, so nothing is queued here. *)
(***************************************************************************)
EXTENDS Kitchen

CONSTANT MaxFaults  \* bound: faults, stops and crashes in a behaviour

ASSUME FaultsAssumption == MaxFaults \in Nat

VARIABLES
    session,  \* where run and _session stand
    will,     \* does the broker hold an unspent Last Will of the kitchen?
    faults    \* faults so far

transportVars == <<session, will, faults>>
tvars == <<vars, transportVars>>

SessionStates ==
    {"connecting", "subscribing", "announcing", "serving", "stopping", "exited"}

NoCooks == [i \in {} |-> Nothing]

Fault ==
    /\ faults < MaxFaults
    /\ faults' = faults + 1

-----------------------------------------------------------------------------
(* A session *)

\* __aenter__ and attach.  The broker spends the will of a session it had not
\* seen die, and holds the new one.
Connect ==
    /\ session = "connecting"
    /\ session' = "subscribing"
    /\ link' = "up"
    /\ status' = IF will THEN "OFFLINE" ELSE status
    /\ will' = TRUE
    /\ UNCHANGED <<storeVars, main, cooks, retained, faults>>

\* Subscribing without the callback.
SubscribedUnannounced ==
    /\ session = "subscribing"
    /\ link = "up"
    /\ session' = "serving"
    /\ PublishStatus("ONLINE")
    /\ UNCHANGED <<storeVars, main, cooks, link, retained, will, faults>>

\* The subscriptions are granted: on_connected is called.
Subscribed ==
    /\ session = "subscribing"
    /\ link = "up"
    /\ AnnounceOnline
    /\ session' = "announcing"
    /\ UNCHANGED <<will, faults>>

\* on_connected returns: the consumer and the wait for stop begin.
Announced ==
    /\ session = "announcing"
    /\ Greeted
    /\ session' = "serving"
    /\ UNCHANGED <<will, faults>>

SessionEndsCancelling ==
    /\ session \in {"subscribing", "serving"}
    /\ link = "down"
    /\ main = Idle
    /\ session' = "connecting"
    /\ cooks' = NoCooks
    /\ UNCHANGED <<storeVars, main, link, retained, status, will, faults>>

SessionEndsBeforeServing ==
    /\ session = "subscribing"
    /\ link = "down"
    /\ main = Idle
    /\ session' = "connecting"
    /\ UNCHANGED <<vars, will, faults>>

\* A subscribe fails, or the consumer finds the connection gone and no message
\* left; the publisher is detached and run tries again after the delay.
SessionEnds ==
    /\ session \in {"subscribing", "serving"}
    /\ link = "down"
    /\ main = Idle
    /\ session' = "connecting"
    /\ UNCHANGED <<vars, will, faults>>

\* The stop event: the consumer is cancelled wherever it stands.
Stop ==
    /\ session = "serving"
    /\ Fault
    /\ session' = "stopping"
    /\ main' = Idle
    /\ UNCHANGED <<storeVars, cooks, link, retained, status, will>>

SayGoodbye ==
    /\ session = "stopping"
    /\ Shutdown
    /\ UNCHANGED transportVars

\* Leaving the context first: the goodbye finds no connection.
ExitSilently ==
    /\ session = "stopping"
    /\ main = Idle
    /\ cooks' = NoCooks
    /\ main' = [at |-> "closed"]
    /\ session' = "exited"
    /\ will' = (will /\ link = "down")
    /\ UNCHANGED <<storeVars, link, retained, status, faults>>

\* The publish of OFFLINE has returned; leaving the client's context sends the
\* DISCONNECT that makes the broker drop the will.
Exit ==
    /\ session = "stopping"
    /\ Closed
    /\ session' = "exited"
    /\ will' = (will /\ link = "down")
    /\ UNCHANGED faults

\* stop during the delay between attempts: run returns, and with the event loop
\* end the tasks that still cook.
StopUnconnected ==
    /\ session = "connecting"
    /\ Fault
    /\ session' = "exited"
    /\ cooks' = NoCooks
    /\ UNCHANGED <<storeVars, main, link, retained, status, will>>

-----------------------------------------------------------------------------
(* Processes, links and brokers that go away *)

\* A new process has a new store; the broker keeps what it was sent.
NewProcess ==
    /\ StoreReset
    /\ main' = Idle
    /\ cooks' = NoCooks
    /\ link' = "down"
    /\ session' = "connecting"

Restart ==
    /\ session = "exited"
    /\ NewProcess
    /\ UNCHANGED <<retained, status, will, faults>>

Crash ==
    /\ session # "exited"
    /\ Fault
    /\ NewProcess
    /\ UNCHANGED <<retained, status, will>>

LinkBreaks ==
    /\ link = "up"
    /\ Fault
    /\ link' = "down"
    /\ UNCHANGED <<storeVars, main, cooks, retained, status, session, will>>

\* The broker misses the keepalive, or sees the socket close.
WillFires ==
    /\ will
    /\ link = "down"
    /\ status' = "OFFLINE"
    /\ will' = FALSE
    /\ UNCHANGED <<storeVars, main, cooks, link, retained, session, faults>>

\* mosquitto runs with "persistence false".
BrokerRestarts ==
    /\ Fault
    /\ retained' = [t \in Tables |-> Nothing]
    /\ status' = "none"
    /\ will' = FALSE
    /\ link' = "down"
    /\ UNCHANGED <<storeVars, main, cooks, session>>

-----------------------------------------------------------------------------
TInit ==
    /\ StoreInit
    /\ main = Idle
    /\ cooks = NoCooks
    /\ link = "down"
    /\ retained = [t \in Tables |-> Nothing]
    /\ status = "none"
    /\ session = "connecting"
    /\ will = FALSE
    /\ faults = 0

Consume ==
    /\ session = "serving"
    /\ HandleMessage
    /\ UNCHANGED transportVars

MainResumes ==
    /\ Spawn \/ RefusalSent \/ Cancelled \/ PublishNext \/ BatchPublished
    /\ UNCHANGED transportVars

Cook(i) ==
    /\ i \in DOMAIN cooks
    /\ CookStep(i)
    /\ UNCHANGED transportVars

SessionSteps ==
    Connect \/ Subscribed \/ Announced \/ SessionEnds \/ SayGoodbye \/ Exit

Environment ==
    \/ Stop \/ StopUnconnected \/ Restart \/ Crash
    \/ LinkBreaks

TStep ==
    \/ SessionSteps
    \/ Consume
    \/ MainResumes
    \/ \E i \in 1..MaxOrders : Cook(i)
    \/ WillFires
    \/ Environment

TNext == TStep \/ BrokerRestarts

\* The event loop and the timers run, and the broker notices a dead session.
\* SessionEnds is strongly fair: what the client had received before its link
\* broke is finite, so the consumer cannot find another message forever.
TSpec ==
    /\ TInit
    /\ [][TNext]_tvars
    /\ WF_tvars(SessionSteps \/ MainResumes)
    /\ SF_tvars(SessionEnds)
    /\ WF_tvars(WillFires)
    /\ \A i \in 1..MaxOrders : WF_tvars(Cook(i))

-----------------------------------------------------------------------------
(* Properties *)

\* The kitchen and the broker keep their types, and a session has a client.
TTypeOK ==
    /\ TypeOK
    /\ session \in SessionStates
    /\ will \in BOOLEAN
    /\ faults \in 0..MaxFaults
    /\ session = "connecting" => main = Idle

\* The status slot says ONLINE only while the broker holds the will that takes
\* it back: whenever and however the kitchen goes away, OFFLINE will replace it
\* (transport.py:107-139, 213-217).
OnlineIsBacked == status = "ONLINE" => will

\* The tables that a running publication of all of them has yet to reach.
Pending == IF main.at = "publishing" THEN main.left ELSE {}

\* A kitchen that serves over a working link is announced, and what a browser
\* then finds at the broker is of this generation: never an ONLINE beside tables
\* of a dead process, except those a running reset has yet to republish
\* (kitchen.py:102-112, 148-154).
ServingIsAnnounced ==
    session = "serving" /\ link = "up" =>
        /\ status = "ONLINE"
        /\ \A t \in Tables \ Pending :
               retained[t] # Nothing /\ retained[t].epoch = epoch

\* Dishes survive a lost connection: whatever the session does, every cooking
\* order has its cook until the process is stopped (transport.py:62-64).
DishesSurviveReconnect ==
    \/ session \in {"stopping", "exited"}
    \/ OrdersHaveACook

\* "Republishes every table's retained state, which [...] repairs anything lost
\* during a disconnect" (app.py:79-80): once announced, and as long as the link
\* works, the retained state of every table is its present one.
ResyncRepairs ==
    session = "serving" /\ link = "up" =>
        \A t \in Tables \ Pending : retained[t] = Snapshot(t)

\* When the faults are over, the kitchen is online and serving, unless it was
\* stopped (transport.py:149-173).
RecoversToServing ==
    <>[](session = "exited" \/ (session = "serving" /\ status = "ONLINE"))
=============================================================================
