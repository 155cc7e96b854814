---------------------------- MODULE Restaurant -----------------------------
(***************************************************************************)
(* The whole restaurant: the kitchen behind its transport, the broker and  *)
(* the browser windows.  A packet of the kitchen changes a retained slot   *)
(* and is forwarded to the windows subscribed to its topic.  The orders of *)
(* the windows are those of Kitchen: any, at any time.                     *)
(***************************************************************************)
EXTENDS Transport, Browser

rvars == <<tvars, browserVars>>

\* What a step published: the slots it changed.  (A packet that repeats what its
\* slot holds would tell a subscribed window nothing.)
Published ==
    SetToSeq({TableMessage(retained'[t]) : t \in {u \in Tables : retained'[u] # retained[u]}})
    \o IF status' # status THEN <<StatusMessage(status')>> ELSE << >>

KitchenStep ==
    /\ TStep
    /\ Forward(Published)
    /\ UNCHANGED <<connection, subscribed, view, kitchen>>

\* Every connection ends, and nothing is retained any more.
BrokerStep ==
    /\ BrokerRestarts
    /\ Lose(Browsers)

BrowserStep(b) ==
    /\ \/ OnMessage(b)
       \/ Reconnects(b)
       \/ Connects(b)
       \/ Subscribes(b, {retained[t] : t \in Tables} \ {Nothing}, {status} \ {"none"})
    /\ UNCHANGED tvars

BrowserLoses(b) ==
    /\ Fault
    /\ Lose({b})
    /\ UNCHANGED <<vars, session, will>>

RInit == TInit /\ BrowserInit

RNext ==
    \/ KitchenStep
    \/ BrokerStep
    \/ \E b \in Browsers : BrowserStep(b)
    \/ \E b \in Browsers : BrowserLoses(b)

\* As in Transport; and the windows handle their messages and reconnect.
RFairness ==
    /\ WF_tvars(SessionSteps \/ MainResumes)
    /\ SF_tvars(SessionEnds)
    /\ WF_tvars(WillFires)
    /\ \A i \in 1..MaxOrders : WF_tvars(Cook(i))
    /\ \A b \in Browsers : WF_rvars(BrowserStep(b))

RSpec == RInit /\ [][RNext]_rvars /\ RFairness

-----------------------------------------------------------------------------
(* Properties *)

\* The types, and what reaches a window has come through its subscription.
RTypeOK ==
    /\ TTypeOK
    /\ connection \in [Browsers -> {"connecting", "connected", "reconnecting", "offline"}]
    /\ kitchen \in [Browsers -> {"unknown", "ONLINE", "OFFLINE"}]
    /\ \A b \in Browsers :
           /\ DOMAIN view[b] \subseteq Tables
           /\ \A t \in DOMAIN view[b] : view[b][t] \in Snapshots /\ view[b][t].table = t
           /\ inbox[b] # << >> => subscribed[b]
           /\ subscribed[b] => connection[b] = "connected"

\* Every state of a table that is anywhere in the system: in the store, retained,
\* about to be published, on its way to a window or shown by one.
Circulating(t) ==
    {Snapshot(t)}
    \cup ({retained[t]} \ {Nothing})
    \cup (IF main.at = "publishing" THEN {main.batch[t]} ELSE {})
    \cup (UNION {{inbox[b][k].state :
                     k \in {n \in DOMAIN inbox[b] : inbox[b][n].kind = "table"}} : b \in Browsers})
    \cup {view[b][t] : b \in {c \in Browsers : t \in DOMAIN view[c]}}

\* No window or message is ahead of the kitchen, and of all the states of a table
\* that are about, two with the same generation and version are the same: by
\* dropping a repeated version a window never drops news (state.ts:20-46,
\* store.py:119-164).
VersionsNameStates ==
    \A t \in Tables :
        LET about == {s \in Circulating(t) : s.table = t}
        IN  \A r \in about :
                /\ r.epoch < epoch \/ (r.epoch = epoch /\ r.version <= version[t])
                /\ \A s \in about :
                       r.epoch = s.epoch /\ r.version = s.version => r = s

\* A window holds every table as retained, or newer, and the retained status;
\* where nothing is retained it has nothing to hear.
CaughtUp(b) ==
    /\ connection[b] = "connected"
    /\ status \in {"none", kitchen[b]}
    /\ \A t \in Tables :
           retained[t] = Nothing \/
               /\ t \in DOMAIN view[b]
               /\ view[b][t] = retained[t] \/ Newer(view[b][t], retained[t])

\* A window that has read everything the broker has sent it.
Quiet(b) == subscribed[b] /\ inbox[b] = << >>

\* Nothing that is retained passes a window by: one that has read everything has
\* caught up, whatever was overwritten, repeated or lost before, although a state that
\* is not newer is dropped, and one of another generation never (state.ts:20-46).
QuietWindowsAreCaughtUp == \A b \in Browsers : Quiet(b) => CaughtUp(b)

\* When the faults are over, every window is connected and catches up, with what
\* is retained and what it hears, in whatever state it lost its connection
\* (mqttClient.ts:38-41, stores.ts:84-89).
WindowsCatchUp == \A b \in Browsers : <>[]CaughtUp(b)

\* In the end a window shows no table of a kitchen that is gone, and no dish that
\* was lost with an earlier process (App.svelte:47-55, state.ts:28-30), provided
\* the broker has a status to tell.
ShownTablesAreLive ==
    \A b \in Browsers : <>[](status # "none" /\ ShowTables(b) =>
        /\ session # "exited"
        /\ \A t \in DOMAIN view[b] : view[b][t].epoch = epoch)
=============================================================================
