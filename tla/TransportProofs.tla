-------------------------- MODULE TransportProofs --------------------------
(***************************************************************************)
(* Theorems about Transport, for every number of tables, orders and        *)
(* faults: that the process uses its store as Store specifies, its types,  *)
(* what the broker is left with when a kitchen goes away, what it is given *)
(* when one comes, and that dishes survive lost connections.               *)
(***************************************************************************)
EXTENDS MCTransport, KitchenProofs

-----------------------------------------------------------------------------
(* What the steps are to the kitchen *)

\* The link or the broker changes under it.
Outside ==
    /\ UNCHANGED <<storeVars, main, cooks>>
    /\ link' \in {"up", "down"}
    /\ status' \in {status, "OFFLINE", "none"}
    /\ retained' \in {retained, [t \in Tables |-> Nothing]}

\* It is stopped in the middle of something.
Halts ==
    /\ UNCHANGED <<storeVars, link, retained, status>>
    /\ main' \in {main, Idle}
    /\ cooks' \in {cooks, NoCooks}
    /\ session' \in {"stopping", "exited"}

\* Its process is replaced.
Replaced == NewProcess /\ UNCHANGED <<retained, status>>

\* Every other step is one of the kitchen's own, in which no publish raises.
LEMMA TransportSteps ==
    ASSUME [TNext]_tvars, link \in {"up", "down"}
    PROVE  [Steps]_vars \/ Outside \/ Halts \/ Replaced
<1>1. Subscribed \/ Announced \/ SayGoodbye \/ Exit \/ Consume \/ MainResumes => Steps
  BY DEF Subscribed, Announced, SayGoodbye, Exit, Consume, MainResumes, Steps, Resume
<1>2. ASSUME NEW i \in 1..MaxOrders, Cook(i)
      PROVE  Steps
  BY <1>2 DEF Cook, Steps
<1>3. SessionEnds \/ UNCHANGED tvars => UNCHANGED vars
  BY DEF SessionEnds, tvars
<1>4. Connect \/ WillFires \/ BrokerRestarts \/ LinkBreaks => Outside
  BY DEF Connect, WillFires, BrokerRestarts, LinkBreaks, Outside
<1>5. Stop \/ StopUnconnected => Halts
  BY DEF Stop, StopUnconnected, Halts
<1>6. Restart \/ Crash => Replaced
  BY DEF Restart, Crash, Replaced
<1> QED
  BY <1>1, <1>2, <1>3, <1>4, <1>5, <1>6 DEF TNext, TStep, SessionSteps, Environment

LEMMA TransportUsesStore ==
    ASSUME TypeOK, [TNext]_tvars
    PROVE  [StoreNext]_storeVars
<1>1. link \in {"up", "down"} /\ StoreTypeOK
  BY DEF TypeOK
<1>2. [Steps]_vars => [StoreNext]_storeVars
  BY <1>1, StepIsStoreStep DEF Next
<1>3. Outside \/ Halts => UNCHANGED storeVars
  BY DEF Outside, Halts
<1>4. Replaced => StoreNext
  BY DEF Replaced, NewProcess, StoreNext
<1> QED
  BY <1>1, <1>2, <1>3, <1>4, TransportSteps

-----------------------------------------------------------------------------
(* Types *)

LEMMA NoCooksTyped ==
    DOMAIN NoCooks = {} /\ NoCooks \in [DOMAIN NoCooks -> CookStates]
  BY DEF NoCooks

LEMMA KitchenTypesHold ==
    ASSUME TypeOK, [TNext]_tvars
    PROVE  TypeOK'
<1>1. [Steps]_vars => TypeOK'
  BY TypeStep DEF Next
<1>2. Outside => TypeOK'
  <2> SUFFICES ASSUME Outside
               PROVE  TypeOK'
    OBVIOUS
  <2>1. UNCHANGED <<epoch, version, orders, seen, placed, main, cooks>>
    BY DEF Outside, storeVars
  <2>2. StoreTypeOK'
    BY <2>1 DEF TypeOK, StoreTypeOK, Histories
  <2>3. Snapshots' = Snapshots /\ MainStates' = MainStates
    BY <2>1 DEF Snapshots, MainStates, Histories
  <2>4. retained' \in [Tables -> Snapshots' \cup {Nothing}]
    BY <2>3 DEF Outside, TypeOK
  <2> QED
    BY <2>1, <2>2, <2>3, <2>4 DEF TypeOK, Outside
<1>3. Halts => TypeOK'
  <2> SUFFICES ASSUME Halts
               PROVE  TypeOK'
    OBVIOUS
  <2>1. UNCHANGED <<epoch, version, orders, seen, placed, link, retained, status>>
    BY DEF Halts, storeVars
  <2>2. StoreTypeOK'
    BY <2>1 DEF TypeOK, StoreTypeOK, Histories
  <2>3. Snapshots' = Snapshots /\ MainStates' = MainStates
    BY <2>1 DEF Snapshots, MainStates, Histories
  <2>4. main' \in MainStates'
    BY <2>3, IdleTyped DEF Halts, TypeOK
  <2>5. DOMAIN cooks' \subseteq 1..placed /\ cooks' \in [DOMAIN cooks' -> CookStates]
    BY NoCooksTyped DEF Halts, TypeOK
  <2> QED
    BY <2>1, <2>2, <2>3, <2>4, <2>5 DEF TypeOK
<1>4. Replaced => TypeOK'
  <2> SUFFICES ASSUME Replaced
               PROVE  TypeOK'
    OBVIOUS
  <2>1. StoreTypeOK'
    <3>1. StoreNext
      BY DEF Replaced, NewProcess, StoreNext
    <3> QED
      BY <3>1, StoreNextTyped DEF TypeOK
  <2>2. placed' = placed /\ placed \in Nat
    BY BoundsAssumption DEF Replaced, NewProcess, StoreReset, TypeOK, StoreTypeOK
  <2>3. Snapshots \subseteq Snapshots'
    BY <2>2, TypesGrow
  <2>4. main' \in MainStates'
    BY DEF Replaced, NewProcess, Idle, MainStates
  <2>5. cooks' = NoCooks /\ link' = "down" /\ UNCHANGED <<retained, status>>
    BY DEF Replaced, NewProcess
  <2>6. retained' \in [Tables -> Snapshots' \cup {Nothing}]
    BY <2>3, <2>5 DEF TypeOK
  <2>7. DOMAIN cooks' \subseteq 1..placed' /\ cooks' \in [DOMAIN cooks' -> CookStates]
    BY <2>5, NoCooksTyped
  <2> QED
    BY <2>1, <2>4, <2>5, <2>6, <2>7 DEF TypeOK
<1>5. link \in {"up", "down"}
  BY DEF TypeOK
<1> QED
  BY <1>1, <1>2, <1>3, <1>4, <1>5, TransportSteps

LEMMA InitTyped == TInit => TTypeOK
<1> SUFFICES ASSUME TInit
             PROVE  TTypeOK
  OBVIOUS
<1>1. StoreTypeOK
  BY StoreInitTyped DEF TInit
<1>2. main \in MainStates
  BY IdleTyped DEF TInit
<1>3. DOMAIN cooks \subseteq 1..placed /\ cooks \in [DOMAIN cooks -> CookStates]
  BY NoCooksTyped DEF TInit
<1>4. TypeOK
  BY <1>1, <1>2, <1>3 DEF TInit, TypeOK
<1>5. session \in SessionStates /\ (session = "connecting" => main = Idle)
  BY DEF TInit, SessionStates
<1>6. will \in BOOLEAN
  BY DEF TInit
<1>7. faults \in 0..MaxFaults
  BY FaultsAssumption DEF TInit
<1> QED
  BY <1>4, <1>5, <1>6, <1>7 DEF TTypeOK

LEMMA TransportTypesHold ==
    ASSUME TTypeOK, [TNext]_tvars
    PROVE  TTypeOK'
<1>1. TypeOK'
  BY KitchenTypesHold DEF TTypeOK
<1>2. session' \in SessionStates /\ will' \in BOOLEAN /\ faults' \in 0..MaxFaults
  <2> USE DEF TNext, TStep, SessionSteps, Environment, Consume, MainResumes, Cook, Connect,
              Subscribed, Announced, SessionEnds, SayGoodbye, Exit, WillFires, Stop,
              StopUnconnected, Restart, Crash, NewProcess, LinkBreaks, BrokerRestarts,
              tvars, transportVars
  <2>1. session' = session
        \/ session' \in {"connecting", "subscribing", "announcing", "serving",
                         "stopping", "exited"}
    OBVIOUS
  <2>2. will' \in BOOLEAN
    <3>1. will \in BOOLEAN
      BY DEF TTypeOK
    <3>2. will' = will \/ will' = TRUE \/ will' = FALSE \/ will' = (will /\ link = "down")
      OBVIOUS
    <3> QED
      BY <3>1, <3>2
  <2>3. faults' = faults \/ Fault
    OBVIOUS
  <2>4. faults' \in 0..MaxFaults
    BY <2>3, FaultsAssumption DEF Fault, TTypeOK
  <2> QED
    BY <2>1, <2>2, <2>4 DEF TTypeOK, SessionStates
<1>3. session' = "connecting" => main' = Idle
  <2>1. session = "connecting" => main.at = "idle"
    BY DEF TTypeOK, Idle
  <2>2. MainResumes /\ session' = "connecting" => main' = Idle
    BY <2>1 DEF MainResumes, transportVars, Spawn, RefusalSent, Cancelled, PublishNext,
                BatchPublished
  <2>3. ASSUME NEW i, Cook(i), session' = "connecting"
        PROVE  main' = Idle
    BY <2>3 DEF Cook, transportVars, CookStep, Serve, CookEnds, TTypeOK
  <2>4. SessionSteps \/ Consume \/ WillFires \/ Environment \/ BrokerRestarts \/ UNCHANGED tvars
          => (session' = "connecting" => main' = Idle)
    BY DEF TTypeOK, SessionSteps, Environment, Consume, Connect, Subscribed, Announced,
           SessionEnds, SayGoodbye, Exit, WillFires, Stop, StopUnconnected, Restart, Crash,
           NewProcess, LinkBreaks, BrokerRestarts, tvars, transportVars, vars, kitchenVars
  <2> QED
    BY <2>2, <2>3, <2>4 DEF TNext, TStep
<1> QED
  BY <1>1, <1>2, <1>3 DEF TTypeOK

\* The kitchen keeps its types over sessions, stops and crashes.
THEOREM TransportTypeCorrect == TSpec => []TTypeOK
<1>1. TTypeOK /\ [TNext]_tvars => TTypeOK'
  BY TransportTypesHold
<1> QED
  BY <1>1, InitTyped, PTL DEF TSpec

\* A process that is stopped, killed and started again uses the store as Store
\* specifies, so that what is proved of the store holds of it.
THEOREM TransportImplementsStore == TSpec => StoreSpec
<1>1. TInit => StoreInit
  BY DEF TInit
<1>2. TTypeOK /\ [TNext]_tvars => [StoreNext]_storeVars
  BY TransportUsesStore DEF TTypeOK
<1> QED
  BY <1>1, <1>2, TransportTypeCorrect, PTL DEF TSpec, StoreSpec

-----------------------------------------------------------------------------
(* The Last Will *)

\* What makes OnlineIsBacked inductive: a live link has a will until the process
\* has left in order, which it does only after it has said OFFLINE.
Backed ==
    /\ OnlineIsBacked
    /\ link = "up" /\ session # "exited" => will
    /\ main.at = "closing" /\ link = "up" => status # "ONLINE"
    /\ session = "exited" => main.at \in {"idle", "closed"}

LEMMA BackedHolds ==
    ASSUME TTypeOK, Backed, [TNext]_tvars
    PROVE  Backed'
<1> USE DEF Backed, OnlineIsBacked
<1>1. ASSUME Subscribed \/ Announced
      PROVE  Backed'
  <2>1. UNCHANGED <<link, status, will>> /\ session # "exited" /\ session' # "exited"
        /\ main'.at \in {"publishing", "idle"}
    BY <1>1 DEF Subscribed, Announced, AnnounceOnline, StartBatch, Greeted, Idle
  <2> QED
    BY <2>1
<1>2. ASSUME SayGoodbye
      PROVE  Backed'
  <2>1. UNCHANGED <<session, link, will>> /\ session = "stopping"
    BY <1>2 DEF SayGoodbye, Shutdown, GoOffline, CancelThen, transportVars
  <2>2. \/ status' = status /\ main'.at = "cancelling"
        \/ status' = (IF link = "up" THEN "OFFLINE" ELSE status) /\ main'.at = "closing"
    BY <1>2 DEF SayGoodbye, Shutdown, GoOffline, CancelThen, PublishStatus
  <2> QED
    BY <2>1, <2>2
<1>3. ASSUME Exit
      PROVE  Backed'
  <2>1. main.at = "closing" /\ main'.at = "closed" /\ session' = "exited"
        /\ UNCHANGED <<link, status>> /\ will' = (will /\ link = "down")
    BY <1>3 DEF Exit, Closed
  <2>2. link \in {"up", "down"}
    BY DEF TTypeOK, TypeOK
  <2> QED
    BY <2>1, <2>2
<1>4. ASSUME Consume
      PROVE  Backed'
  <2>1. session = "serving" /\ UNCHANGED <<session, will>>
    BY <1>4 DEF Consume, transportVars
  <2>2. UNCHANGED <<link, status>> /\ main'.at # "closing"
    BY <1>4 DEF Consume, HandleMessage, Accept, Refuse, HandleReset, WipeAndRepublish,
                StartBatch, CancelThen
  <2> QED
    BY <2>1, <2>2
<1>5. ASSUME MainResumes
      PROVE  Backed'
  <2>1. UNCHANGED <<session, will, link>> /\ session # "exited"
    BY <1>5 DEF MainResumes, Spawn, RefusalSent, Cancelled, PublishNext, BatchPublished,
                WipeAndRepublish, GoOffline, transportVars
  <2>2. CASE Spawn \/ RefusalSent
    BY <2>1, <2>2 DEF Spawn, RefusalSent, Idle
  <2>3. CASE PublishNext
    <3>1. main'.at = "publishing" /\ status' = status
      BY <2>3 DEF PublishNext, TTypeOK, TypeOK, MainStates
    <3> QED
      BY <2>1, <3>1
  <2>4. CASE BatchPublished
    <3>1. main'.at # "closing" /\ status' \in {status, IF link = "up" THEN "ONLINE" ELSE status}
      BY <2>4 DEF BatchPublished, Idle, PublishStatus
    <3> QED
      BY <2>1, <3>1
  <2>5. CASE Cancelled
    <3>1. \/ status' = status /\ main'.at = "publishing"
          \/ status' = (IF link = "up" THEN "OFFLINE" ELSE status) /\ main'.at = "closing"
      BY <2>5 DEF Cancelled, WipeAndRepublish, StartBatch, GoOffline, PublishStatus
    <3> QED
      BY <2>1, <3>1
  <2> QED
    BY <1>5, <2>2, <2>3, <2>4, <2>5 DEF MainResumes
<1>6. ASSUME NEW i \in 1..MaxOrders, Cook(i)
      PROVE  Backed'
  BY <1>6 DEF Cook, CookStep, Serve, CookEnds, transportVars
<1>7. ASSUME Connect \/ SessionEnds \/ UNCHANGED tvars
      PROVE  Backed'
  <2>1. CASE Connect
    <3>1. main.at = "idle"
      BY <2>1 DEF Connect, TTypeOK, Idle
    <3> QED
      BY <2>1, <3>1 DEF Connect
  <2>2. CASE SessionEnds
    BY <2>2 DEF SessionEnds, vars, kitchenVars
  <2>3. CASE UNCHANGED tvars
    BY <2>3 DEF tvars, transportVars, vars, kitchenVars
  <2> QED
    BY <1>7, <2>1, <2>2, <2>3
<1>8. ASSUME WillFires \/ LinkBreaks \/ BrokerRestarts
      PROVE  Backed'
  BY <1>8 DEF WillFires, LinkBreaks, BrokerRestarts
<1>9. ASSUME Stop \/ StopUnconnected
      PROVE  Backed'
  BY <1>9 DEF Stop, StopUnconnected, Idle, TTypeOK
<1>10. ASSUME Restart \/ Crash
       PROVE  Backed'
  BY <1>10 DEF Restart, Crash, NewProcess, Idle
<1> QED
  BY <1>1, <1>2, <1>3, <1>4, <1>5, <1>6, <1>7, <1>8, <1>9, <1>10
     DEF TNext, TStep, SessionSteps, Environment

LEMMA BackedAtFirst == TInit => Backed
BY DEF TInit, Backed, OnlineIsBacked, Idle

\* However the kitchen goes away, and however links and brokers behave, an ONLINE
\* at the broker has a will behind it that takes it back (transport.py:107-139,
\* 213-217).
THEOREM OnlineStaysBacked == TSpec => []OnlineIsBacked
<1>1. TInit => Backed
  BY BackedAtFirst
<1>2. TTypeOK /\ Backed /\ [TNext]_tvars => Backed'
  BY BackedHolds
<1>3. Backed => OnlineIsBacked
  BY DEF Backed
<1> QED
  BY <1>1, <1>2, <1>3, TransportTypeCorrect, PTL DEF TSpec

-----------------------------------------------------------------------------
(* Announcements *)

\* The slot of a table holds a state of the present generation.
Current(t) == retained[t] # Nothing /\ retained[t].epoch = epoch

Reached == \A t \in Tables \ Pending : Current(t)

\* What makes ServingIsAnnounced inductive: the announcement of a session over a
\* link that still works has reached what it no longer has to publish, a batch is of
\* the present generation, and only certain things go on in a session.
Greets ==
    /\ session \in {"announcing", "serving"} /\ link = "up" => Reached
    /\ session = "serving" /\ link = "up" => status = "ONLINE"
    /\ session = "announcing" /\ link = "up" /\ main.at = "greeting" => status = "ONLINE"
    /\ main.at = "publishing" => \A t \in Tables : main.batch[t].epoch = epoch

KnowsItsPlace ==
    /\ session = "announcing" =>
           main.at = "greeting" \/ (main.at = "publishing" /\ main.then = "online")
    /\ session = "serving" =>
           \/ main.at \in {"idle", "accepting", "refusing"}
           \/ main.at \in {"cancelling", "publishing"} /\ main.then = "reset"

LEMMA SnapshotIsSomething ==
    ASSUME NEW s \in Snapshots'
    PROVE  s # Nothing
<1>1. "epoch" \in DOMAIN s
  BY DEF Snapshots
<1>2. "epoch" \notin DOMAIN Nothing
  BY DEF Nothing
<1> QED
  BY <1>1, <1>2

\* A publish over a working link makes its table current and no other outdated.
LEMMA PublishedIsCurrent ==
    ASSUME TypeOK, link = "up", NEW t \in Tables, NEW state \in Snapshots',
           state.epoch = epoch', Publish(t, state), NEW S \in SUBSET Tables,
           \A u \in S : retained[u] # Nothing /\ retained[u].epoch = epoch'
    PROVE  \A u \in S \cup {t} : Current(u)'
<1>1. retained' = [retained EXCEPT ![t] = state] /\ DOMAIN retained = Tables
  BY DEF Publish, TypeOK
<1>2. retained'[t] = state /\ \A u \in Tables \ {t} : retained'[u] = retained[u]
  BY <1>1
<1>3. state # Nothing
  BY SnapshotIsSomething
<1> QED
  BY <1>2, <1>3 DEF Current

\* The first table of a batch is published at once.
LEMMA BatchIsCurrent ==
    ASSUME TypeOK, link = "up", NEW then, NEW batch \in [Tables -> Snapshots'],
           \A t \in Tables : batch[t].epoch = epoch', StartBatch(then, batch)
    PROVE  Reached'
<1>1. PICK f \in Tables : f = First(Tables)
  BY FirstIsMember, TablesAssumption
<1>2. PICK state \in Snapshots' : state.epoch = epoch' /\ Publish(f, state)
  BY <1>1 DEF StartBatch
<1>3. PICK S \in SUBSET Tables : S = {}
  OBVIOUS
<1>4. \A u \in S : retained[u] # Nothing /\ retained[u].epoch = epoch'
  BY <1>3
<1>5. \A u \in S \cup {f} : Current(u)'
  BY <1>2, <1>4, PublishedIsCurrent
<1>6. main'.at = "publishing" /\ main'.left = Tables \ {f}
  BY <1>1 DEF StartBatch
<1>7. Pending' = Tables \ {f}
  BY <1>6 DEF Pending
<1> QED
  BY <1>3, <1>5, <1>7 DEF Reached

LEMMA SnapshotsAfter ==
    ASSUME TypeOK, TypeOK'
    PROVE  /\ AllSnapshots' \in [Tables -> Snapshots']
           /\ \A t \in Tables : /\ Snapshot(t)' \in Snapshots'
                                /\ Snapshot(t)'.epoch = epoch'
                                /\ AllSnapshots'[t].epoch = epoch'
<1>1. \A t \in Tables : Snapshot(t)' \in Snapshots' /\ Snapshot(t)'.epoch = epoch'
  BY DEF TypeOK, StoreTypeOK, Snapshot, Snapshots
<1> QED
  BY <1>1 DEF AllSnapshots, Snapshot

LEMMA PlacesHold ==
    ASSUME TTypeOK, KnowsItsPlace, [TNext]_tvars
    PROVE  KnowsItsPlace'
<1> USE DEF KnowsItsPlace
<1>1. Subscribed => KnowsItsPlace'
  BY DEF Subscribed, AnnounceOnline, StartBatch
<1>2. Announced => KnowsItsPlace'
  BY DEF Announced, Greeted, Idle
<1>3. Consume => KnowsItsPlace'
  <2>1. Consume => session' = "serving" /\
          \/ main'.at \in {"accepting", "refusing"}
          \/ main'.at \in {"cancelling", "publishing"} /\ main'.then = "reset"
    BY DEF Consume, HandleMessage, Accept, Refuse, HandleReset, WipeAndRepublish, StartBatch,
           CancelThen, transportVars
  <2> QED
    BY <2>1
<1>4. ASSUME MainResumes
      PROVE  KnowsItsPlace'
  <2>1. session' = session
    BY <1>4 DEF MainResumes, transportVars
  <2>2. Spawn \/ RefusalSent => main'.at = "idle" /\ main.at \in {"accepting", "refusing"}
    BY DEF Spawn, RefusalSent, Idle
  <2>3. PublishNext => main.at = "publishing" /\ main'.at = "publishing" /\ main'.then = main.then
    BY DEF PublishNext, TTypeOK, TypeOK, MainStates
  <2>4. BatchPublished => /\ main.at = "publishing"
                          /\ main.then = "reset" => main'.at = "idle"
                          /\ main.then = "online" => main'.at = "greeting"
    BY DEF BatchPublished, Idle
  <2>5. Cancelled => /\ main.at = "cancelling"
                     /\ main.then = "reset" => main'.at = "publishing" /\ main'.then = "reset"
    BY DEF Cancelled, WipeAndRepublish, GoOffline, StartBatch
  <2> QED
    BY <1>4, <2>1, <2>2, <2>3, <2>4, <2>5 DEF MainResumes
<1>5. ASSUME NEW i \in 1..MaxOrders, Cook(i)
      PROVE  KnowsItsPlace'
  BY <1>5 DEF Cook, CookStep, Serve, CookEnds, transportVars
<1>6. SayGoodbye => KnowsItsPlace'
  BY DEF SayGoodbye, transportVars, Shutdown, GoOffline, CancelThen, Idle
<1>7. Connect \/ SessionEnds \/ Exit \/ Stop \/ StopUnconnected \/ Restart \/ Crash => KnowsItsPlace'
  <2>1. Connect \/ SessionEnds \/ Exit \/ Stop \/ StopUnconnected \/ Restart \/ Crash
          => session' \notin {"announcing", "serving"}
    BY DEF Connect, SessionEnds, Exit, Stop, StopUnconnected, Restart, Crash, NewProcess
  <2> QED
    BY <2>1
<1>8. WillFires \/ LinkBreaks \/ BrokerRestarts \/ UNCHANGED tvars => KnowsItsPlace'
  BY DEF WillFires, LinkBreaks, BrokerRestarts, tvars, transportVars, vars, kitchenVars
<1> QED
  BY <1>1, <1>2, <1>3, <1>4, <1>5, <1>6, <1>7, <1>8
     DEF TNext, TStep, SessionSteps, Environment

LEMMA GreetsHolds ==
    ASSUME TTypeOK, TTypeOK', KnowsItsPlace, Greets, [TNext]_tvars
    PROVE  Greets'
<1>0. TypeOK /\ TypeOK' /\ link \in {"up", "down"}
  BY DEF TTypeOK, TypeOK
<1> DEFINE InSession == session \in {"announcing", "serving"} /\ link = "up"
<1>1. ASSUME Subscribed
      PROVE  Greets'
  <2>1. /\ StartBatch("online", AllSnapshots) /\ UNCHANGED <<storeVars, link>>
        /\ link = "up" /\ session' = "announcing"
    BY <1>1 DEF Subscribed, AnnounceOnline
  <2>2. AllSnapshots' = AllSnapshots
    BY <2>1 DEF AllSnapshots, Snapshot, storeVars
  <2>3. /\ AllSnapshots \in [Tables -> Snapshots']
        /\ \A t \in Tables : AllSnapshots[t].epoch = epoch'
    BY <1>0, <2>2, SnapshotsAfter
  <2>4. Reached'
    BY <1>0, <2>1, <2>3, BatchIsCurrent
  <2>5. main'.at = "publishing" /\ main'.batch = AllSnapshots
    BY <2>1 DEF StartBatch
  <2> QED
    BY <2>1, <2>3, <2>4, <2>5 DEF Greets
<1>2. ASSUME Announced
      PROVE  Greets'
  <2>1. /\ main.at = "greeting" /\ main'.at = "idle" /\ session' = "serving"
        /\ session = "announcing" /\ UNCHANGED <<storeVars, link, retained, status>>
    BY <1>2 DEF Announced, Greeted, Idle
  <2>2. Reached => Reached'
    BY <2>1 DEF Reached, Current, Pending, storeVars
  <2> QED
    BY <2>1, <2>2 DEF Greets
<1>3. ASSUME NEW t \in Tables, NEW c \in ClientOrders, Accept(t, c), session = "serving",
             UNCHANGED session
      PROVE  Greets'
  <2>1. /\ main.at = "idle" /\ main'.at = "accepting" /\ UNCHANGED <<link, status>>
        /\ epoch' = epoch /\ Publish(t, Snapshot(t)')
    BY <1>3 DEF Accept, Idle, StoreAccept
  <2>2. ASSUME link = "up"
        PROVE  Reached'
    <3>1. Pending = {} /\ Pending' = {}
      BY <2>1 DEF Pending
    <3>2. \A u \in Tables : retained[u] # Nothing /\ retained[u].epoch = epoch'
      BY <1>3, <2>1, <2>2, <3>1 DEF Greets, Reached, Current
    <3>3. PICK state \in Snapshots' : state.epoch = epoch' /\ Publish(t, state)
      BY <1>0, <2>1, SnapshotsAfter
    <3>4. \A u \in Tables \cup {t} : Current(u)'
      BY <1>0, <2>2, <3>2, <3>3, PublishedIsCurrent
    <3> QED
      BY <3>4 DEF Reached
  <2> QED
    BY <1>3, <2>1, <2>2 DEF Greets
<1>4. ASSUME WipeAndRepublish
      PROVE  (InSession => Reached)' /\ (\A t \in Tables : main'.batch[t].epoch = epoch')
             /\ main'.at = "publishing" /\ UNCHANGED <<link, status>>
  <2>1. StartBatch("reset", AllSnapshots') /\ UNCHANGED <<link, status>>
    BY <1>4 DEF WipeAndRepublish
  <2>2. main'.at = "publishing" /\ main'.batch = AllSnapshots'
    BY <2>1 DEF StartBatch
  <2>3. /\ AllSnapshots' \in [Tables -> Snapshots']
        /\ \A t \in Tables : AllSnapshots'[t].epoch = epoch'
    BY <1>0, SnapshotsAfter
  <2>4. link = "up" => Reached'
    BY <1>0, <2>1, <2>3, BatchIsCurrent
  <2> QED
    BY <2>1, <2>2, <2>3, <2>4
\* Steps that publish no table and take no session up.
<1>5. ASSUME UNCHANGED <<storeVars, retained, status>>, main'.at # "publishing", main.at # "publishing",
             main'.at # "greeting", session' = session, link' \in {link, "down"}
      PROVE  Greets'
  <2>1. Pending' = {} /\ Pending = {}
    BY <1>5 DEF Pending
  <2>2. Reached => Reached'
    BY <1>5, <2>1 DEF Reached, Current, storeVars
  <2> QED
    BY <1>5, <2>2 DEF Greets
<1>6. ASSUME Consume
      PROVE  Greets'
  <2>1. session = "serving" /\ session' = session
    BY <1>6 DEF Consume, transportVars
  <2>2. ASSUME NEW t, NEW c, Refuse(t, c)
        PROVE  Greets'
    <3>1. main.at = "idle" /\ main'.at = "refusing" /\ UNCHANGED <<storeVars, retained, status, link>>
      BY <2>2 DEF Refuse, Idle
    <3> QED
      BY <1>5, <2>1, <3>1
  <2>3. ASSUME CancelThen("reset"), main = Idle
        PROVE  Greets'
    <3>1. main.at = "idle" /\ main'.at = "cancelling" /\ UNCHANGED <<storeVars, retained, status, link>>
      BY <2>3 DEF CancelThen, Idle
    <3> QED
      BY <1>5, <2>1, <3>1
  <2>4. ASSUME WipeAndRepublish
        PROVE  Greets'
    BY <1>4, <2>1, <2>4 DEF Greets
  <2> QED
    BY <1>3, <1>6, <2>1, <2>2, <2>3, <2>4 DEF Consume, HandleMessage, HandleReset
<1>7. ASSUME MainResumes
      PROVE  Greets'
  <2>1. session' = session
    BY <1>7 DEF MainResumes, transportVars
  <2>2. ASSUME Spawn \/ RefusalSent
        PROVE  Greets'
    <3>1. /\ main.at \in {"accepting", "refusing"} /\ main'.at = "idle"
          /\ UNCHANGED <<storeVars, retained, status, link>>
      BY <2>2 DEF Spawn, RefusalSent, Idle
    <3> QED
      BY <1>5, <2>1, <3>1
  <2>3. ASSUME Cancelled
        PROVE  Greets'
    <3>1. CASE main.then = "reset"
      BY <1>4, <2>1, <2>3, <3>1 DEF Cancelled, Greets
    <3>2. CASE main.then = "offline"
      <4>1. main.at = "cancelling" /\ main'.at = "closing"
        BY <2>3, <3>2 DEF Cancelled, GoOffline
      <4>2. session \notin {"announcing", "serving"}
        BY <3>2, <4>1 DEF KnowsItsPlace
      <4> QED
        BY <2>1, <4>1, <4>2 DEF Greets
    <3> QED
      BY <2>3, <3>1, <3>2 DEF Cancelled
  <2>4. ASSUME PublishNext
        PROVE  Greets'
    <3>1. main \in [at : {"publishing"}, then : {"reset", "online"},
                    left : SUBSET Tables, batch : [Tables -> Snapshots]]
      BY <1>0, <2>4 DEF PublishNext, TypeOK, MainStates
    <3>2. PICK f \in main.left : f = First(main.left)
      BY <2>4, <3>1, FirstIsMember DEF PublishNext
    <3>3. /\ main'.at = "publishing" /\ main'.batch = main.batch /\ main'.left = main.left \ {f}
          /\ UNCHANGED <<storeVars, link, status>> /\ Publish(f, main.batch[f])
      BY <2>4, <3>1, <3>2 DEF PublishNext
    <3>4. epoch' = epoch /\ placed' = placed
      BY <3>3 DEF storeVars
    <3>5. main.batch[f] \in Snapshots' /\ main.batch[f].epoch = epoch'
      <4>1. Snapshots' = Snapshots
        BY <3>4 DEF Snapshots, Histories
      <4> QED
        BY <3>1, <3>2, <3>4, <4>1 DEF Greets
    <3>6. Pending' = main.left \ {f} /\ Pending = main.left
      BY <3>1, <3>3 DEF Pending
    <3>7. InSession => Reached'
      <4> SUFFICES ASSUME InSession
                   PROVE  Reached'
        OBVIOUS
      <4>1. \A u \in Tables \ main.left : retained[u] # Nothing /\ retained[u].epoch = epoch'
        BY <3>4, <3>6 DEF Greets, Reached, Current
      <4>2. PICK state \in Snapshots' : state.epoch = epoch' /\ Publish(f, state)
        BY <3>3, <3>5
      <4>3. PICK S \in SUBSET Tables : S = Tables \ main.left
        OBVIOUS
      <4>4. f \in Tables
        BY <3>1, <3>2
      <4>5. \A u \in S \cup {f} : Current(u)'
        BY <1>0, <4>1, <4>2, <4>3, <4>4, PublishedIsCurrent
      <4>6. Tables \ Pending' \subseteq S \cup {f}
        BY <3>6, <4>3
      <4> QED
        BY <4>5, <4>6 DEF Reached
    <3>8. \A t \in Tables : main'.batch[t].epoch = epoch'
      BY <3>3, <3>4, <3>1 DEF Greets
    <3> QED
      BY <2>1, <3>3, <3>7, <3>8 DEF Greets
  <2>5. ASSUME BatchPublished
        PROVE  Greets'
    <3>1. /\ main.at = "publishing" /\ main.left = {} /\ UNCHANGED <<storeVars, link, retained>>
          /\ \/ main'.at = "idle" /\ status' = status /\ main.then = "reset"
             \/ main'.at = "greeting" /\ status' = (IF link = "up" THEN "ONLINE" ELSE status)
      BY <2>5 DEF BatchPublished, Idle, PublishStatus
    <3>2. Pending' = {} /\ Pending = {}
      BY <3>1 DEF Pending
    <3>3. Reached => Reached'
      BY <3>1, <3>2 DEF Reached, Current, storeVars
    <3> QED
      BY <2>1, <3>1, <3>3 DEF Greets
  <2> QED
    BY <1>7, <2>2, <2>3, <2>4, <2>5 DEF MainResumes
<1>8. ASSUME NEW i \in 1..MaxOrders, Cook(i)
      PROVE  Greets'
  <2>1. UNCHANGED <<main, session, link, status>> /\ epoch' = epoch
    BY <1>8 DEF Cook, CookStep, Serve, CookEnds, transportVars, StoreFinish, storeVars
  <2>2. Pending' = Pending
    BY <2>1 DEF Pending
  <2>3. \/ retained' = retained
        \/ \E t \in Tables : Publish(t, Snapshot(t)')
    BY <1>8 DEF Cook, CookStep, Serve, CookEnds
  <2>4. InSession => Reached'
    <3> SUFFICES ASSUME InSession
                 PROVE  Reached'
      OBVIOUS
    <3>1. \A u \in Tables \ Pending : retained[u] # Nothing /\ retained[u].epoch = epoch'
      BY <2>1 DEF Greets, Reached, Current
    <3>2. CASE retained' = retained
      BY <2>2, <3>1, <3>2 DEF Reached, Current
    <3>3. ASSUME NEW t \in Tables, Publish(t, Snapshot(t)')
          PROVE  Reached'
      <4>1. PICK state \in Snapshots' : state.epoch = epoch' /\ Publish(t, state)
        BY <1>0, <3>3, SnapshotsAfter
      <4>2. PICK S \in SUBSET Tables : S = Tables \ Pending
        OBVIOUS
      <4>3. \A u \in S \cup {t} : Current(u)'
        BY <1>0, <3>1, <4>1, <4>2, PublishedIsCurrent
      <4> QED
        BY <2>2, <4>2, <4>3 DEF Reached
    <3> QED
      BY <2>3, <3>2, <3>3
  <2> QED
    BY <2>1, <2>4 DEF Greets
<1>9. ASSUME SayGoodbye
      PROVE  Greets'
  BY <1>9 DEF SayGoodbye, transportVars, Shutdown, GoOffline, CancelThen, Greets
<1>10. ASSUME Connect \/ SessionEnds \/ Exit \/ Stop \/ StopUnconnected \/ Restart \/ Crash
       PROVE  Greets'
  <2>1. session' \notin {"announcing", "serving"}
    BY <1>10 DEF Connect, SessionEnds, Exit, Stop, StopUnconnected, Restart, Crash, NewProcess
  <2>2. \/ main'.at # "publishing"
        \/ main' = main /\ epoch' = epoch
    BY <1>10 DEF Connect, SessionEnds, Exit, Stop, StopUnconnected, Restart, Crash, NewProcess,
                 Closed, Idle, vars, kitchenVars, storeVars
  <2> QED
    BY <2>1, <2>2 DEF Greets
<1>11. ASSUME WillFires \/ LinkBreaks \/ BrokerRestarts
       PROVE  Greets'
  <2>1. link' = "down" /\ main' = main /\ epoch' = epoch
    BY <1>11 DEF WillFires, LinkBreaks, BrokerRestarts, storeVars
  <2> QED
    BY <2>1 DEF Greets
<1>12. ASSUME UNCHANGED tvars
       PROVE  Greets'
  BY <1>12 DEF tvars, transportVars, vars, kitchenVars, storeVars, Greets, Reached, Current, Pending
<1> QED
  BY <1>1, <1>2, <1>6, <1>7, <1>8, <1>9, <1>10, <1>11, <1>12
     DEF TNext, TStep, SessionSteps, Environment

LEMMA PlacedAtFirst == TInit => KnowsItsPlace /\ Greets
BY DEF TInit, KnowsItsPlace, Greets, Idle

\* A kitchen that serves over a working link is announced, with the tables of this
\* very generation, whatever happened to links, brokers and processes before
\* (kitchen.py:102-112, 148-154).
THEOREM ServingStaysAnnounced == TSpec => []ServingIsAnnounced
<1>1. TInit => KnowsItsPlace /\ Greets
  BY PlacedAtFirst
<1>2. TTypeOK /\ KnowsItsPlace /\ [TNext]_tvars => KnowsItsPlace'
  BY PlacesHold
<1>3. TTypeOK /\ TTypeOK' /\ KnowsItsPlace /\ Greets /\ [TNext]_tvars => Greets'
  BY GreetsHolds
<1>4. Greets => ServingIsAnnounced
  BY DEF Greets, ServingIsAnnounced, Reached, Current
<1> QED
  BY <1>1, <1>2, <1>3, <1>4, TransportTypeCorrect, PTL DEF TSpec

-----------------------------------------------------------------------------
(* Dishes *)

\* Whatever happens around it, a process takes no table and no kitchen over its
\* limit; and the next one starts with empty tables.
LEMMA CapacityHolds ==
    ASSUME TypeOK, CapacityRespected, [TNext]_tvars
    PROVE  CapacityRespected'
<1>1. StoreTypeOK /\ link \in {"up", "down"}
  BY DEF TypeOK
<1>2. [Steps]_vars => CapacityRespected'
  BY <1>1, CapacityStep DEF Next
<1>3. ASSUME UNCHANGED storeVars
      PROVE  CapacityRespected'
  BY <1>3 DEF storeVars, CapacityRespected, TotalCookingCount, AllCooking, CookingCount
<1>4. ASSUME Replaced
      PROVE  CapacityRespected'
  <2>1. \A t \in Tables : Cooking(orders'[t]) = {}
    BY <1>4, CookingAfterReset DEF Replaced, NewProcess, StoreReset
  <2>2. AllCooking' = {}
    BY <2>1 DEF AllCooking
  <2> QED
    BY <2>1, <2>2, FS_EmptySet, CapacityAssumption
       DEF CapacityRespected, TotalCookingCount, CookingCount
<1> QED
  BY <1>1, <1>2, <1>3, <1>4, TransportSteps DEF Outside, Halts

LEMMA CapacityAtFirst == TInit => CapacityRespected
<1> SUFFICES ASSUME TInit
             PROVE  CapacityRespected
  OBVIOUS
<1>1. \A t \in Tables : Cooking(orders[t]) = {}
  BY DEF TInit, StoreInit, NoOrders, Cooking
<1>2. AllCooking = {}
  BY <1>1 DEF AllCooking
<1> QED
  BY <1>1, <1>2, FS_EmptySet, CapacityAssumption
     DEF CapacityRespected, TotalCookingCount, CookingCount

\* The limits hold over lost connections, stops and crashes (kitchen.py:259-317).
THEOREM CapacityOverRestarts == TSpec => []CapacityRespected
<1>1. TInit => CapacityRespected
  BY CapacityAtFirst
<1>2. TTypeOK /\ CapacityRespected /\ [TNext]_tvars => CapacityRespected'
  BY CapacityHolds DEF TTypeOK
<1> QED
  BY <1>1, <1>2, TransportTypeCorrect, PTL DEF TSpec

\* What makes DishesSurviveReconnect inductive: who cooks what, until a stop leaves
\* orders and cancelled cooks behind.
DishesAreOwned ==
    \/ session \in {"stopping", "exited"}
    \/ CooksHaveTheirOrder /\ ConsumerHoldsOrder /\ OrdersHaveACook

LEMMA DishesStayOwned ==
    ASSUME TTypeOK, DishesAreOwned, [TNext]_tvars
    PROVE  DishesAreOwned'
<1>1. TypeOK /\ link \in {"up", "down"}
  BY DEF TTypeOK, TypeOK
<1>2. session \in {"stopping", "exited"} => session' \in {"stopping", "exited"} \/ Replaced
  BY DEF TNext, TStep, SessionSteps, Environment, Consume, MainResumes, Cook, Connect,
         Subscribed, Announced, SessionEnds, SayGoodbye, Exit, WillFires, Stop,
         StopUnconnected, Restart, Crash, LinkBreaks, BrokerRestarts, tvars, transportVars,
         Replaced
<1>3. ASSUME Replaced
      PROVE  DishesAreOwned'
  <2>1. DOMAIN cooks' = {} /\ main'.at = "idle"
    BY <1>3, NoCooksTyped DEF Replaced, NewProcess, NoCooks, Idle
  <2>2. \A t \in Tables : Cooking(orders'[t]) = {}
    BY <1>3, CookingAfterReset DEF Replaced, NewProcess, StoreReset
  <2> QED
    BY <2>1, <2>2 DEF DishesAreOwned, CooksHaveTheirOrder, ConsumerHoldsOrder, OrdersHaveACook
<1>4. ASSUME CooksHaveTheirOrder, ConsumerHoldsOrder, OrdersHaveACook
      PROVE  DishesAreOwned'
  <2>1. ASSUME [Steps]_vars
        PROVE  DishesAreOwned'
    <3>1. CookInv
      BY <1>1, <1>4 DEF CookInv
    <3>2. CooksHaveTheirOrder' /\ ConsumerHoldsOrder'
      BY <2>1, <3>1, CookStepHolds DEF Next
    <3>3. OrdersHaveACook'
      BY <1>4, <2>1, <3>1, OwnersStepHolds
    <3> QED
      BY <3>2, <3>3 DEF DishesAreOwned
  <2>2. ASSUME Outside
        PROVE  DishesAreOwned'
    <3>1. UNCHANGED <<orders, main, cooks>>
      BY <2>2 DEF Outside, storeVars
    <3>2. CooksHaveTheirOrder' /\ ConsumerHoldsOrder'
      BY <1>4, <3>1 DEF CooksHaveTheirOrder, ConsumerHoldsOrder, IsCooking
    <3>3. OrdersHaveACook'
      BY <1>4, <3>1 DEF OrdersHaveACook, Abandoned, OwnedByConsumer, OwnedByCook
    <3> QED
      BY <3>2, <3>3 DEF DishesAreOwned
  <2> QED
    BY <1>1, <1>3, <2>1, <2>2, TransportSteps DEF Halts, DishesAreOwned
<1> QED
  BY <1>2, <1>3, <1>4 DEF DishesAreOwned

LEMMA OwnedAtFirst == TInit => DishesAreOwned
<1> SUFFICES ASSUME TInit
             PROVE  DishesAreOwned
  OBVIOUS
<1>1. DOMAIN cooks = {} /\ main.at = "idle"
  BY NoCooksTyped DEF TInit, Idle
<1>2. \A t \in Tables : Cooking(orders[t]) = {}
  BY DEF TInit, StoreInit, NoOrders, Cooking
<1> QED
  BY <1>1, <1>2 DEF DishesAreOwned, CooksHaveTheirOrder, ConsumerHoldsOrder, OrdersHaveACook

\* No loss of a connection separates a dish from its cook (transport.py:62-64).
THEOREM DishesAlwaysSurvive == TSpec => []DishesSurviveReconnect
<1>1. TInit => DishesAreOwned
  BY OwnedAtFirst
<1>2. TTypeOK /\ DishesAreOwned /\ [TNext]_tvars => DishesAreOwned'
  BY DishesStayOwned
<1>3. DishesAreOwned => DishesSurviveReconnect
  BY DEF DishesAreOwned, DishesSurviveReconnect
<1> QED
  BY <1>1, <1>2, <1>3, TransportTypeCorrect, PTL DEF TSpec

-----------------------------------------------------------------------------
(* Repairs *)

\* What makes ResyncRepairsUnlessOvertaken inductive: what a running publication has
\* yet to send is the present state of its table, or known to be overtaken; and while
\* a reset republishes, nothing cooks that could overtake it.
InSession == session \in {"announcing", "serving"} /\ link = "up"

Repaired == \A t \in Tables \ (Pending \cup overtaken) : retained[t] = Snapshot(t)

BatchIsPresent ==
    main.at = "publishing" =>
        \A t \in main.left : \/ main.batch[t] = Snapshot(t)
                             \/ main.then = "online" /\ t \in overtaken

ResetIsQuiet == main.at = "publishing" /\ main.then = "reset" => DOMAIN cooks = {}

RepairInv == (InSession => Repaired) /\ BatchIsPresent /\ ResetIsQuiet

\* The history, for one table.
LEMMA OvertakenIs ==
    ASSUME MarkOvertaken, NEW t \in Tables
    PROVE  t \in overtaken' <=>
               /\ ~ (main'.at = "publishing" /\ main.at # "publishing")
               /\ IF version'[t] # version[t] THEN InBatch(t) ELSE t \in overtaken
BY DEF MarkOvertaken

\* Steps that take up no session, publish no table and leave a publication alone.
Harmless ==
    /\ main'.at = "publishing" => /\ UNCHANGED <<storeVars, main>>
                                  /\ DOMAIN cooks' \subseteq DOMAIN cooks
    /\ InSession' => InSession /\ Pending' = Pending /\ UNCHANGED <<storeVars, retained>>

\* A typed publication: what it has left are tables, its batch holds their states.
LEMMA PublicationIs ==
    ASSUME TypeOK, main.at = "publishing"
    PROVE  main \in [at : {"publishing"}, then : {"reset", "online"},
                     left : SUBSET Tables, batch : [Tables -> Snapshots]]
BY DEF TypeOK, MainStates

LEMMA QuietKeepsRepairs ==
    ASSUME TypeOK, RepairInv, Harmless, MarkOvertaken \/ UNCHANGED overtaken
    PROVE  RepairInv'
<1>1. ASSUME UNCHANGED storeVars, NEW t \in Tables
      PROVE  /\ Snapshot(t)' = Snapshot(t)
             /\ t \in overtaken' <=> t \in overtaken
  <2>1. version' = version /\ Snapshot(t)' = Snapshot(t)
    BY <1>1 DEF Snapshot, storeVars
  <2>2. ~ (main'.at = "publishing" /\ main.at # "publishing")
    BY DEF Harmless
  <2>3. MarkOvertaken => (t \in overtaken' <=> t \in overtaken)
    BY <2>1, <2>2, OvertakenIs
  <2> QED
    BY <2>1, <2>3
<1>2. BatchIsPresent' /\ ResetIsQuiet'
  <2>1. CASE main'.at = "publishing"
    <3>1. main' = main /\ main.at = "publishing" /\ UNCHANGED storeVars
      BY <2>1 DEF Harmless
    <3>2. main.left \subseteq Tables
      BY <3>1, PublicationIs
    <3>3. \A t \in main.left : Snapshot(t)' = Snapshot(t) /\ (t \in overtaken' <=> t \in overtaken)
      BY <1>1, <3>1, <3>2
    <3>4. BatchIsPresent'
      BY <3>1, <3>3 DEF RepairInv, BatchIsPresent
    <3>5. ResetIsQuiet'
      BY <2>1, <3>1 DEF Harmless, RepairInv, ResetIsQuiet
    <3> QED
      BY <3>4, <3>5
  <2>2. CASE main'.at # "publishing"
    BY <2>2 DEF BatchIsPresent, ResetIsQuiet
  <2> QED
    BY <2>1, <2>2
<1>3. ASSUME InSession'
      PROVE  Repaired'
  <2>1. Repaired /\ Pending' = Pending /\ UNCHANGED <<storeVars, retained>>
    BY <1>3 DEF Harmless, RepairInv
  <2> QED
    BY <1>1, <2>1 DEF Repaired
<1> QED
  BY <1>2, <1>3 DEF RepairInv

\* A publication begins, with the present state of every table.
LEMMA BeginningKeepsRepairs ==
    ASSUME TypeOK, main.at # "publishing", NEW then, StartBatch(then, AllSnapshots'),
           MarkOvertaken, link' = link, then = "reset" => DOMAIN cooks' = {}
    PROVE  RepairInv'
<1>1. PICK f \in Tables : f = First(Tables)
  BY FirstIsMember, TablesAssumption
<1>2. /\ main'.at = "publishing" /\ main'.then = then /\ main'.left = Tables \ {f}
      /\ main'.batch = AllSnapshots' /\ Publish(f, AllSnapshots'[f])
  BY <1>1 DEF StartBatch
<1>3. \A t \in Tables : AllSnapshots'[t] = Snapshot(t)'
  BY DEF AllSnapshots, Snapshot
<1>4. BatchIsPresent' /\ ResetIsQuiet'
  BY <1>2, <1>3 DEF BatchIsPresent, ResetIsQuiet
<1>5. ASSUME InSession'
      PROVE  Repaired'
  <2>1. link = "up"
    BY <1>5 DEF InSession
  <2>2. retained' = [retained EXCEPT ![f] = Snapshot(f)'] /\ f \in DOMAIN retained
    BY <1>2, <1>3, <2>1 DEF Publish, TypeOK
  <2>3. retained'[f] = Snapshot(f)'
    BY <2>2
  <2>4. Pending' = Tables \ {f}
    BY <1>2 DEF Pending
  <2> QED
    BY <2>3, <2>4 DEF Repaired
<1> QED
  BY <1>4, <1>5 DEF RepairInv

\* A table changes and is published; if it was still to be announced, it is from now
\* on one of the overtaken.
LEMMA ChangeKeepsRepairs ==
    ASSUME TypeOK, RepairInv, NEW t \in Tables, MarkOvertaken,
           UNCHANGED <<epoch, link, session>>,
           version' = [version EXCEPT ![t] = @ + 1],
           \A u \in Tables \ {t} : orders'[u] = orders[u],
           Publish(t, Snapshot(t)'),
           \/ main' = main /\ DOMAIN cooks # {} /\ DOMAIN cooks' \subseteq DOMAIN cooks
           \/ main.at # "publishing" /\ main'.at # "publishing"
    PROVE  RepairInv'
<1>1. version'[t] # version[t] /\ \A u \in Tables \ {t} : version'[u] = version[u]
  <2>1. version \in [Tables -> Nat]
    BY DEF TypeOK, StoreTypeOK
  <2>2. version'[t] = version[t] + 1 /\ version[t] \in Nat
    BY <2>1
  <2>3. \A u \in Tables \ {t} : version'[u] = version[u]
    BY <2>1
  <2> QED
    BY <2>2, <2>3
<1>2. \A u \in Tables \ {t} : Snapshot(u)' = Snapshot(u)
  BY <1>1 DEF Snapshot
<1>3. ~ (main'.at = "publishing" /\ main.at # "publishing") /\ Pending' = Pending
  BY DEF Pending
<1>4. /\ t \in overtaken' <=> InBatch(t)
      /\ \A u \in Tables \ {t} : u \in overtaken' <=> u \in overtaken
  <2>1. t \in overtaken' <=> InBatch(t)
    BY <1>1, <1>3, OvertakenIs
  <2>2. \A u \in Tables \ {t} : u \in overtaken' <=> u \in overtaken
    BY <1>1, <1>3, OvertakenIs
  <2> QED
    BY <2>1, <2>2
<1>5. BatchIsPresent' /\ ResetIsQuiet'
  <2>1. CASE main'.at # "publishing"
    BY <2>1 DEF BatchIsPresent, ResetIsQuiet
  <2>2. CASE main'.at = "publishing"
    <3>1. main' = main /\ main.at = "publishing" /\ DOMAIN cooks # {}
      BY <1>3, <2>2
    <3>2. main.then = "online" /\ main.left \subseteq Tables
      <4>1. main.then # "reset"
        BY <3>1 DEF RepairInv, ResetIsQuiet
      <4> QED
        BY <3>1, <4>1, PublicationIs
    <3>3. ASSUME NEW u \in main.left
          PROVE  main.batch[u] = Snapshot(u)' \/ u \in overtaken'
      <4>1. CASE u = t
        BY <1>4, <3>1, <3>2, <4>1 DEF InBatch
      <4>2. CASE u # t
        BY <1>2, <1>4, <3>1, <3>2, <4>2 DEF RepairInv, BatchIsPresent
      <4> QED
        BY <4>1, <4>2
    <3>4. BatchIsPresent'
      BY <3>1, <3>2, <3>3 DEF BatchIsPresent
    <3>5. ResetIsQuiet'
      BY <3>1, <3>2 DEF ResetIsQuiet
    <3> QED
      BY <3>4, <3>5
  <2> QED
    BY <2>1, <2>2
<1>6. ASSUME InSession'
      PROVE  Repaired'
  <2>1. InSession /\ link = "up" /\ Repaired
    BY <1>6 DEF InSession, RepairInv
  <2>2. retained' = [retained EXCEPT ![t] = Snapshot(t)'] /\ DOMAIN retained = Tables
    BY <2>1 DEF Publish, TypeOK
  <2>3. retained'[t] = Snapshot(t)' /\ \A u \in Tables \ {t} : retained'[u] = retained[u]
    BY <2>2
  <2> QED
    BY <1>2, <1>3, <1>4, <2>1, <2>3 DEF Repaired
<1> QED
  BY <1>5, <1>6 DEF RepairInv

\* The next table of the batch is published.
LEMMA PublishNextKeepsRepairs ==
    ASSUME TypeOK, RepairInv, PublishNext, UNCHANGED session, MarkOvertaken
    PROVE  RepairInv'
<1>1. main \in [at : {"publishing"}, then : {"reset", "online"},
                left : SUBSET Tables, batch : [Tables -> Snapshots]]
  BY PublicationIs DEF PublishNext
<1>2. PICK f \in main.left : f = First(main.left)
  BY <1>1, FirstIsMember DEF PublishNext
<1>3. /\ main'.at = "publishing" /\ main'.batch = main.batch /\ main'.then = main.then
      /\ main'.left = main.left \ {f} /\ Publish(f, main.batch[f])
      /\ UNCHANGED <<storeVars, cooks, link>>
  BY <1>1, <1>2 DEF PublishNext
<1>4. \A t \in Tables : Snapshot(t)' = Snapshot(t) /\ (t \in overtaken' <=> t \in overtaken)
  <2>1. UNCHANGED <<epoch, version, orders>> /\ main.at = "publishing"
    BY <1>1, <1>3 DEF storeVars
  <2> QED
    BY <2>1, OvertakenIs DEF Snapshot
<1>5. BatchIsPresent' /\ ResetIsQuiet'
  <2>1. BatchIsPresent'
    BY <1>1, <1>3, <1>4 DEF RepairInv, BatchIsPresent
  <2>2. ResetIsQuiet'
    BY <1>1, <1>3 DEF RepairInv, ResetIsQuiet
  <2> QED
    BY <2>1, <2>2
<1>6. ASSUME InSession'
      PROVE  Repaired'
  <2>1. Repaired /\ link = "up"
    BY <1>3, <1>6 DEF InSession, RepairInv
  <2>2. Pending = main.left /\ Pending' = main.left \ {f} /\ f \in Tables
    BY <1>1, <1>2, <1>3 DEF Pending
  <2>3. retained' = [retained EXCEPT ![f] = main.batch[f]] /\ DOMAIN retained = Tables
    BY <1>3, <2>1 DEF Publish, TypeOK
  <2>4. retained'[f] = main.batch[f] /\ \A u \in Tables \ {f} : retained'[u] = retained[u]
    BY <2>2, <2>3
  <2>5. ASSUME f \notin overtaken'
        PROVE  retained'[f] = Snapshot(f)'
    <3>1. main.batch[f] = Snapshot(f)
      BY <1>1, <1>2, <1>4, <2>2, <2>5 DEF RepairInv, BatchIsPresent
    <3> QED
      BY <1>4, <2>2, <2>4, <3>1
  <2>6. ASSUME NEW u \in Tables \ (Pending' \cup overtaken'), u # f
        PROVE  retained'[u] = Snapshot(u)'
    <3>1. u \in Tables \ (Pending \cup overtaken)
      BY <1>4, <2>2, <2>6
    <3> QED
      BY <1>4, <2>1, <2>4, <2>6, <3>1 DEF Repaired
  <2> QED
    BY <2>5, <2>6 DEF Repaired
<1> QED
  BY <1>5, <1>6 DEF RepairInv

\* A table is changed by an accepted order or a served one.
LEMMA StoreChangeKeepsRepairs ==
    ASSUME TypeOK, RepairInv, MarkOvertaken, UNCHANGED session,
           \/ \E t \in Tables, c \in ClientOrders : Accept(t, c)
           \/ \E i \in DOMAIN cooks, t \in Tables :
                  /\ StoreFinish(t, i, "SERVED") /\ Publish(t, Snapshot(t)')
                  /\ cooks' = [cooks EXCEPT ![i].at = "publishing"]
                  /\ UNCHANGED <<main, link>>
    PROVE  RepairInv'
<1>1. orders \in [Tables -> Histories]
  BY DEF TypeOK, StoreTypeOK
<1>2. ASSUME NEW t \in Tables, NEW c \in ClientOrders, Accept(t, c)
      PROVE  RepairInv'
  <2>1. main.at = "idle" /\ main'.at = "accepting" /\ Publish(t, Snapshot(t)')
        /\ UNCHANGED <<epoch, link>>
    BY <1>2 DEF Accept, StoreAccept, Idle
  <2>2. AddOrder(t)
    BY <1>2 DEF Accept, StoreAccept
  <2>3. version' = [version EXCEPT ![t] = @ + 1]
        /\ \A u \in Tables \ {t} : orders'[u] = orders[u]
    BY <1>1, <2>2 DEF AddOrder
  <2> QED
    BY <2>1, <2>3, ChangeKeepsRepairs
<1>3. ASSUME NEW i \in DOMAIN cooks, NEW t \in Tables,
             StoreFinish(t, i, "SERVED"), Publish(t, Snapshot(t)'),
             cooks' = [cooks EXCEPT ![i].at = "publishing"], UNCHANGED <<main, link>>
      PROVE  RepairInv'
  <2>1. FinishOrder(t, i, "SERVED") /\ epoch' = epoch
    BY <1>3 DEF StoreFinish
  <2>2. version' = [version EXCEPT ![t] = @ + 1]
        /\ \A u \in Tables \ {t} : orders'[u] = orders[u]
    BY <1>1, <2>1 DEF FinishOrder
  <2>3. main' = main /\ DOMAIN cooks # {} /\ DOMAIN cooks' \subseteq DOMAIN cooks
    BY <1>3
  <2>4. link' = link
    BY <1>3
  <2> QED
    BY <1>3, <2>1, <2>2, <2>3, <2>4, ChangeKeepsRepairs
<1> QED
  BY <1>2, <1>3

LEMMA StepKeepsRepairs ==
    ASSUME TypeOK, RepairInv,
           \/ TNext /\ MarkOvertaken
           \/ UNCHANGED <<vars, session>> /\ (MarkOvertaken \/ UNCHANGED overtaken)
    PROVE  RepairInv'
<1>1. MarkOvertaken \/ UNCHANGED overtaken
  OBVIOUS
<1> DEFINE Keeps == UNCHANGED <<storeVars, retained>>
<1>2. ASSUME UNCHANGED <<storeVars, retained, main, cooks>>, InSession' => InSession
      PROVE  Harmless
  BY <1>2 DEF Harmless, Pending
<1>3. ASSUME main.at # "publishing", main'.at # "publishing", Keeps, InSession' => InSession
      PROVE  Harmless
  BY <1>3 DEF Harmless, Pending
<1>4. ASSUME ~ InSession', main'.at # "publishing"
      PROVE  Harmless
  BY <1>4 DEF Harmless
<1>5. ASSUME ~ InSession', UNCHANGED <<storeVars, main, cooks>>
      PROVE  Harmless
  BY <1>5 DEF Harmless
<1>6. ASSUME WipeAndRepublish, main.at # "publishing", DOMAIN cooks = {}, MarkOvertaken
      PROVE  RepairInv'
  <2>1. StartBatch("reset", AllSnapshots') /\ link' = link /\ cooks' = cooks
    BY <1>6 DEF WipeAndRepublish
  <2>2. DOMAIN cooks' = {}
    BY <1>6, <2>1
  <2> QED
    BY <1>6, <2>1, <2>2, BeginningKeepsRepairs
<1>7. ASSUME SessionSteps
      PROVE  Harmless \/ Subscribed
  <2>1. Connect => Harmless
    <3>1. Connect => ~ InSession' /\ UNCHANGED <<storeVars, main, cooks>>
      BY DEF Connect, InSession
    <3> QED
      BY <1>5, <3>1
  <2>2. Announced => Harmless
    <3>1. Announced => /\ main.at # "publishing" /\ main'.at # "publishing" /\ Keeps
                       /\ InSession' => InSession
      BY DEF Announced, Greeted, InSession, Idle
    <3> QED
      BY <1>3, <3>1
  <2>3. SessionEnds => Harmless
    <3>1. SessionEnds => ~ InSession' /\ UNCHANGED <<storeVars, main, cooks>>
      BY DEF SessionEnds, InSession, vars, kitchenVars
    <3> QED
      BY <1>5, <3>1
  <2>4. SayGoodbye => Harmless
    <3>1. SayGoodbye => ~ InSession' /\ main'.at # "publishing"
      BY DEF SayGoodbye, Shutdown, GoOffline, CancelThen, InSession, transportVars
    <3> QED
      BY <1>4, <3>1
  <2>5. Exit => Harmless
    <3>1. Exit => ~ InSession' /\ main'.at # "publishing"
      BY DEF Exit, Closed, InSession
    <3> QED
      BY <1>4, <3>1
  <2> QED
    BY <1>7, <2>1, <2>2, <2>3, <2>4, <2>5 DEF SessionSteps
<1>8. ASSUME Subscribed, MarkOvertaken
      PROVE  RepairInv'
  <2>1. /\ main.at = "idle" /\ StartBatch("online", AllSnapshots)
        /\ UNCHANGED <<storeVars, cooks, link>>
    BY <1>8 DEF Subscribed, AnnounceOnline, Idle
  <2>2. AllSnapshots' = AllSnapshots
    BY <2>1 DEF AllSnapshots, Snapshot, storeVars
  <2>3. StartBatch("online", AllSnapshots')
    BY <2>1, <2>2
  <2> QED
    BY <1>8, <2>1, <2>3, BeginningKeepsRepairs
<1>9. ASSUME Consume, MarkOvertaken
      PROVE  RepairInv' \/ Harmless
  <2>1. UNCHANGED session /\ HandleMessage
    BY <1>9 DEF Consume, transportVars
  <2>2. ASSUME \E t \in Tables, c \in ClientOrders : Accept(t, c)
        PROVE  RepairInv'
    BY <1>9, <2>1, <2>2, StoreChangeKeepsRepairs
  <2>3. ASSUME NEW t, NEW c, Refuse(t, c)
        PROVE  Harmless
    <3>1. /\ main.at # "publishing" /\ main'.at # "publishing" /\ Keeps
          /\ InSession' => InSession
      BY <2>1, <2>3 DEF Refuse, Idle, InSession
    <3> QED
      BY <1>3, <3>1
  <2>4. ASSUME HandleReset
        PROVE  RepairInv' \/ Harmless
    <3>1. main.at # "publishing"
      BY <2>4 DEF HandleReset, Idle
    <3>2. ASSUME CancelThen("reset")
          PROVE  Harmless
      <4>1. main'.at # "publishing" /\ Keeps /\ (InSession' => InSession)
        BY <2>1, <3>2 DEF CancelThen, InSession
      <4> QED
        BY <1>3, <3>1, <4>1
    <3> QED
      BY <1>6, <1>9, <2>4, <3>1, <3>2 DEF HandleReset
  <2> QED
    BY <2>1, <2>2, <2>3, <2>4 DEF HandleMessage
<1>10. ASSUME MainResumes, MarkOvertaken
       PROVE  RepairInv' \/ Harmless
  <2>1. UNCHANGED session
    BY <1>10 DEF MainResumes, transportVars
  <2>2. ASSUME Spawn \/ RefusalSent
        PROVE  Harmless
    <3>1. /\ main.at # "publishing" /\ main'.at # "publishing" /\ Keeps
          /\ InSession' => InSession
      BY <2>1, <2>2 DEF Spawn, RefusalSent, Idle, InSession
    <3> QED
      BY <1>3, <3>1
  <2>3. ASSUME Cancelled
        PROVE  RepairInv' \/ Harmless
    <3>1. main.at # "publishing" /\ DOMAIN cooks = {}
      BY <2>3 DEF Cancelled
    <3>2. ASSUME GoOffline
          PROVE  Harmless
      <4>1. main'.at # "publishing" /\ Keeps /\ (InSession' => InSession)
        BY <2>1, <3>2 DEF GoOffline, InSession
      <4> QED
        BY <1>3, <3>1, <4>1
    <3> QED
      BY <1>6, <1>10, <2>3, <3>1, <3>2 DEF Cancelled
  <2>4. ASSUME PublishNext
        PROVE  RepairInv'
    BY <1>10, <2>1, <2>4, PublishNextKeepsRepairs
  <2>5. ASSUME BatchPublished
        PROVE  Harmless
    <3>1. /\ Pending = {} /\ main'.at # "publishing" /\ Keeps
          /\ InSession' => InSession
      BY <2>1, <2>5 DEF BatchPublished, Pending, Idle, InSession
    <3>2. Pending' = {}
      BY <3>1 DEF Pending
    <3> QED
      BY <3>1, <3>2 DEF Harmless
  <2> QED
    BY <1>10, <2>2, <2>3, <2>4, <2>5 DEF MainResumes
<1>11. ASSUME NEW i \in 1..MaxOrders, Cook(i), MarkOvertaken
       PROVE  RepairInv' \/ Harmless
  <2>1. UNCHANGED <<session, main, link>> /\ i \in DOMAIN cooks
    BY <1>11 DEF Cook, CookStep, Serve, CookEnds, transportVars
  <2>2. \/ UNCHANGED <<storeVars, retained>> /\ cooks' = WithoutCook(i)
        \/ \E t \in Tables :
               /\ StoreFinish(t, i, "SERVED") /\ Publish(t, Snapshot(t)')
               /\ cooks' = [cooks EXCEPT ![i].at = "publishing"]
    BY <1>11 DEF Cook, CookStep, Serve, CookEnds
  <2>3. ASSUME UNCHANGED <<storeVars, retained>>, cooks' = WithoutCook(i)
        PROVE  Harmless
    <3>1. DOMAIN cooks' \subseteq DOMAIN cooks
      BY <2>3 DEF WithoutCook
    <3>2. Pending' = Pending /\ (InSession' => InSession)
      BY <2>1 DEF Pending, InSession
    <3> QED
      BY <2>1, <2>3, <3>1, <3>2 DEF Harmless
  <2> QED
    BY <1>11, <2>1, <2>2, <2>3, StoreChangeKeepsRepairs
<1>12. WillFires \/ Environment \/ BrokerRestarts => Harmless
  <2>1. WillFires \/ LinkBreaks \/ BrokerRestarts =>
            ~ InSession' /\ UNCHANGED <<storeVars, main, cooks>>
    BY DEF WillFires, LinkBreaks, BrokerRestarts, InSession
  <2>2. Stop \/ Restart \/ Crash => ~ InSession' /\ main'.at # "publishing"
    BY DEF Stop, Restart, Crash, NewProcess, Idle, InSession
  <2>3. ASSUME StopUnconnected
        PROVE  Harmless
    <3>1. ~ InSession' /\ UNCHANGED <<storeVars, main>> /\ DOMAIN cooks' = {}
      BY <2>3, NoCooksTyped DEF StopUnconnected, InSession
    <3> QED
      BY <3>1 DEF Harmless
  <2> QED
    BY <1>4, <1>5, <2>1, <2>2, <2>3 DEF Environment
<1>13. UNCHANGED <<vars, session>> => Harmless
  <2>1. UNCHANGED <<vars, session>> =>
            UNCHANGED <<storeVars, retained, main, cooks>> /\ InSession' = InSession
    BY DEF vars, kitchenVars, InSession
  <2> QED
    BY <1>2, <2>1
<1>14. Harmless => RepairInv'
  BY <1>1, QuietKeepsRepairs
<1> HIDE DEF Keeps
<1>15. ASSUME TNext, MarkOvertaken
       PROVE  RepairInv' \/ Harmless
  BY <1>7, <1>8, <1>9, <1>10, <1>11, <1>12, <1>15 DEF TNext, TStep
<1> QED
  BY <1>13, <1>14, <1>15

\* Once the kitchen is announced, and as long as its link works, the retained state
\* of every table is its present one, but for the tables where a dish was served
\* while they were being announced (kitchen.py:102-112, app.py:79-80).
THEOREM OnlyOvertakenTablesAreStale == MCTransportSpec => []ResyncRepairsUnlessOvertaken
<1>1. MCTransportInit => TTypeOK /\ RepairInv
  <2>1. MCTransportInit => TTypeOK
    BY InitTyped DEF MCTransportInit
  <2>2. MCTransportInit => RepairInv
    BY DEF MCTransportInit, TInit, RepairInv, InSession, BatchIsPresent, ResetIsQuiet, Idle
  <2> QED
    BY <2>1, <2>2
<1>2. TTypeOK /\ [MCTransportNext]_<<tvars, overtaken>> => TTypeOK'
  <2>1. [MCTransportNext]_<<tvars, overtaken>> => [TNext]_tvars
    BY DEF MCTransportNext
  <2> QED
    BY <2>1, TransportTypesHold
<1>3. TTypeOK /\ RepairInv /\ [MCTransportNext]_<<tvars, overtaken>> => RepairInv'
  <2>1. [MCTransportNext]_<<tvars, overtaken>> =>
            \/ TNext /\ MarkOvertaken
            \/ UNCHANGED <<vars, session>> /\ UNCHANGED overtaken
    BY DEF MCTransportNext, tvars, transportVars
  <2> QED
    BY <2>1, StepKeepsRepairs DEF TTypeOK
<1>4. RepairInv => ResyncRepairsUnlessOvertaken
  BY DEF RepairInv, InSession, Repaired, ResyncRepairsUnlessOvertaken
<1> QED
  BY <1>1, <1>2, <1>3, <1>4, PTL DEF MCTransportSpec
=============================================================================
