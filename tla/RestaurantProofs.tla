------------------------- MODULE RestaurantProofs -------------------------
(***************************************************************************)
(* Theorems about Restaurant, for every number of tables, orders, faults   *)
(* and windows: versions name states all over the system, every window follows *)
(* the tables, and one that has read everything shows what the kitchen has.*)
(***************************************************************************)
EXTENDS MCRestaurant, TransportProofs, MCStoreProofs

-----------------------------------------------------------------------------
(* Sequences *)

LEMMA NoElements == DOMAIN << >> = {}
<1>1. << >> \in Seq({}) /\ Len(<< >>) = 0
  BY EmptySeq
<1> QED
  BY <1>1

\* A finite set has an enumeration.
LEMMA Enumerated ==
    ASSUME NEW S, IsFiniteSet(S)
    PROVE  SetToSeq(S) \in Seq(S)
<1>1. PICK n \in Nat : ExistsBijection(1..n, S)
  BY FS_NatBijection
<1>2. n = Cardinality(S)
  BY <1>1, FS_CountingElements
<1>3. \E f \in [1..n -> S] : IsInjective(f)
  BY <1>1 DEF ExistsBijection, Bijection, Injection, IsInjective
<1>4. SetToSeq(S) \in [1..n -> S]
  BY <1>2, <1>3 DEF SetToSeq
<1> QED
  BY <1>1, <1>4

LEMMA Enumerations ==
    ASSUME NEW S, IsFiniteSet(S), NEW s \in SetToSeqs(S)
    PROVE  s \in Seq(S)
<1>1. Cardinality(S) \in Nat
  BY FS_CardinalityType
<1> QED
  BY <1>1 DEF SetToSeqs

-----------------------------------------------------------------------------
(* What is published *)

\* What a table's slot and batch get is what they had or what the table is now.
Sources(t) ==
    /\ \/ retained'[t] = retained[t]
       \/ retained'[t] = Snapshot(t)'
       \/ main.at = "publishing" /\ retained'[t] = main.batch[t] /\ epoch' = epoch
    /\ main'.at = "publishing" =>
           \/ main'.batch[t] = Snapshot(t)'
           \/ main.at = "publishing" /\ main'.batch[t] = main.batch[t] /\ epoch' = epoch

LEMMA PublishSources ==
    ASSUME retained \in [Tables -> Snapshots \cup {Nothing}], NEW t \in Tables, NEW state,
           Publish(t, state), NEW u \in Tables
    PROVE  retained'[u] = retained[u] \/ (u = t /\ retained'[u] = state)
BY DEF Publish

LEMMA BatchSources ==
    ASSUME TypeOK, NEW then, StartBatch(then, AllSnapshots'), NEW t \in Tables
    PROVE  Sources(t)
<1>1. First(Tables) \in Tables
  BY FirstIsMember, TablesAssumption
<1>2. \A u \in Tables : AllSnapshots'[u] = Snapshot(u)'
  BY DEF AllSnapshots, Snapshot
<1>3. retained'[t] = retained[t] \/ retained'[t] = Snapshot(t)'
  BY <1>1, <1>2, PublishSources DEF StartBatch, TypeOK
<1> QED
  BY <1>2, <1>3 DEF StartBatch, Sources

LEMMA StepsSources ==
    ASSUME TypeOK, Steps, NEW t \in Tables
    PROVE  Sources(t)
<1>0. retained \in [Tables -> Snapshots \cup {Nothing}]
  BY DEF TypeOK
<1>1. ASSUME NEW u \in Tables, NEW c, Accept(u, c)
      PROVE  Sources(t)
  BY <1>0, <1>1, PublishSources DEF Accept, Sources
<1>2. ASSUME NEW i, CookStep(i)
      PROVE  Sources(t)
  <2>1. CASE CookEnds(i)
    BY <2>1 DEF CookEnds, Sources, storeVars
  <2>2. CASE Serve(i)
    <3>1. main' = main /\ epoch' = epoch
      BY <2>2 DEF Serve, StoreFinish, storeVars
    <3>2. retained' = retained
          \/ \E u \in Tables : Publish(u, Snapshot(u)')
      BY <2>2 DEF Serve
    <3>3. retained'[t] = retained[t] \/ retained'[t] = Snapshot(t)'
      BY <1>0, <3>2, PublishSources
    <3> QED
      BY <3>1, <3>3 DEF Sources
  <2> QED
    BY <1>2, <2>1, <2>2 DEF CookStep
<1>3. WipeAndRepublish => Sources(t)
  BY BatchSources DEF WipeAndRepublish
<1>4. AnnounceOnline => Sources(t)
  <2>1. AnnounceOnline => AllSnapshots' = AllSnapshots
    BY DEF AnnounceOnline, AllSnapshots, Snapshot, storeVars
  <2> QED
    BY <2>1, BatchSources DEF AnnounceOnline
<1>5. PublishNext => Sources(t)
  <2> SUFFICES ASSUME PublishNext
               PROVE  Sources(t)
    OBVIOUS
  <2>1. main \in [at : {"publishing"}, then : {"reset", "online"},
                  left : SUBSET Tables, batch : [Tables -> Snapshots]]
    BY DEF PublishNext, TypeOK, MainStates
  <2>2. First(main.left) \in Tables
    BY <2>1, FirstIsMember DEF PublishNext
  <2>3. retained'[t] = retained[t] \/ retained'[t] = main.batch[t]
    BY <1>0, <2>2, PublishSources DEF PublishNext
  <2>4. main'.batch = main.batch /\ main.at = "publishing" /\ epoch' = epoch
    BY <2>1 DEF PublishNext, storeVars
  <2> QED
    BY <2>3, <2>4 DEF Sources
<1>6. ASSUME UNCHANGED retained, main'.at # "publishing" \/ (main' = main /\ epoch' = epoch)
      PROVE  Sources(t)
  BY <1>6 DEF Sources
<1>7. ASSUME NEW u, NEW c, Refuse(u, c)
      PROVE  Sources(t)
  BY <1>6, <1>7 DEF Refuse
<1>8. HandleReset \/ Shutdown \/ Cancelled => Sources(t)
  BY <1>3, <1>6 DEF HandleReset, Shutdown, Cancelled, CancelThen, GoOffline
<1>9. Spawn \/ RefusalSent \/ Closed \/ BatchPublished \/ Greeted \/ LinkChanges => Sources(t)
  BY <1>6 DEF Spawn, RefusalSent, Closed, BatchPublished, Greeted, LinkChanges, Idle, storeVars
<1> QED
  BY <1>1, <1>2, <1>4, <1>5, <1>7, <1>8, <1>9 DEF Steps, HandleMessage, Resume

LEMMA TransportSources ==
    ASSUME TypeOK, TStep, NEW t \in Tables
    PROVE  Sources(t)
<1>1. CASE Connect \/ WillFires \/ LinkBreaks \/ SessionEnds
  BY <1>1 DEF Connect, WillFires, LinkBreaks, SessionEnds, Sources, vars, kitchenVars, storeVars
<1>2. CASE Stop \/ StopUnconnected \/ Restart \/ Crash
  BY <1>2 DEF Stop, StopUnconnected, Restart, Crash, NewProcess, Sources, Idle, storeVars
<1>3. CASE Steps
  BY <1>3, StepsSources
<1>4. Subscribed \/ Announced \/ SayGoodbye \/ Exit \/ Consume \/ MainResumes => Steps
  BY DEF Subscribed, Announced, SayGoodbye, Exit, Consume, MainResumes, Steps, Resume
<1>5. ASSUME NEW i \in 1..MaxOrders, Cook(i)
      PROVE  Steps
  BY <1>5 DEF Cook, Steps
<1> QED
  BY <1>1, <1>2, <1>3, <1>4, <1>5 DEF TStep, SessionSteps, Environment

\* A step publishes the new contents of slots, and the status when it changes.
Messages ==
    [kind : {"table"}, state : Snapshots]
    \cup [kind : {"status"}, status : {"ONLINE", "OFFLINE"}]

LEMMA FiniteImages ==
    ASSUME NEW S, IsFiniteSet(S), NEW f
    PROVE  IsFiniteSet({TableMessage(f[t]) : t \in S})
<1> DEFINE T == {TableMessage(f[t]) : t \in S}
           g == [t \in S |-> TableMessage(f[t])]
<1>1. g \in Surjection(S, T)
  BY DEF Surjection
<1> HIDE DEF T, g
<1>2. IsFiniteSet(T)
  BY <1>1, FS_Surjection
<1> QED
  BY <1>2 DEF T

LEMMA StatusMoves ==
    ASSUME TypeOK, TStep
    PROVE  status' # status => status' \in {"ONLINE", "OFFLINE"}
BY DEF TStep, SessionSteps, Environment, Consume, MainResumes, Cook, Connect,
       Subscribed, Announced, SessionEnds, SayGoodbye, Exit, WillFires, Stop,
       StopUnconnected, Restart, Crash, LinkBreaks, HandleMessage, Accept, Refuse,
       HandleReset, CancelThen, WipeAndRepublish, Shutdown, GoOffline, Cancelled, Closed,
       AnnounceOnline, PublishNext, BatchPublished, Greeted, Spawn, RefusalSent,
       CookStep, Serve, CookEnds, PublishStatus, vars, kitchenVars

LEMMA PublishedIs ==
    ASSUME TypeOK, TypeOK', TStep,
           \A t \in Tables : retained'[t] # retained[t] => retained'[t] # Nothing
    PROVE  /\ Published \in Seq(Messages')
           /\ \A k \in DOMAIN Published : Published[k].kind = "table" =>
                  \E t \in Tables : /\ retained'[t] # retained[t]
                                    /\ Published[k].state = retained'[t]
<1> DEFINE C == {u \in Tables : retained'[u] # retained[u]}
           S == {TableMessage(retained'[t]) : t \in C}
           a == SetToSeq(S)
           z == IF status' # status THEN <<StatusMessage(status')>> ELSE << >>
<1>1. IsFiniteSet(S)
  <2>1. IsFiniteSet(C)
    BY TablesAssumption, FS_Subset
  <2> QED
    BY <2>1, FiniteImages
<1>2. a \in Seq(S)
  BY <1>1, Enumerated
<1>3. S \subseteq Messages'
  BY DEF TypeOK, Messages, TableMessage
<1>4. a \in Seq(Messages')
  BY <1>2, <1>3, SeqMonotonic
<1>5. z \in Seq(Messages') /\ \A k \in DOMAIN z : z[k].kind = "status"
  <2>1. CASE status' = status
    BY <2>1, NoElements, EmptySeq
  <2>2. CASE status' # status
    BY <2>2, StatusMoves DEF Messages, StatusMessage
  <2> QED
    BY <2>1, <2>2
<1>6. Published = a \o z
  BY DEF Published
<1>7. \A k \in DOMAIN a : a[k] \in S
  BY <1>2, LenProperties, ElementOfSeq
<1>11. \A m \in S : \E t \in Tables : retained'[t] # retained[t] /\ m.state = retained'[t]
  BY DEF TableMessage
<1> HIDE DEF a, z, S
<1>8. /\ a \o z \in Seq(Messages')
      /\ Len(a \o z) = Len(a) + Len(z)
      /\ \A k \in 1..(Len(a) + Len(z)) :
             (a \o z)[k] = IF k <= Len(a) THEN a[k] ELSE z[k - Len(a)]
  BY <1>4, <1>5, ConcatProperties
<1>9. DOMAIN (a \o z) = 1..(Len(a) + Len(z)) /\ DOMAIN a = 1..Len(a) /\ DOMAIN z = 1..Len(z)
      /\ Len(a) \in Nat /\ Len(z) \in Nat
  BY <1>4, <1>5, <1>8, LenProperties
<1>10. ASSUME NEW k \in DOMAIN (a \o z), (a \o z)[k].kind = "table"
       PROVE  (a \o z)[k] \in S
  <2>1. CASE k <= Len(a)
    BY <1>7, <1>8, <1>9, <2>1
  <2>2. CASE ~ (k <= Len(a))
    <3>1. k - Len(a) \in DOMAIN z /\ (a \o z)[k] = z[k - Len(a)]
      BY <1>8, <1>9, <2>2
    <3> QED
      BY <1>5, <1>10, <3>1
  <2> QED
    BY <2>1, <2>2
<1> QED
  BY <1>6, <1>8, <1>10, <1>11

-----------------------------------------------------------------------------
(* The invariants *)

WindowsTyped ==
    /\ connection \in [Browsers -> {"connecting", "connected", "reconnecting", "offline"}]
    /\ subscribed \in [Browsers -> BOOLEAN]
    /\ kitchen \in [Browsers -> {"unknown", "ONLINE", "OFFLINE"}]
    /\ inbox \in [Browsers -> Seq(Messages)]
    /\ DOMAIN view = Browsers
    /\ \A b \in Browsers :
           /\ DOMAIN view[b] \subseteq Tables
           /\ \A t \in DOMAIN view[b] : view[b][t] \in Snapshots /\ view[b][t].table = t
           /\ inbox[b] # << >> => subscribed[b]
           /\ subscribed[b] => connection[b] = "connected"

\* The states at the broker and in a batch are of their tables, a batch's of this
\* generation.
StatesAreNamed ==
    \A t \in Tables :
        /\ retained[t] # Nothing => retained[t].table = t
        /\ main.at = "publishing" => main.batch[t].table = t /\ main.batch[t].epoch = epoch

IsAbout(t, m) == m.kind = "table" /\ m.state.table = t

\* Nothing that the broker could send now is of an earlier generation.
Follows(t, state) == retained[t] = Nothing \/ state.epoch <= retained[t].epoch

\* A window's view, what is on its way to it, and what is retained, come in the order
\* of their generations.
StreamInOrder(b, t) ==
    /\ \A j, k \in DOMAIN inbox[b] :
           j < k /\ IsAbout(t, inbox[b][j]) /\ IsAbout(t, inbox[b][k]) =>
               inbox[b][j].state.epoch <= inbox[b][k].state.epoch
    /\ \A k \in DOMAIN inbox[b] :
           IsAbout(t, inbox[b][k]) =>
               /\ Follows(t, inbox[b][k].state)
               /\ t \in DOMAIN view[b] => view[b][t].epoch <= inbox[b][k].state.epoch
    /\ t \in DOMAIN view[b] => Follows(t, view[b][t])

StreamsInOrder == \A b \in Browsers, t \in Tables : StreamInOrder(b, t)

RInv == TTypeOK /\ WindowsTyped /\ StatesAreNamed /\ VersionsNameStates /\ StreamsInOrder

-----------------------------------------------------------------------------
(* Facts about types *)

LEMMA SnapshotIs ==
    ASSUME NEW s \in Snapshots
    PROVE  s.epoch \in Nat /\ s.version \in Nat
BY BoundsAssumption DEF Snapshots

LEMMA NothingIsNoSnapshot ==
    ASSUME NEW s \in Snapshots
    PROVE  s # Nothing
<1>1. DOMAIN s = {"table", "epoch", "version", "orders"}
  BY DEF Snapshots
<1>2. DOMAIN Nothing = {"empty"}
  BY DEF Nothing
<1> QED
  BY <1>1, <1>2

LEMMA InboxIs ==
    ASSUME WindowsTyped, NEW b \in Browsers
    PROVE  /\ inbox[b] \in Seq(Messages)
           /\ Len(inbox[b]) \in Nat
           /\ DOMAIN inbox[b] = 1..Len(inbox[b])
           /\ \A k \in DOMAIN inbox[b] :
                  /\ inbox[b][k] \in Messages
                  /\ inbox[b][k].kind = "table" => inbox[b][k].state \in Snapshots
                  /\ inbox[b][k].kind = "status" =>
                         inbox[b][k].status \in {"ONLINE", "OFFLINE"}
<1>1. inbox[b] \in Seq(Messages)
  BY DEF WindowsTyped
<1>2. DOMAIN inbox[b] = 1..Len(inbox[b]) /\ Len(inbox[b]) \in Nat
  BY <1>1, LenProperties
<1>3. \A k \in DOMAIN inbox[b] : inbox[b][k] \in Messages
  BY <1>1, <1>2, ElementOfSeq
<1> QED
  BY <1>1, <1>2, <1>3 DEF Messages

\* What a table is after a step, compared with before.
StoreMoves(t) ==
    /\ epoch \in Nat /\ epoch' \in Nat /\ version[t] \in Nat /\ version'[t] \in Nat
    /\ \/ epoch' > epoch
       \/ epoch' = epoch /\ version'[t] > version[t]
       \/ Snapshot(t)' = Snapshot(t)

LEMMA StoreMovesForward ==
    ASSUME StoreTypeOK, StoreTypeOK', [StoreNext]_storeVars, NEW t \in Tables
    PROVE  StoreMoves(t)
<1>0. epoch \in Nat /\ epoch' \in Nat /\ version[t] \in Nat /\ version'[t] \in Nat
      /\ version \in [Tables -> Nat] /\ orders \in [Tables -> Histories]
  BY BoundsAssumption DEF StoreTypeOK
<1>1. ASSUME NEW u \in Tables, version' = [version EXCEPT ![u] = @ + 1], epoch' = epoch,
             NEW h, orders' = [orders EXCEPT ![u] = h]
      PROVE  StoreMoves(t)
  <2>1. CASE t = u
    BY <1>0, <1>1, <2>1 DEF StoreMoves
  <2>2. CASE t # u
    BY <1>0, <1>1, <2>2 DEF StoreMoves, Snapshot
  <2> QED
    BY <2>1, <2>2
<1>2. ASSUME NEW u \in Tables, NEW c \in ClientOrders, StoreAccept(u, c)
      PROVE  StoreMoves(t)
  BY <1>1, <1>2 DEF StoreAccept, AddOrder
<1>3. ASSUME NEW u \in Tables, NEW i \in 1..placed, NEW s, StoreFinish(u, i, s)
      PROVE  StoreMoves(t)
  BY <1>1, <1>3 DEF StoreFinish, FinishOrder
<1>4. CASE StoreReset
  BY <1>0, <1>4 DEF StoreReset, Reset, StoreMoves
<1>5. CASE UNCHANGED storeVars
  BY <1>0, <1>5 DEF storeVars, StoreMoves, Snapshot
<1> QED
  BY <1>2, <1>3, <1>4, <1>5 DEF StoreNext

-----------------------------------------------------------------------------
(* What circulates *)

\* Circulating as a condition, before and after a step.
LEMMA CirculatingIs ==
    ASSUME NEW t, NEW s
    PROVE  /\ s \in Circulating(t) <=>
                  \/ s = Snapshot(t)
                  \/ s = retained[t] /\ s # Nothing
                  \/ main.at = "publishing" /\ s = main.batch[t]
                  \/ \E b \in Browsers : \E k \in DOMAIN inbox[b] :
                         inbox[b][k].kind = "table" /\ s = inbox[b][k].state
                  \/ \E b \in Browsers : t \in DOMAIN view[b] /\ s = view[b][t]
           /\ s \in Circulating(t)' <=>
                  \/ s = Snapshot(t)'
                  \/ s = retained'[t] /\ s # Nothing
                  \/ main'.at = "publishing" /\ s = main'.batch[t]
                  \/ \E b \in Browsers : \E k \in DOMAIN inbox'[b] :
                         inbox'[b][k].kind = "table" /\ s = inbox'[b][k].state
                  \/ \E b \in Browsers : t \in DOMAIN view'[b] /\ s = view'[b][t]
BY DEF Circulating, Snapshot

LEMMA CirculatingTyped ==
    ASSUME TypeOK, WindowsTyped, NEW t \in Tables, NEW s \in Circulating(t)
    PROVE  s \in Snapshots
<1>1. Snapshot(t) \in Snapshots
  BY DEF TypeOK, StoreTypeOK, Snapshot, Snapshots
<1>2. retained[t] # Nothing => retained[t] \in Snapshots
  BY DEF TypeOK
<1>3. main.at = "publishing" => main.batch[t] \in Snapshots
  BY DEF TypeOK, MainStates
<1>4. \A b \in Browsers : \A k \in DOMAIN inbox[b] :
          inbox[b][k].kind = "table" => inbox[b][k].state \in Snapshots
  BY InboxIs
<1>5. \A b \in Browsers : t \in DOMAIN view[b] => view[b][t] \in Snapshots
  BY DEF WindowsTyped
<1> QED
  BY <1>1, <1>2, <1>3, <1>4, <1>5, CirculatingIs

\* Nothing about a table circulates but what did before, and what the table has become.
NothingInvented ==
    \A t \in Tables : \A s \in Circulating(t)' :
        s.table = t => s \in Circulating(t) \/ s = Snapshot(t)'

\* Then versions go on naming states.
LEMMA VersionsGoOnNaming ==
    ASSUME TypeOK, WindowsTyped, VersionsNameStates, TypeOK',
           \A t \in Tables : StoreMoves(t), NothingInvented
    PROVE  VersionsNameStates'
<1> SUFFICES ASSUME NEW t \in Tables
             PROVE  LET about == {s \in Circulating(t)' : s.table = t}
                    IN  \A r \in about :
                            /\ r.epoch < epoch' \/ (r.epoch = epoch' /\ r.version <= version'[t])
                            /\ \A s \in about :
                                   r.epoch = s.epoch /\ r.version = s.version => r = s
  BY DEF VersionsNameStates
<1> DEFINE Old == {s \in Circulating(t) : s.table = t}
           IsPast(r) == r.epoch < epoch \/ (r.epoch = epoch /\ r.version <= version[t])
<1>1. \A r \in Old : r.epoch \in Nat /\ r.version \in Nat
  BY CirculatingTyped, SnapshotIs
<1>2. \A r \in Old : IsPast(r) /\ \A s \in Old :
          r.epoch = s.epoch /\ r.version = s.version => r = s
  BY DEF VersionsNameStates
<1>3. Snapshot(t) \in Old
  BY CirculatingIs DEF Snapshot
<1>4. StoreMoves(t)
  OBVIOUS
<1>5. Snapshot(t)'.epoch = epoch' /\ Snapshot(t)'.version = version'[t]
      /\ Snapshot(t).epoch = epoch /\ Snapshot(t).version = version[t]
  BY DEF Snapshot
<1>6. \A r \in Old : r.epoch < epoch' \/ (r.epoch = epoch' /\ r.version <= version'[t])
  BY <1>1, <1>2, <1>4, <1>5 DEF StoreMoves
<1>7. \A r \in Old : r.epoch = epoch' /\ r.version = version'[t] => r = Snapshot(t)'
  <2>1. CASE Snapshot(t)' = Snapshot(t)
    BY <1>2, <1>3, <1>5, <2>1
  <2>2. CASE Snapshot(t)' # Snapshot(t)
    BY <1>1, <1>2, <1>4, <1>5, <2>2 DEF StoreMoves
  <2> QED
    BY <2>1, <2>2
<1>8. \A r \in Circulating(t)' : r.table = t => r \in Old \/ r = Snapshot(t)'
  BY DEF NothingInvented
<1>9. version'[t] \in Nat /\ epoch' \in Nat
  BY <1>4 DEF StoreMoves
<1> HIDE DEF Old, IsPast
<1> QED
  BY <1>2, <1>5, <1>6, <1>7, <1>8, <1>9

-----------------------------------------------------------------------------
(* Steps of the kitchen *)

\* Every message of an inbox was there, or has just been published.
Forwarded(b) ==
    /\ inbox'[b] \in Seq(Messages')
    /\ Len(inbox[b]) <= Len(inbox'[b])
    /\ DOMAIN inbox'[b] = 1..Len(inbox'[b]) /\ Len(inbox'[b]) \in Nat
    /\ \A k \in DOMAIN inbox'[b] :
           \/ k \in DOMAIN inbox[b] /\ inbox'[b][k] = inbox[b][k]
           \/ /\ k > Len(inbox[b])
              /\ inbox'[b][k].kind = "table" =>
                     \E t \in Tables : /\ retained'[t] # retained[t]
                                       /\ inbox'[b][k].state = retained'[t]

LEMMA ForwardedIs ==
    ASSUME WindowsTyped, NEW b \in Browsers, Messages \subseteq Messages',
           Forward(Published), Published \in Seq(Messages'),
           \A k \in DOMAIN Published : Published[k].kind = "table" =>
               \E t \in Tables : /\ retained'[t] # retained[t]
                                 /\ Published[k].state = retained'[t]
    PROVE  Forwarded(b)
<1>1. /\ inbox[b] \in Seq(Messages) /\ Len(inbox[b]) \in Nat
      /\ DOMAIN inbox[b] = 1..Len(inbox[b])
  BY InboxIs
<1>2. inbox[b] \in Seq(Messages')
  BY <1>1, SeqMonotonic
<1>3. inbox'[b] = IF subscribed[b] THEN inbox[b] \o Published ELSE inbox[b]
  BY DEF Forward
<1>4. CASE inbox'[b] = inbox[b]
  BY <1>1, <1>2, <1>4 DEF Forwarded
<1>5. CASE inbox'[b] = inbox[b] \o Published
  <2>1. /\ inbox'[b] \in Seq(Messages')
        /\ Len(inbox'[b]) = Len(inbox[b]) + Len(Published)
        /\ \A k \in 1..(Len(inbox[b]) + Len(Published)) :
               inbox'[b][k] = IF k <= Len(inbox[b]) THEN inbox[b][k]
                              ELSE Published[k - Len(inbox[b])]
    BY <1>2, <1>5, ConcatProperties
  <2>2. /\ DOMAIN inbox'[b] = 1..Len(inbox'[b]) /\ Len(inbox'[b]) \in Nat
        /\ DOMAIN Published = 1..Len(Published) /\ Len(Published) \in Nat
    BY <2>1, LenProperties
  <2>3. ASSUME NEW k \in DOMAIN inbox'[b], ~ (k \in DOMAIN inbox[b])
        PROVE  /\ k > Len(inbox[b])
               /\ k - Len(inbox[b]) \in DOMAIN Published
               /\ inbox'[b][k] = Published[k - Len(inbox[b])]
    <3>1. k \in 1..(Len(inbox[b]) + Len(Published))
      BY <2>1, <2>2
    <3>2. k \notin 1..Len(inbox[b])
      BY <1>1, <2>3
    <3>3. k > Len(inbox[b]) /\ k - Len(inbox[b]) \in 1..Len(Published)
      BY <1>1, <2>2, <3>1, <3>2
    <3>4. inbox'[b][k] = Published[k - Len(inbox[b])]
      BY <1>1, <2>1, <3>1, <3>3
    <3> QED
      BY <2>2, <3>3, <3>4
  <2>4. ASSUME NEW k \in DOMAIN inbox[b]
        PROVE  inbox'[b][k] = inbox[b][k]
    <3>1. k \in 1..(Len(inbox[b]) + Len(Published)) /\ k <= Len(inbox[b])
      BY <1>1, <2>2
    <3> QED
      BY <2>1, <3>1
  <2>5. ASSUME NEW k \in DOMAIN inbox'[b]
        PROVE  \/ k \in DOMAIN inbox[b] /\ inbox'[b][k] = inbox[b][k]
               \/ /\ k > Len(inbox[b])
                  /\ inbox'[b][k].kind = "table" =>
                         \E t \in Tables : /\ retained'[t] # retained[t]
                                           /\ inbox'[b][k].state = retained'[t]
    BY <2>3, <2>4
  <2>6. Len(inbox[b]) <= Len(inbox'[b])
    BY <1>1, <2>1, <2>2
  <2> QED
    BY <2>1, <2>2, <2>5, <2>6 DEF Forwarded
<1> QED
  BY <1>3, <1>4, <1>5

\* The store moves; whatever is new at the broker and in the inboxes is of this
\* generation.
LEMMA KitchenStepKeepsNames ==
    ASSUME TTypeOK, StatesAreNamed, TStep
    PROVE  /\ TypeOK' /\ StatesAreNamed'
           /\ \A t \in Tables : StoreMoves(t) /\ Sources(t)
           /\ \A t \in Tables : retained'[t] # retained[t] =>
                  /\ retained'[t] \in Snapshots' /\ retained'[t] # Nothing
                  /\ retained'[t].table = t /\ retained'[t].epoch = epoch'
           /\ Messages \subseteq Messages'
           /\ Snapshots \subseteq Snapshots'
<1>1. TypeOK /\ TypeOK' /\ StoreTypeOK /\ StoreTypeOK' /\ [StoreNext]_storeVars
  BY KitchenTypesHold, TransportUsesStore DEF TTypeOK, TNext, TypeOK
<1>2. \A t \in Tables : StoreMoves(t) /\ Sources(t)
  BY <1>1, StoreMovesForward, TransportSources
<1>3. \A t \in Tables : Snapshot(t)'.table = t /\ Snapshot(t)'.epoch = epoch'
                        /\ Snapshot(t)' \in Snapshots'
  BY <1>1 DEF Snapshot, StoreTypeOK, Snapshots
<1>4. main.at = "publishing" => main.batch \in [Tables -> Snapshots]
  BY <1>1 DEF TypeOK, MainStates
<1>5. Snapshots \subseteq Snapshots'
  <2>1. placed \in Nat /\ placed' \in Nat
    BY <1>1, BoundsAssumption DEF StoreTypeOK
  <2>2. placed <= placed'
    BY <1>1, <2>1 DEF StoreNext, StoreAccept, AddOrder, StoreFinish, StoreReset, storeVars
  <2> QED
    BY <2>1, <2>2, TypesGrow
<1>6. \A s \in Snapshots' : s # Nothing
  <2>1. \A s \in Snapshots' : DOMAIN s = {"table", "epoch", "version", "orders"}
    BY DEF Snapshots
  <2>2. DOMAIN Nothing = {"empty"}
    BY DEF Nothing
  <2> QED
    BY <2>1, <2>2
<1>7. ASSUME NEW t \in Tables, retained'[t] # retained[t]
      PROVE  /\ retained'[t] \in Snapshots' /\ retained'[t] # Nothing
             /\ retained'[t].table = t /\ retained'[t].epoch = epoch'
  BY <1>2, <1>3, <1>4, <1>5, <1>6, <1>7 DEF Sources, StatesAreNamed
<1>8. StatesAreNamed'
  BY <1>2, <1>3, <1>7 DEF Sources, StatesAreNamed
<1>9. Messages \subseteq Messages'
  BY <1>5 DEF Messages
<1> QED
  BY <1>1, <1>2, <1>5, <1>7, <1>8, <1>9

LEMMA KitchenStepKeepsInv ==
    ASSUME RInv, KitchenStep
    PROVE  RInv' /\ NothingInvented /\ UNCHANGED view
<1>1. TStep /\ Forward(Published) /\ UNCHANGED <<connection, subscribed, view, kitchen>>
  BY DEF KitchenStep
<1>2. /\ TypeOK' /\ StatesAreNamed'
      /\ \A t \in Tables : StoreMoves(t) /\ Sources(t)
      /\ \A t \in Tables : retained'[t] # retained[t] =>
             /\ retained'[t] \in Snapshots' /\ retained'[t] # Nothing
             /\ retained'[t].table = t /\ retained'[t].epoch = epoch'
      /\ Messages \subseteq Messages'
      /\ Snapshots \subseteq Snapshots'
  BY <1>1, KitchenStepKeepsNames DEF RInv
<1>3. TTypeOK' /\ TypeOK
  BY <1>1, TransportTypesHold DEF RInv, TNext, TTypeOK
<1>4. \A b \in Browsers : Forwarded(b)
  <2>1. /\ Published \in Seq(Messages')
        /\ \A k \in DOMAIN Published : Published[k].kind = "table" =>
               \E t \in Tables : /\ retained'[t] # retained[t]
                                 /\ Published[k].state = retained'[t]
    BY <1>1, <1>2, <1>3, PublishedIs
  <2> QED
    BY <1>1, <1>2, <2>1, ForwardedIs DEF RInv
<1>5. WindowsTyped'
  <2>1. inbox' \in [Browsers -> Seq(Messages')]
    BY <1>1, <1>4 DEF Forward, Forwarded
  <2>2. \A b \in Browsers : inbox'[b] # << >> => subscribed[b]
    BY <1>1 DEF RInv, WindowsTyped, Forward
  <2> QED
    BY <1>1, <1>2, <2>1, <2>2 DEF RInv, WindowsTyped
<1>6. NothingInvented
  <2>1. ASSUME NEW t \in Tables, NEW s \in Circulating(t)', s.table = t
        PROVE  s \in Circulating(t) \/ s = Snapshot(t)'
    <3>1. CASE s = retained'[t] /\ s # Nothing
      BY <1>2, <3>1, CirculatingIs DEF Sources
    <3>2. CASE main'.at = "publishing" /\ s = main'.batch[t]
      BY <1>2, <3>2, CirculatingIs DEF Sources
    <3>3. ASSUME NEW b \in Browsers, NEW k \in DOMAIN inbox'[b],
                 inbox'[b][k].kind = "table", s = inbox'[b][k].state
          PROVE  s \in Circulating(t) \/ s = Snapshot(t)'
      <4>1. CASE k \in DOMAIN inbox[b] /\ inbox'[b][k] = inbox[b][k]
        BY <3>3, <4>1, CirculatingIs
      <4>2. ASSUME NEW u \in Tables, retained'[u] # retained[u], s = retained'[u]
            PROVE  s \in Circulating(t) \/ s = Snapshot(t)'
        <5>1. u = t /\ s # Nothing
          BY <1>2, <2>1, <4>2
        <5> QED
          BY <1>2, <4>2, <5>1, CirculatingIs DEF Sources
      <4> QED
        BY <1>4, <3>3, <4>1, <4>2 DEF Forwarded
    <3>4. \A b \in Browsers : t \in DOMAIN view'[b] /\ s = view'[b][t] => s \in Circulating(t)
      BY <1>1, CirculatingIs
    <3> QED
      BY <2>1, <3>1, <3>2, <3>3, <3>4, CirculatingIs
  <2> QED
    BY <2>1 DEF NothingInvented
<1>7. VersionsNameStates'
  BY <1>2, <1>3, <1>5, <1>6, VersionsGoOnNaming DEF RInv
<1>8. StreamsInOrder'
  <2> SUFFICES ASSUME NEW b \in Browsers, NEW t \in Tables
               PROVE  StreamInOrder(b, t)'
    BY DEF StreamsInOrder
  <2>1. /\ DOMAIN inbox[b] = 1..Len(inbox[b]) /\ Len(inbox[b]) \in Nat
        /\ \A k \in DOMAIN inbox[b] : IsAbout(t, inbox[b][k]) =>
               /\ inbox[b][k].state \in Circulating(t)
               /\ inbox[b][k].state.table = t
    BY InboxIs, CirculatingIs DEF RInv, IsAbout
  <2>2. t \in DOMAIN view[b] => view[b][t] \in Circulating(t) /\ view[b][t].table = t
    BY CirculatingIs DEF RInv, WindowsTyped
  <2>3. \A s \in Circulating(t) : s.table = t => s.epoch <= epoch' /\ s.epoch \in Nat
    <3>1. \A s \in Circulating(t) : s.epoch \in Nat
      BY <1>3, CirculatingTyped, SnapshotIs DEF RInv
    <3>2. epoch \in Nat /\ epoch' \in Nat /\ epoch <= epoch'
      <4>1. Snapshot(t)' = Snapshot(t) => epoch' = epoch
        BY DEF Snapshot
      <4> QED
        BY <1>2, <4>1 DEF StoreMoves
    <3>3. \A s \in Circulating(t) : s.table = t => s.epoch < epoch \/ s.epoch = epoch
      BY DEF RInv, VersionsNameStates
    <3> QED
      BY <3>1, <3>2, <3>3
  <2>4. \A s \in Circulating(t) : s.table = t /\ Follows(t, s) =>
            retained'[t] = Nothing \/ s.epoch <= retained'[t].epoch
    BY <1>2, <2>3 DEF Follows
  <2>5. ASSUME NEW k \in DOMAIN inbox'[b], IsAbout(t, inbox'[b][k])
        PROVE  \/ k \in DOMAIN inbox[b] /\ inbox'[b][k] = inbox[b][k]
               \/ /\ k > Len(inbox[b])
                  /\ inbox'[b][k].state = retained'[t]
                  /\ inbox'[b][k].state.epoch = epoch'
    BY <1>2, <1>4, <2>5 DEF Forwarded, IsAbout
  <2>6. epoch' \in Nat
    BY <1>2 DEF StoreMoves
  <2>7. \A k \in DOMAIN inbox'[b] :
            IsAbout(t, inbox'[b][k]) =>
                /\ retained'[t] = Nothing \/ inbox'[b][k].state.epoch <= retained'[t].epoch
                /\ t \in DOMAIN view[b] => view[b][t].epoch <= inbox'[b][k].state.epoch
    BY <2>1, <2>2, <2>3, <2>4, <2>5, <2>6 DEF RInv, StreamsInOrder, StreamInOrder
  <2>8. ASSUME NEW j \in DOMAIN inbox'[b], NEW k \in DOMAIN inbox'[b], j < k,
               IsAbout(t, inbox'[b][j]), IsAbout(t, inbox'[b][k])
        PROVE  inbox'[b][j].state.epoch <= inbox'[b][k].state.epoch
    <3>1. CASE k \in DOMAIN inbox[b] /\ inbox'[b][k] = inbox[b][k]
      <4>1. j \in DOMAIN inbox[b] /\ inbox'[b][j] = inbox[b][j]
        <5>1. j \in Nat /\ k \in Nat
          BY <1>4 DEF Forwarded
        <5>2. ~ (j > Len(inbox[b]))
          BY <2>1, <2>8, <3>1, <5>1
        <5> QED
          BY <2>5, <2>8, <5>2
      <4> QED
        BY <2>8, <3>1, <4>1 DEF RInv, StreamsInOrder, StreamInOrder
    <3>2. CASE inbox'[b][k].state.epoch = epoch'
      BY <2>1, <2>3, <2>5, <2>6, <2>8, <3>2
    <3> QED
      BY <2>5, <2>8, <3>1, <3>2
  <2>9. t \in DOMAIN view[b] =>
            retained'[t] = Nothing \/ view[b][t].epoch <= retained'[t].epoch
    BY <2>2, <2>4 DEF RInv, StreamsInOrder, StreamInOrder
  <2> QED
    BY <1>1, <2>7, <2>8, <2>9 DEF StreamInOrder, Follows, IsAbout
<1> QED
  BY <1>1, <1>2, <1>3, <1>5, <1>6, <1>7, <1>8 DEF RInv

-----------------------------------------------------------------------------
(* Steps of the windows and of the broker: the store stands still *)

Still ==
    /\ UNCHANGED <<storeVars, main>>
    /\ retained' \in {retained, [t \in Tables |-> Nothing]}
    /\ TTypeOK'

LEMMA StillKeepsNames ==
    ASSUME RInv, Still
    PROVE  /\ StatesAreNamed'
           /\ Snapshots' = Snapshots /\ Messages' = Messages
           /\ \A t \in Tables : StoreMoves(t) /\ Snapshot(t)' = Snapshot(t)
           /\ \A t \in Tables : \A s : Follows(t, s) => Follows(t, s)'
<1>1. UNCHANGED <<epoch, version, orders, seen, placed, main>>
  BY DEF Still, storeVars
<1>2. Snapshots' = Snapshots
  BY <1>1 DEF Snapshots, Histories
<1>3. Messages' = Messages
  BY <1>2 DEF Messages
<1>4. \A t \in Tables : Snapshot(t)' = Snapshot(t)
  BY <1>1 DEF Snapshot
<1>5. \A t \in Tables : epoch \in Nat /\ version[t] \in Nat
  BY BoundsAssumption DEF RInv, TTypeOK, TypeOK, StoreTypeOK
<1>6. \A t \in Tables : StoreMoves(t)
  BY <1>1, <1>4, <1>5 DEF StoreMoves
<1>7. StatesAreNamed'
  BY <1>1 DEF RInv, StatesAreNamed, Still
<1>8. ASSUME NEW t \in Tables, NEW s, Follows(t, s)
      PROVE  Follows(t, s)'
  BY <1>8 DEF Follows, Still
<1> QED
  BY <1>2, <1>3, <1>4, <1>6, <1>7, <1>8

\* It is enough to look at what windows show and receive.
LEMMA StillKeepsVersions ==
    ASSUME RInv, Still,
           \A b \in Browsers : \A k \in DOMAIN inbox'[b] : inbox'[b][k].kind = "table" =>
               inbox'[b][k].state \in Circulating(inbox'[b][k].state.table),
           \A b \in Browsers : \A t \in DOMAIN view'[b] :
               t \in Tables /\ view'[b][t] \in Circulating(t)
    PROVE  VersionsNameStates' /\ NothingInvented
<1>1. /\ \A t \in Tables : StoreMoves(t) /\ Snapshot(t)' = Snapshot(t)
      /\ TypeOK /\ TypeOK' /\ main' = main
  BY StillKeepsNames DEF Still, RInv, TTypeOK
<1>2. ASSUME NEW t \in Tables, NEW s \in Circulating(t)', s.table = t
      PROVE  s \in Circulating(t)
  <2>1. s = retained'[t] /\ s # Nothing => s = retained[t]
    BY DEF Still
  <2> QED
    BY <1>1, <1>2, <2>1, CirculatingIs
<1>3. NothingInvented
  BY <1>2 DEF NothingInvented
<1> QED
  BY <1>1, <1>3, VersionsGoOnNaming DEF RInv

\* Connections are lost, or change, and nothing else.
LEMMA LosingKeepsInv ==
    ASSUME RInv, Still, UNCHANGED view, WindowsTyped',
           \A b \in Browsers : inbox'[b] \in {inbox[b], << >>}
    PROVE  RInv' /\ NothingInvented
<1>1. \A b \in Browsers : \A k \in DOMAIN inbox'[b] :
          k \in DOMAIN inbox[b] /\ inbox'[b] = inbox[b]
  BY NoElements
<1>2. \A b \in Browsers : \A k \in DOMAIN inbox[b] : inbox[b][k].kind = "table" =>
          inbox[b][k].state \in Circulating(inbox[b][k].state.table)
  BY CirculatingIs
<1>3. \A b \in Browsers : \A t \in DOMAIN view[b] : t \in Tables /\ view[b][t] \in Circulating(t)
  BY CirculatingIs DEF RInv, WindowsTyped
<1>4. VersionsNameStates' /\ NothingInvented
  BY <1>1, <1>2, <1>3, StillKeepsVersions
<1>5. StreamsInOrder'
  <2> SUFFICES ASSUME NEW b \in Browsers, NEW t \in Tables
               PROVE  StreamInOrder(b, t)'
    BY DEF StreamsInOrder
  <2>1. StreamInOrder(b, t)
    BY DEF RInv, StreamsInOrder
  <2>2. \A s : Follows(t, s) => Follows(t, s)'
    BY StillKeepsNames
  <2> QED
    BY <1>1, <2>1, <2>2 DEF StreamInOrder, IsAbout
<1> QED
  BY <1>4, <1>5, StillKeepsNames DEF RInv, Still

\* A message is handled.
LEMMA OnMessageKeepsInv ==
    ASSUME RInv, Still, NEW b \in Browsers, OnMessage(b), UNCHANGED retained
    PROVE  /\ RInv' /\ NothingInvented
           /\ \A c \in Browsers : \A t \in DOMAIN view[c] :
                  t \in DOMAIN view'[c]
                  /\ (view'[c][t] = view[c][t] \/ Newer(view'[c][t], view[c][t]))
<1> DEFINE m == Head(inbox[b])
           n == m.state.table
<1>1. /\ inbox[b] \in Seq(Messages) /\ Len(inbox[b]) \in Nat
      /\ DOMAIN inbox[b] = 1..Len(inbox[b]) /\ inbox[b] # << >>
  BY InboxIs DEF RInv, OnMessage
<1>2. 1 \in DOMAIN inbox[b] /\ m = inbox[b][1]
  BY <1>1
<1>3. /\ inbox'[b] \in Seq(Messages) /\ Len(inbox'[b]) = Len(inbox[b]) - 1
      /\ \A k \in 1..Len(inbox'[b]) : inbox'[b][k] = inbox[b][k + 1]
  BY <1>1, HeadTailProperties DEF OnMessage, RInv, WindowsTyped
<1>4. DOMAIN inbox'[b] = 1..Len(inbox'[b])
  BY <1>3, LenProperties
<1>5. \A k \in DOMAIN inbox'[b] :
          k + 1 \in DOMAIN inbox[b] /\ k + 1 > 1 /\ inbox'[b][k] = inbox[b][k + 1] /\ k \in Nat
  BY <1>1, <1>3, <1>4
<1>6. \A c \in Browsers \ {b} : inbox'[c] = inbox[c] /\ view'[c] = view[c]
  BY DEF OnMessage, RInv, WindowsTyped
<1>7. \/ view'[b] = view[b]
      \/ /\ IsAbout(n, m)
         /\ view'[b] = WithState(view[b], m.state)
         /\ n \in DOMAIN view[b] =>
                \/ view[b][n].epoch # m.state.epoch
                \/ ~ (m.state.version <= view[b][n].version)
  <2>1. b \in DOMAIN view
    BY DEF RInv, WindowsTyped
  <2>2. CASE UNCHANGED view
    BY <2>2
  <2>3. CASE m.kind = "table" /\ view' = [view EXCEPT ![b] = ApplyTableState(@, m.state)]
    BY <2>1, <2>3 DEF ApplyTableState, IsAbout
  <2> QED
    BY <2>2, <2>3 DEF OnMessage
<1>8. m.kind = "table" => m.state \in Snapshots /\ n \in Tables
  <2>1. m.kind = "table" => m.state \in Snapshots
    BY <1>2, InboxIs DEF RInv
  <2> QED
    BY <2>1 DEF Snapshots
<1>9. m.kind = "status" => m.status \in {"ONLINE", "OFFLINE"}
  BY <1>2, InboxIs DEF RInv
<1> HIDE DEF m
<1>10. \A t \in DOMAIN view'[b] :
           \/ t \in DOMAIN view[b] /\ view'[b][t] = view[b][t]
           \/ t = n /\ IsAbout(n, m) /\ view'[b][t] = m.state
  BY <1>7 DEF WithState
<1>11. WindowsTyped'
  <2>1. inbox' \in [Browsers -> Seq(Messages')]
    BY <1>3, <1>6, StillKeepsNames DEF RInv, WindowsTyped, OnMessage
  <2>2. DOMAIN view' = Browsers
    BY DEF OnMessage, RInv, WindowsTyped
  <2>3. kitchen' \in [Browsers -> {"unknown", "ONLINE", "OFFLINE"}]
    BY <1>9 DEF OnMessage, RInv, WindowsTyped, m
  <2>4. ASSUME NEW c \in Browsers
        PROVE  /\ DOMAIN view'[c] \subseteq Tables
               /\ \A t \in DOMAIN view'[c] : view'[c][t] \in Snapshots /\ view'[c][t].table = t
               /\ inbox'[c] # << >> => subscribed[c]
    <3>1. CASE c = b
      BY <1>1, <1>8, <1>10, <3>1 DEF RInv, WindowsTyped, IsAbout
    <3>2. CASE c # b
      BY <1>6, <3>2 DEF RInv, WindowsTyped
    <3> QED
      BY <3>1, <3>2
  <2> QED
    BY <2>1, <2>2, <2>3, <2>4, StillKeepsNames DEF RInv, WindowsTyped, OnMessage
<1>12. VersionsNameStates' /\ NothingInvented
  <2>1. \A c \in Browsers : \A k \in DOMAIN inbox[c] : inbox[c][k].kind = "table" =>
            inbox[c][k].state \in Circulating(inbox[c][k].state.table)
    BY CirculatingIs
  <2>2. \A c \in Browsers : \A k \in DOMAIN inbox'[c] : inbox'[c][k].kind = "table" =>
            inbox'[c][k].state \in Circulating(inbox'[c][k].state.table)
    BY <1>5, <1>6, <2>1
  <2>3. ASSUME NEW c \in Browsers, NEW t \in DOMAIN view'[c]
        PROVE  t \in Tables /\ view'[c][t] \in Circulating(t)
    <3>1. \A u \in DOMAIN view[c] : u \in Tables /\ view[c][u] \in Circulating(u)
      BY CirculatingIs DEF RInv, WindowsTyped
    <3>2. IsAbout(n, m) => n \in Tables /\ m.state \in Circulating(n)
      BY <1>2, <1>8, <2>1 DEF IsAbout
    <3> QED
      BY <1>6, <1>10, <2>3, <3>1, <3>2
  <2> QED
    BY <2>2, <2>3, StillKeepsVersions
<1>13. \A c \in Browsers, t \in Tables : StreamInOrder(c, t)
  BY DEF RInv, StreamsInOrder
<1>14. \A t \in Tables : \A s : Follows(t, s) => Follows(t, s)'
  BY StillKeepsNames
<1>15. StreamsInOrder'
  <2> SUFFICES ASSUME NEW c \in Browsers, NEW t \in Tables
               PROVE  StreamInOrder(c, t)'
    BY DEF StreamsInOrder
  <2>1. CASE c # b
    BY <1>6, <1>13, <1>14, <2>1 DEF StreamInOrder, IsAbout
  <2>2. CASE c = b
    <3>1. ASSUME NEW j \in DOMAIN inbox'[b], NEW k \in DOMAIN inbox'[b], j < k,
                 IsAbout(t, inbox'[b][j]), IsAbout(t, inbox'[b][k])
          PROVE  inbox'[b][j].state.epoch <= inbox'[b][k].state.epoch
      <4>1. j + 1 < k + 1
        BY <1>5, <3>1
      <4> QED
        BY <1>5, <1>13, <3>1, <4>1 DEF StreamInOrder
    <3>2. \A k \in DOMAIN inbox'[b] : IsAbout(t, inbox'[b][k]) =>
              /\ Follows(t, inbox'[b][k].state)
              /\ t \in DOMAIN view[b] => view[b][t].epoch <= inbox'[b][k].state.epoch
              /\ IsAbout(t, m) => m.state.epoch <= inbox'[b][k].state.epoch
      BY <1>2, <1>5, <1>13 DEF StreamInOrder
    <3>3. IsAbout(t, m) => Follows(t, m.state)
      BY <1>2, <1>13 DEF StreamInOrder
    <3>4. t \in DOMAIN view[b] => Follows(t, view[b][t])
      BY <1>13 DEF StreamInOrder
    <3> QED
      BY <1>10, <1>14, <2>2, <3>1, <3>2, <3>3, <3>4 DEF StreamInOrder, IsAbout
  <2> QED
    BY <2>1, <2>2
<1>16. ASSUME NEW c \in Browsers, NEW t \in DOMAIN view[c]
       PROVE  t \in DOMAIN view'[c]
              /\ (view'[c][t] = view[c][t] \/ Newer(view'[c][t], view[c][t]))
  <2>1. CASE c # b \/ view'[c] = view[c]
    BY <1>6, <1>16, <2>1
  <2>2. CASE c = b /\ view'[b] # view[b]
    <3>1. IsAbout(n, m) /\ view'[b] = WithState(view[b], m.state)
      BY <1>7, <2>2
    <3>2. t \in DOMAIN view'[b] /\ (t # n => view'[b][t] = view[b][t])
          /\ (t = n => view'[b][t] = m.state)
      BY <1>16, <2>2, <3>1 DEF WithState
    <3>3. ASSUME t = n
          PROVE  Newer(m.state, view[b][t])
      <4>1. m.state \in Snapshots /\ view[b][t] \in Snapshots
        BY <1>8, <1>16, <2>2, <3>1 DEF IsAbout, RInv, WindowsTyped
      <4>2. view[b][t].epoch <= m.state.epoch
        BY <1>2, <1>8, <1>13, <1>16, <2>2, <3>1, <3>3 DEF StreamInOrder, IsAbout
      <4>3. view[b][t].epoch # m.state.epoch \/ ~ (m.state.version <= view[b][t].version)
        BY <1>7, <1>16, <2>2, <3>3
      <4> QED
        BY <4>1, <4>2, <4>3, SnapshotIs DEF Newer
    <3> QED
      BY <2>2, <3>2, <3>3
  <2> QED
    BY <2>1, <2>2
<1> QED
  BY <1>11, <1>12, <1>15, <1>16, StillKeepsNames DEF RInv, Still

\* A window that subscribes is sent retained states, and the status.
LEMMA SubscriptionSends ==
    ASSUME TypeOK, WindowsTyped, NEW b \in Browsers,
           Subscribes(b, {retained[t] : t \in Tables} \ {Nothing}, {status} \ {"none"})
    PROVE  /\ inbox'[b] \in Seq(Messages)
           /\ DOMAIN inbox'[b] \subseteq Nat
           /\ \A k \in DOMAIN inbox'[b] : inbox'[b][k].kind = "table" =>
                  \E t \in Tables : retained[t] # Nothing /\ inbox'[b][k].state = retained[t]
           /\ \A c \in Browsers \ {b} : inbox'[c] = inbox[c]
<1> DEFINE States == {retained[t] : t \in Tables} \ {Nothing}
           Statuses == {status} \ {"none"}
           A == {TableMessage(s) : s \in States}
           Z == {StatusMessage(s) : s \in Statuses}
<1>1. PICK first \in SetToSeqs(A), last \in SetToSeqs(Z) :
          inbox' = [inbox EXCEPT ![b] = first \o last]
  BY DEF Subscribes
<1>2. first \in Seq(A)
  <2> DEFINE Told == {t \in Tables : retained[t] # Nothing}
  <2>1. IsFiniteSet(Told)
    BY TablesAssumption, FS_Subset
  <2>2. IsFiniteSet({TableMessage(retained[t]) : t \in Told})
    BY <2>1, FiniteImages
  <2>3. A = {TableMessage(retained[t]) : t \in Told}
    OBVIOUS
  <2> QED
    BY <2>2, <2>3, Enumerations
<1>3. last \in Seq(Z)
  <2>1. Z \subseteq {StatusMessage(status)}
    OBVIOUS
  <2>2. IsFiniteSet({StatusMessage(status)})
    BY FS_Singleton
  <2>3. IsFiniteSet(Z)
    BY <2>1, <2>2, FS_Subset
  <2> QED
    BY <2>3, Enumerations
<1>4. A \subseteq Messages /\ Z \subseteq Messages
  BY DEF TypeOK, Messages, TableMessage, StatusMessage
<1>5. \A m \in A \cup Z : m.kind = "table" =>
          \E t \in Tables : retained[t] # Nothing /\ m.state = retained[t]
  BY DEF TableMessage, StatusMessage
<1> HIDE DEF A, Z
<1>6. first \in Seq(A \cup Z) /\ last \in Seq(A \cup Z)
  BY <1>2, <1>3, SeqMonotonic
<1>7. first \o last \in Seq(A \cup Z)
  BY <1>6, ConcatProperties
<1>8. inbox'[b] = first \o last /\ \A c \in Browsers \ {b} : inbox'[c] = inbox[c]
  BY <1>1 DEF WindowsTyped
<1>9. inbox'[b] \in Seq(Messages)
  BY <1>4, <1>7, <1>8, SeqMonotonic
<1>10. DOMAIN inbox'[b] = 1..Len(inbox'[b])
  BY <1>9, LenProperties
<1>11. \A k \in DOMAIN inbox'[b] : inbox'[b][k] \in A \cup Z
  BY <1>7, <1>8, <1>10, ElementOfSeq
<1> QED
  BY <1>5, <1>8, <1>9, <1>10, <1>11

\* Of a table a window that subscribes is sent nothing or what is retained, and that
\* is not older than what it shows.
LEMMA SubscribingKeepsInv ==
    ASSUME RInv, Still, UNCHANGED retained, NEW b \in Browsers,
           Subscribes(b, {retained[t] : t \in Tables} \ {Nothing}, {status} \ {"none"})
    PROVE  RInv' /\ NothingInvented /\ UNCHANGED view
<1>1. /\ inbox'[b] \in Seq(Messages)
      /\ DOMAIN inbox'[b] \subseteq Nat
      /\ \A k \in DOMAIN inbox'[b] : inbox'[b][k].kind = "table" =>
             \E t \in Tables : retained[t] # Nothing /\ inbox'[b][k].state = retained[t]
      /\ \A c \in Browsers \ {b} : inbox'[c] = inbox[c]
  BY SubscriptionSends DEF RInv, TTypeOK
<1>2. /\ UNCHANGED <<connection, view, kitchen>> /\ connection[b] = "connected"
      /\ subscribed' = [subscribed EXCEPT ![b] = TRUE]
  BY DEF Subscribes
<1>3. \A t \in Tables : retained[t] # Nothing =>
          retained[t].table = t /\ retained[t] \in Snapshots
  BY DEF RInv, StatesAreNamed, TTypeOK, TypeOK
<1>4. ASSUME NEW k \in DOMAIN inbox'[b], inbox'[b][k].kind = "table"
      PROVE  LET s == inbox'[b][k].state
             IN  /\ s.table \in Tables /\ retained[s.table] # Nothing
                 /\ s = retained[s.table] /\ s.epoch \in Nat
  BY <1>1, <1>3, <1>4, SnapshotIs
<1>5. WindowsTyped'
  <2>1. inbox' = [c \in Browsers |-> inbox'[c]]
    BY DEF Subscribes, RInv, WindowsTyped
  <2>2. \A c \in Browsers : inbox'[c] \in Seq(Messages)
    BY <1>1 DEF RInv, WindowsTyped
  <2>3. inbox' \in [Browsers -> Seq(Messages')]
    BY <2>1, <2>2, StillKeepsNames
  <2>4. /\ connection' = connection
        /\ subscribed' \in [Browsers -> BOOLEAN]
        /\ kitchen' \in [Browsers -> {"unknown", "ONLINE", "OFFLINE"}]
        /\ DOMAIN view' = Browsers
    BY <1>2 DEF RInv, WindowsTyped
  <2>5. ASSUME NEW c \in Browsers
        PROVE  /\ inbox'[c] # << >> => subscribed'[c]
               /\ subscribed'[c] => connection'[c] = "connected"
    <3>1. CASE c = b
      BY <1>2, <3>1 DEF RInv, WindowsTyped
    <3>2. CASE c # b
      BY <1>1, <1>2, <3>2 DEF RInv, WindowsTyped
    <3> QED
      BY <3>1, <3>2
  <2>6. ASSUME NEW c \in Browsers
        PROVE  /\ DOMAIN view'[c] \subseteq Tables
               /\ \A t \in DOMAIN view'[c] :
                      view'[c][t] \in Snapshots' /\ view'[c][t].table = t
    BY <1>2, StillKeepsNames DEF RInv, WindowsTyped
  <2>7. connection' \in [Browsers -> {"connecting", "connected", "reconnecting", "offline"}]
    BY <2>4 DEF RInv, WindowsTyped
  <2> QED
    BY <2>3, <2>4, <2>5, <2>6, <2>7 DEF WindowsTyped
<1>6. VersionsNameStates' /\ NothingInvented
  <2>1. ASSUME NEW c \in Browsers, NEW k \in DOMAIN inbox'[c], inbox'[c][k].kind = "table"
        PROVE  inbox'[c][k].state \in Circulating(inbox'[c][k].state.table)
    <3>1. CASE c = b
      BY <1>4, <2>1, <3>1, CirculatingIs
    <3>2. CASE c # b
      BY <1>1, <2>1, <3>2, CirculatingIs
    <3> QED
      BY <3>1, <3>2
  <2>2. \A c \in Browsers : \A t \in DOMAIN view'[c] :
            t \in Tables /\ view'[c][t] \in Circulating(t)
    BY <1>2, CirculatingIs DEF RInv, WindowsTyped
  <2> QED
    BY <2>1, <2>2, StillKeepsVersions
<1>7. StreamsInOrder'
  <2> SUFFICES ASSUME NEW c \in Browsers, NEW t \in Tables
               PROVE  StreamInOrder(c, t)'
    BY DEF StreamsInOrder
  <2>1. StreamInOrder(c, t)
    BY DEF RInv, StreamsInOrder
  <2>2. \A s : Follows(t, s) => Follows(t, s)'
    BY StillKeepsNames
  <2>3. CASE c # b
    BY <1>1, <1>2, <2>1, <2>2, <2>3 DEF StreamInOrder, IsAbout
  <2>4. CASE c = b
    <3>1. ASSUME NEW k \in DOMAIN inbox'[b], IsAbout(t, inbox'[b][k])
          PROVE  /\ retained[t] # Nothing
                 /\ inbox'[b][k].state = retained[t]
                 /\ retained[t].epoch \in Nat
      BY <1>4, <3>1 DEF IsAbout
    <3>2. t \in DOMAIN view[b] => Follows(t, view[b][t])
      BY <2>1, <2>4 DEF StreamInOrder
    <3>3. \A e \in Nat : e <= e
      OBVIOUS
    <3>4. \A j, k \in DOMAIN inbox'[b] :
              IsAbout(t, inbox'[b][j]) /\ IsAbout(t, inbox'[b][k]) =>
                  inbox'[b][j].state.epoch <= inbox'[b][k].state.epoch
      BY <3>1, <3>3
    <3>5. \A k \in DOMAIN inbox'[b] : IsAbout(t, inbox'[b][k]) =>
              /\ Follows(t, inbox'[b][k].state)
              /\ t \in DOMAIN view[b] => view[b][t].epoch <= inbox'[b][k].state.epoch
      BY <3>1, <3>2, <3>3 DEF Follows
    <3> QED
      BY <1>2, <2>2, <2>4, <3>2, <3>4, <3>5 DEF StreamInOrder, IsAbout
  <2> QED
    BY <2>3, <2>4
<1> QED
  BY <1>2, <1>5, <1>6, <1>7, StillKeepsNames DEF RInv, Still

-----------------------------------------------------------------------------
(* The theorems *)

LEMMA RInitEstablishesInv == RInit => RInv
<1> SUFFICES ASSUME RInit
             PROVE  RInv
  OBVIOUS
<1>1. TTypeOK /\ TInit /\ BrowserInit
  BY InitTyped DEF RInit
<1>2. \A b \in Browsers : DOMAIN view[b] = {} /\ DOMAIN inbox[b] = {}
  BY <1>1, NoElements DEF BrowserInit
<1>3. WindowsTyped
  <2>1. << >> \in Seq(Messages)
    BY EmptySeq
  <2>2. \A b \in Browsers : inbox[b] = << >>
    BY <1>1 DEF BrowserInit
  <2> QED
    BY <1>1, <1>2, <2>1, <2>2 DEF BrowserInit, WindowsTyped
<1>4. main.at # "publishing" /\ \A t \in Tables : retained[t] = Nothing
  BY <1>1 DEF TInit, Idle
<1>5. StatesAreNamed
  BY <1>4 DEF StatesAreNamed
<1>6. VersionsNameStates
  <2>1. ASSUME NEW t \in Tables, NEW s \in Circulating(t)
        PROVE  s = Snapshot(t)
    BY <1>2, <1>4, <2>1, CirculatingIs
  <2>2. \A t \in Tables : /\ Snapshot(t).epoch = epoch
                           /\ Snapshot(t).version = version[t] /\ version[t] \in Nat
    BY <1>1, BoundsAssumption DEF Snapshot, TTypeOK, TypeOK, StoreTypeOK
  <2>3. \A n \in Nat : n <= n
    OBVIOUS
  <2> QED
    BY <2>1, <2>2, <2>3 DEF VersionsNameStates
<1>7. StreamsInOrder
  BY <1>2 DEF StreamsInOrder, StreamInOrder
<1> QED
  BY <1>1, <1>3, <1>5, <1>6, <1>7 DEF RInv

\* Every step keeps the invariant and moves what windows show forward.
MovesOn ==
    /\ RInv'
    /\ NothingInvented
    /\ \A b \in Browsers : \A t \in DOMAIN view[b] :
           /\ t \in DOMAIN view'[b]
           /\ view'[b][t] = view[b][t] \/ Newer(view'[b][t], view[b][t])

LEMMA LosingIs ==
    ASSUME WindowsTyped, NEW B, Lose(B), Messages' = Messages, Snapshots' = Snapshots
    PROVE  /\ WindowsTyped' /\ UNCHANGED view
           /\ \A b \in Browsers : inbox'[b] \in {inbox[b], << >>}
<1>1. /\ UNCHANGED <<view, kitchen>>
      /\ \A b \in Browsers : inbox'[b] = IF b \in B THEN << >> ELSE inbox[b]
      /\ \A b \in Browsers : subscribed'[b] = (subscribed[b] /\ b \notin B)
      /\ \A b \in Browsers : connection'[b] =
             IF b \in B /\ connection[b] # "reconnecting" THEN "offline" ELSE connection[b]
  BY DEF Lose
<1>2. inbox' \in [Browsers -> Seq(Messages')]
  <2>1. << >> \in Seq(Messages)
    BY EmptySeq
  <2>2. \A b \in Browsers : inbox'[b] \in Seq(Messages)
    BY <1>1, <2>1 DEF WindowsTyped
  <2> QED
    BY <2>2 DEF Lose
<1>3. subscribed' \in [Browsers -> BOOLEAN]
  BY DEF Lose
<1>4. connection' \in [Browsers -> {"connecting", "connected", "reconnecting", "offline"}]
  BY <1>1 DEF Lose, WindowsTyped
<1>5. ASSUME NEW b \in Browsers
      PROVE  /\ inbox'[b] # << >> => subscribed'[b]
             /\ subscribed'[b] => connection'[b] = "connected"
  BY <1>1, <1>5 DEF WindowsTyped
<1> QED
  BY <1>1, <1>2, <1>3, <1>4, <1>5 DEF WindowsTyped

LEMMA StillTypes ==
    ASSUME UNCHANGED storeVars
    PROVE  Messages' = Messages /\ Snapshots' = Snapshots
<1>1. UNCHANGED <<epoch, version, orders, seen, placed>>
  BY DEF storeVars
<1>2. Snapshots' = Snapshots
  BY <1>1 DEF Snapshots, Histories
<1> QED
  BY <1>2 DEF Messages

LEMMA BrokerStepMovesOn ==
    ASSUME RInv, BrokerStep
    PROVE  MovesOn
<1>1. TTypeOK'
  BY TransportTypesHold DEF RInv, BrokerStep, TNext
<1>2. Still
  BY <1>1 DEF Still, BrokerStep, BrokerRestarts
<1>3. Lose(Browsers)
  BY DEF BrokerStep
<1>4. Messages' = Messages /\ Snapshots' = Snapshots
  BY <1>2, StillTypes DEF Still
<1>5. WindowsTyped' /\ UNCHANGED view /\ \A b \in Browsers : inbox'[b] \in {inbox[b], << >>}
  BY <1>3, <1>4, LosingIs DEF RInv
<1> QED
  BY <1>2, <1>5, LosingKeepsInv DEF MovesOn

LEMMA BrowserLosesMovesOn ==
    ASSUME RInv, NEW b \in Browsers, BrowserLoses(b)
    PROVE  MovesOn
<1>1. UNCHANGED <<vars, session, will>> /\ Fault /\ Lose({b})
  BY DEF BrowserLoses
<1>2. TypeOK'
  BY <1>1, TypeStep DEF RInv, TTypeOK
<1>3. faults' \in 0..MaxFaults
  BY <1>1, FaultsAssumption DEF Fault, RInv, TTypeOK
<1>4. UNCHANGED <<storeVars, main, retained>>
  BY <1>1 DEF vars, kitchenVars
<1>5. TTypeOK'
  BY <1>1, <1>2, <1>3, <1>4 DEF RInv, TTypeOK, Idle
<1>6. Still
  BY <1>4, <1>5 DEF Still
<1>7. Messages' = Messages /\ Snapshots' = Snapshots
  BY <1>4, StillTypes
<1>8. WindowsTyped' /\ UNCHANGED view /\ \A c \in Browsers : inbox'[c] \in {inbox[c], << >>}
  BY <1>1, <1>7, LosingIs DEF RInv
<1> QED
  BY <1>6, <1>8, LosingKeepsInv DEF MovesOn

LEMMA UnchangedIsStill ==
    ASSUME RInv, UNCHANGED tvars
    PROVE  Still /\ UNCHANGED retained
<1>1. TTypeOK'
  BY TransportTypesHold DEF RInv
<1> QED
  BY <1>1 DEF Still, tvars, vars, kitchenVars

LEMMA BrowserStepMovesOn ==
    ASSUME RInv, NEW b \in Browsers, BrowserStep(b)
    PROVE  MovesOn
<1>1. Still /\ UNCHANGED retained
  BY UnchangedIsStill DEF BrowserStep
<1>2. CASE OnMessage(b)
  BY <1>1, <1>2, OnMessageKeepsInv DEF MovesOn
<1>3. CASE Subscribes(b, {retained[t] : t \in Tables} \ {Nothing}, {status} \ {"none"})
  BY <1>1, <1>3, SubscribingKeepsInv DEF MovesOn
<1>4. CASE Reconnects(b) \/ Connects(b)
  <2>1. UNCHANGED <<subscribed, view, kitchen, inbox>>
    BY <1>4 DEF Reconnects, Connects
  <2>2. /\ connection' \in [Browsers -> {"connecting", "connected", "reconnecting", "offline"}]
        /\ \A c \in Browsers : connection[c] = "connected" => connection'[c] = "connected"
    <3>1. connection \in [Browsers -> {"connecting", "connected", "reconnecting", "offline"}]
      BY DEF RInv, WindowsTyped
    <3>2. CASE Reconnects(b)
      BY <3>1, <3>2 DEF Reconnects
    <3>3. CASE Connects(b)
      BY <3>1, <3>3 DEF Connects
    <3> QED
      BY <1>4, <3>2, <3>3
  <2>3. Messages' = Messages /\ Snapshots' = Snapshots
    BY <1>1, StillTypes DEF Still
  <2>4. WindowsTyped'
    BY <2>1, <2>2, <2>3 DEF RInv, WindowsTyped
  <2> QED
    BY <1>1, <2>1, <2>4, LosingKeepsInv DEF MovesOn
<1> QED
  BY <1>2, <1>3, <1>4 DEF BrowserStep

LEMMA RStepMovesOn == RInv /\ [RNext]_rvars => MovesOn
<1> SUFFICES ASSUME RInv, [RNext]_rvars
             PROVE  MovesOn
  OBVIOUS
<1>1. CASE KitchenStep
  BY <1>1, KitchenStepKeepsInv DEF MovesOn
<1>2. CASE BrokerStep
  BY <1>2, BrokerStepMovesOn
<1>3. CASE \E b \in Browsers : BrowserStep(b)
  BY <1>3, BrowserStepMovesOn
<1>4. CASE \E b \in Browsers : BrowserLoses(b)
  BY <1>4, BrowserLosesMovesOn
<1>5. CASE UNCHANGED rvars
  <2>1. UNCHANGED tvars /\ UNCHANGED browserVars
    BY <1>5 DEF rvars
  <2>2. Still /\ UNCHANGED <<connection, subscribed, view, kitchen, inbox>>
    BY <2>1, UnchangedIsStill DEF browserVars
  <2>3. Messages' = Messages /\ Snapshots' = Snapshots
    BY <2>2, StillTypes DEF Still
  <2>4. WindowsTyped'
    BY <2>2, <2>3 DEF RInv, WindowsTyped
  <2> QED
    BY <2>2, <2>4, LosingKeepsInv DEF MovesOn
<1> QED
  BY <1>1, <1>2, <1>3, <1>4, <1>5 DEF RNext

\* The invariant of everything below.
LEMMA RInvHolds == RSpec => []RInv
<1>1. RInv /\ [RNext]_rvars => RInv'
  BY RStepMovesOn DEF MovesOn
<1> QED
  BY <1>1, RInitEstablishesInv, PTL DEF RSpec

\* The kitchen, the broker and the windows keep their types; a window shows tables
\* under their own names only, and what is on its way to it has come through a
\* subscription of a connection that is up (state.ts:35-46, mqttClient.ts:38-41).
THEOREM RTypeCorrect == RSpec => []RTypeOK
<1>1. RInv => RTypeOK
  BY DEF RInv, WindowsTyped, RTypeOK
<1> QED
  BY <1>1, RInvHolds, PTL

\* However many windows, tables and faults: whatever of a table is in the store, at
\* the broker, in a batch, on its way to a window or shown by one, equal generations
\* and versions mean equal states, so that dropping a repeated version never drops
\* news (state.ts:20-46, store.py:119-164).
THEOREM VersionsAlwaysName == RSpec => []VersionsNameStates
<1>1. RInv => VersionsNameStates
  BY DEF RInv
<1> QED
  BY <1>1, RInvHolds, PTL

-----------------------------------------------------------------------------
(* The kitchen of the restaurant *)

\* What is proved of the transport by itself.
TransportInv == Backed /\ KnowsItsPlace /\ Greets /\ CapacityRespected /\ DishesAreOwned

\* A step of the restaurant is one of the transport, or counts a fault.
LEMMA RestaurantSteps == [RNext]_rvars => [TNext]_tvars \/ UNCHANGED <<vars, session, will>>
<1> SUFFICES ASSUME [RNext]_rvars
             PROVE  [TNext]_tvars \/ UNCHANGED <<vars, session, will>>
  OBVIOUS
<1>1. KitchenStep \/ BrokerStep => TNext
  BY DEF KitchenStep, BrokerStep, TNext
<1>2. ASSUME NEW b \in Browsers, BrowserStep(b)
      PROVE  UNCHANGED tvars
  BY <1>2 DEF BrowserStep
<1>3. ASSUME NEW b \in Browsers, BrowserLoses(b)
      PROVE  UNCHANGED <<vars, session, will>>
  BY <1>3 DEF BrowserLoses
<1>4. UNCHANGED rvars => UNCHANGED tvars
  BY DEF rvars
<1> QED
  BY <1>1, <1>2, <1>3, <1>4 DEF RNext

LEMMA CountingFaults ==
    ASSUME TransportInv, UNCHANGED <<vars, session, will>>
    PROVE  TransportInv'
<1>1. UNCHANGED <<storeVars, main, cooks, link, retained, status, session, will>>
  BY DEF vars, kitchenVars
<1>2. UNCHANGED <<epoch, version, orders, seen, placed>>
  BY <1>1 DEF storeVars
<1>3. Backed' /\ KnowsItsPlace'
  BY <1>1 DEF TransportInv, Backed, OnlineIsBacked, KnowsItsPlace
<1>4. Greets'
  BY <1>1, <1>2 DEF TransportInv, Greets, Reached, Current, Pending
<1>5. CapacityRespected'
  BY <1>2 DEF TransportInv, CapacityRespected, TotalCookingCount, AllCooking, CookingCount
<1>6. DishesAreOwned'
  BY <1>1, <1>2 DEF TransportInv, DishesAreOwned, CooksHaveTheirOrder, ConsumerHoldsOrder,
                    OrdersHaveACook, IsCooking, Abandoned, OwnedByConsumer, OwnedByCook
<1> QED
  BY <1>3, <1>4, <1>5, <1>6 DEF TransportInv

LEMMA TransportInvHolds == RSpec => []TransportInv
<1>1. RInit => TransportInv
  BY BackedAtFirst, PlacedAtFirst, CapacityAtFirst, OwnedAtFirst DEF RInit, TransportInv
<1>2. RInv /\ RInv' /\ TransportInv /\ [RNext]_rvars => TransportInv'
  <2> SUFFICES ASSUME RInv, RInv', TransportInv, [RNext]_rvars
               PROVE  TransportInv'
    OBVIOUS
  <2>1. TTypeOK /\ TTypeOK' /\ TypeOK
    BY DEF RInv, TTypeOK
  <2>2. ASSUME [TNext]_tvars
        PROVE  TransportInv'
    BY <2>1, <2>2, BackedHolds, PlacesHold, GreetsHolds, CapacityHolds, DishesStayOwned
       DEF TransportInv
  <2> QED
    BY <2>2, RestaurantSteps, CountingFaults
<1> QED
  BY <1>1, <1>2, RInvHolds, PTL DEF RSpec

\* Beside any number of windows, the kitchen and the broker keep the promises they keep
\* by themselves: an ONLINE is backed by a will, a kitchen that serves is announced,
\* every dish keeps its cook, and the limits hold (transport.py:107-139, kitchen.py:102-112).
THEOREM RestaurantKeepsItsKitchen ==
    RSpec => [](/\ OnlineIsBacked
                /\ ServingIsAnnounced
                /\ DishesSurviveReconnect
                /\ CapacityRespected)
<1>1. TransportInv => /\ OnlineIsBacked
                      /\ ServingIsAnnounced
                      /\ DishesSurviveReconnect
                      /\ CapacityRespected
  BY DEF TransportInv, Backed, Greets, ServingIsAnnounced, Reached, Current, DishesAreOwned,
         DishesSurviveReconnect
<1> QED
  BY <1>1, TransportInvHolds, PTL

\* The restaurant uses the kitchen's store as Store specifies, so that every theorem
\* about StoreSpec holds of it.
THEOREM RestaurantImplementsStore == RSpec => StoreSpec
<1>1. RInit => StoreInit
  BY DEF RInit, TInit
<1>2. RInv /\ [RNext]_rvars => [StoreNext]_storeVars
  <2> SUFFICES ASSUME RInv, [RNext]_rvars
               PROVE  [StoreNext]_storeVars
    OBVIOUS
  <2>1. TypeOK
    BY DEF RInv, TTypeOK
  <2>2. UNCHANGED <<vars, session, will>> => UNCHANGED storeVars
    BY DEF vars
  <2> QED
    BY <2>1, <2>2, RestaurantSteps, TransportUsesStore
<1> QED
  BY <1>1, <1>2, RInvHolds, PTL DEF RSpec, StoreSpec

\* Seen from the whole system, with crashes, faults and any number of windows, each
\* order goes through its life once and forwards: cooking, then one of the finished
\* statuses, then gone, and never back (store.py:138-178, kitchen.py:393-412).
THEOREM OrdersLiveOnce == RSpec => OrderLifecycle
BY RestaurantImplementsStore, StoreImplementsLifecycle, PTL

\* The promises of the store outlive faults and crashes as well: its history stays
\* bounded and loses no order but to later ones, and a version means one content
\* (store.py:151-196).
THEOREM RestaurantKeepsItsStore ==
    RSpec => []HistoryBounded /\ VersionIdentifiesContent /\ LatestAreKept
BY RestaurantImplementsStore, HistoryStaysBounded, VersionsIdentify, LatestStay, PTL

-----------------------------------------------------------------------------
(* What sequences of messages tell *)

Tells(seq, state) == \E k \in DOMAIN seq : seq[k].kind = "table" /\ seq[k].state = state

TellsNoStatus(seq) == \A k \in DOMAIN seq : seq[k].kind # "status"

\* The last status in a sequence is s.
TellsLast(seq, s) ==
    \E k \in DOMAIN seq :
        /\ seq[k].kind = "status" /\ seq[k].status = s
        /\ \A j \in DOMAIN seq : k < j => seq[j].kind # "status"

LEMMA JoinedTell ==
    ASSUME NEW S, NEW first \in Seq(S), NEW last \in Seq(S)
    PROVE  /\ \A state : Tells(first, state) \/ Tells(last, state) => Tells(first \o last, state)
           /\ \A s : TellsLast(last, s) => TellsLast(first \o last, s)
           /\ \A s : TellsLast(first, s) /\ TellsNoStatus(last) => TellsLast(first \o last, s)
           /\ TellsNoStatus(first) /\ TellsNoStatus(last) => TellsNoStatus(first \o last)
<1> DEFINE both == first \o last
           m == Len(first)
           n == Len(last)
<1>1. /\ m \in Nat /\ n \in Nat
      /\ DOMAIN first = 1..m /\ DOMAIN last = 1..n
  BY LenProperties
<1>2. /\ both \in Seq(S) /\ Len(both) = m + n
      /\ \A i \in 1..(m + n) : both[i] = IF i <= m THEN first[i] ELSE last[i - m]
  BY ConcatProperties
<1>3. DOMAIN both = 1..(m + n)
  BY <1>2, LenProperties
<1> HIDE DEF both, m, n
<1>4. \A k \in DOMAIN first : k \in DOMAIN both /\ both[k] = first[k] /\ k <= m /\ k \in Nat
  BY <1>1, <1>2, <1>3
<1>5. \A k \in DOMAIN last : m + k \in DOMAIN both /\ both[m + k] = last[k] /\ k \in Nat /\ k > 0
  BY <1>1, <1>2, <1>3
<1>6. \A k \in DOMAIN both :
          \/ k \in DOMAIN first /\ both[k] = first[k]
          \/ /\ k > m /\ k - m \in DOMAIN last /\ both[k] = last[k - m] /\ k \in Nat
  BY <1>1, <1>2, <1>3
<1>7. \A state : Tells(first, state) \/ Tells(last, state) => Tells(both, state)
  BY <1>4, <1>5 DEF Tells
<1>8. ASSUME NEW s, TellsLast(last, s)
      PROVE  TellsLast(both, s)
  <2>1. PICK k \in DOMAIN last :
            /\ last[k].kind = "status" /\ last[k].status = s
            /\ \A j \in DOMAIN last : k < j => last[j].kind # "status"
    BY <1>8 DEF TellsLast
  <2>2. m + k \in DOMAIN both /\ both[m + k] = last[k] /\ k \in Nat /\ k > 0
    BY <1>5
  <2>3. ASSUME NEW j \in DOMAIN both, m + k < j
        PROVE  both[j].kind # "status"
    <3>1. j > m /\ j - m \in DOMAIN last /\ both[j] = last[j - m] /\ j \in Nat
      <4>1. ~ (j \in DOMAIN first)
        BY <1>1, <2>2, <2>3
      <4> QED
        BY <1>6, <4>1
    <3>2. k < j - m
      BY <1>1, <2>2, <2>3, <3>1
    <3> QED
      BY <2>1, <3>1, <3>2
  <2> QED
    BY <2>1, <2>2, <2>3 DEF TellsLast
<1>9. ASSUME NEW s, TellsLast(first, s), TellsNoStatus(last)
      PROVE  TellsLast(both, s)
  <2>1. PICK k \in DOMAIN first :
            /\ first[k].kind = "status" /\ first[k].status = s
            /\ \A j \in DOMAIN first : k < j => first[j].kind # "status"
    BY <1>9 DEF TellsLast
  <2>2. k \in DOMAIN both /\ both[k] = first[k]
    BY <1>4
  <2>3. \A j \in DOMAIN both : k < j => both[j].kind # "status"
    BY <1>6, <1>9, <2>1 DEF TellsNoStatus
  <2> QED
    BY <2>1, <2>2, <2>3 DEF TellsLast
<1>10. TellsNoStatus(first) /\ TellsNoStatus(last) => TellsNoStatus(both)
  BY <1>6 DEF TellsNoStatus
<1> QED
  BY <1>7, <1>8, <1>9, <1>10 DEF both

LEMMA RestTells ==
    ASSUME NEW S, NEW seq \in Seq(S), seq # << >>
    PROVE  /\ \A state : Tells(seq, state) =>
                  Tells(Tail(seq), state) \/ (Head(seq).kind = "table" /\ Head(seq).state = state)
           /\ TellsNoStatus(seq) => TellsNoStatus(Tail(seq)) /\ Head(seq).kind # "status"
           /\ \A s : TellsLast(seq, s) =>
                  \/ TellsLast(Tail(seq), s)
                  \/ /\ Head(seq).kind = "status" /\ Head(seq).status = s
                     /\ TellsNoStatus(Tail(seq))
<1> DEFINE rest == Tail(seq)
           m == Len(seq)
<1>1. m \in Nat /\ DOMAIN seq = 1..m /\ m # 0 /\ Head(seq) = seq[1]
  BY LenProperties
<1>2. /\ rest \in Seq(S) /\ Len(rest) = m - 1
      /\ \A i \in 1..Len(rest) : rest[i] = seq[i + 1]
  BY HeadTailProperties
<1>3. DOMAIN rest = 1..(m - 1)
  BY <1>2, LenProperties
<1> HIDE DEF rest, m
<1>4. \A k \in DOMAIN rest : k + 1 \in DOMAIN seq /\ rest[k] = seq[k + 1] /\ k \in Nat /\ k > 0
  BY <1>1, <1>2, <1>3
<1>5. \A k \in DOMAIN seq :
          k = 1 \/ (k - 1 \in DOMAIN rest /\ rest[k - 1] = seq[k] /\ k \in Nat)
  <2> SUFFICES ASSUME NEW k \in DOMAIN seq, k # 1
               PROVE  k - 1 \in DOMAIN rest /\ rest[k - 1] = seq[k] /\ k \in Nat
    OBVIOUS
  <2>1. k \in 1..m /\ k - 1 \in 1..(m - 1) /\ (k - 1) + 1 = k
    BY <1>1
  <2> QED
    BY <1>2, <1>3, <2>1
<1>6. 1 \in DOMAIN seq
  BY <1>1
<1>7. \A state : Tells(seq, state) =>
          Tells(rest, state) \/ (Head(seq).kind = "table" /\ Head(seq).state = state)
  BY <1>1, <1>5 DEF Tells
<1>8. TellsNoStatus(seq) => TellsNoStatus(rest) /\ Head(seq).kind # "status"
  BY <1>1, <1>4, <1>6 DEF TellsNoStatus
<1>9. ASSUME NEW s, TellsLast(seq, s)
      PROVE  \/ TellsLast(rest, s)
             \/ /\ Head(seq).kind = "status" /\ Head(seq).status = s
                /\ TellsNoStatus(rest)
  <2>1. PICK k \in DOMAIN seq :
            /\ seq[k].kind = "status" /\ seq[k].status = s
            /\ \A j \in DOMAIN seq : k < j => seq[j].kind # "status"
    BY <1>9 DEF TellsLast
  <2>2. \A j \in DOMAIN rest : k < j + 1 => rest[j].kind # "status"
    BY <1>4, <2>1
  <2>3. CASE k = 1
    <3>1. \A j \in DOMAIN rest : k < j + 1
      BY <1>4, <2>3
    <3>2. TellsNoStatus(rest)
      BY <2>2, <3>1 DEF TellsNoStatus
    <3> QED
      BY <1>1, <2>1, <2>3, <3>2
  <2>4. CASE k # 1
    <3>1. k - 1 \in DOMAIN rest /\ rest[k - 1] = seq[k] /\ k \in Nat
      BY <1>5, <2>4
    <3>2. \A j \in DOMAIN rest : k - 1 < j => k < j + 1
      BY <1>4, <3>1
    <3>3. \A j \in DOMAIN rest : k - 1 < j => rest[j].kind # "status"
      BY <2>2, <3>2
    <3> QED
      BY <2>1, <3>1, <3>3 DEF TellsLast
  <2> QED
    BY <2>3, <2>4
<1> QED
  BY <1>7, <1>8, <1>9 DEF rest

\* An enumeration without repetitions leaves nothing out.
LEMMA NothingLeftOut ==
    ASSUME NEW S, IsFiniteSet(S), NEW f \in [1..Cardinality(S) -> S],
           \A i, j \in 1..Cardinality(S) : i # j => f[i] # f[j]
    PROVE  /\ f \in Seq(S)
           /\ \A x \in S : \E k \in DOMAIN f : f[k] = x
<1> DEFINE n == Cardinality(S)
<1>1. n \in Nat
  BY FS_CardinalityType
<1>2. Cardinality(1..n) = n
  <2>1. PICK k \in Nat : k = n
    BY <1>1
  <2>2. 1 \in Int /\ k \in Int
    OBVIOUS
  <2>3. Cardinality(1..k) = IF 1 > k THEN 0 ELSE k - 1 + 1
    BY <2>2, FS_Interval, Zenon
  <2>4. Cardinality(1..k) = k
    BY <2>3
  <2> QED
    BY <2>1, <2>4, Zenon
<1>3. f \in Injection(1..n, S)
  BY DEF Injection, IsInjective
<1>4. f \in Surjection(1..n, S)
  <2> HIDE DEF n
  <2> QED
    BY <1>2, <1>3, FS_Injection DEF n
<1> QED
  BY <1>1, <1>4 DEF Surjection

LEMMA SetToSeqIs ==
    ASSUME NEW S, IsFiniteSet(S)
    PROVE  /\ SetToSeq(S) \in Seq(S)
           /\ \A x \in S : \E k \in DOMAIN SetToSeq(S) : SetToSeq(S)[k] = x
<1>1. PICK n \in Nat : ExistsBijection(1..n, S)
  BY FS_NatBijection
<1>2. n = Cardinality(S)
  BY <1>1, FS_CountingElements
<1>3. \E f \in [1..n -> S] : IsInjective(f)
  BY <1>1 DEF ExistsBijection, Bijection, Injection, IsInjective
<1>4. SetToSeq(S) \in [1..n -> S] /\ IsInjective(SetToSeq(S))
  BY <1>2, <1>3 DEF SetToSeq
<1>5. \A i, j \in 1..n : i # j => SetToSeq(S)[i] # SetToSeq(S)[j]
  BY <1>4 DEF IsInjective
<1> QED
  BY <1>2, <1>4, <1>5, NothingLeftOut

LEMMA SetToSeqsAre ==
    ASSUME NEW S, IsFiniteSet(S), NEW f \in SetToSeqs(S)
    PROVE  /\ f \in Seq(S)
           /\ \A x \in S : \E k \in DOMAIN f : f[k] = x
<1>1. f \in [1..Cardinality(S) -> S] /\ \A i, j \in 1..Cardinality(S) : i # j => f[i] # f[j]
  BY DEF SetToSeqs
<1> QED
  BY <1>1, NothingLeftOut

\* What a step of the kitchen publishes tells of every slot that has changed, and of
\* the status if and only if it has.
LEMMA PublishedTells ==
    ASSUME TypeOK', \A t \in Tables : retained'[t] # retained[t] => retained'[t] # Nothing
    PROVE  /\ \A t \in Tables : retained'[t] # retained[t] => Tells(Published, retained'[t])
           /\ status' # status => TellsLast(Published, status')
           /\ status' = status => TellsNoStatus(Published)
<1> DEFINE C == {u \in Tables : retained'[u] # retained[u]}
           S == {TableMessage(retained'[t]) : t \in C}
           Z == {StatusMessage(status')}
           a == SetToSeq(S)
           z == IF status' # status THEN <<StatusMessage(status')>> ELSE << >>
<1>1. IsFiniteSet(S)
  <2>1. IsFiniteSet(C)
    BY TablesAssumption, FS_Subset
  <2> QED
    BY <2>1, FiniteImages
<1>2. a \in Seq(S) /\ \A x \in S : \E k \in DOMAIN a : a[k] = x
  <2> HIDE DEF S
  <2> QED
    BY <1>1, SetToSeqIs
<1>3. \A m \in S : m.kind = "table"
  BY DEF TableMessage
<1>4. \A k \in DOMAIN a : a[k] \in S
  <2> HIDE DEF S, a
  <2> QED
    BY <1>2, LenProperties, ElementOfSeq
<1>5. TellsNoStatus(a)
  BY <1>3, <1>4 DEF TellsNoStatus
<1>6. \A t \in Tables : retained'[t] # retained[t] => Tells(a, retained'[t])
  <2> SUFFICES ASSUME NEW t \in Tables, retained'[t] # retained[t]
               PROVE  Tells(a, retained'[t])
    OBVIOUS
  <2>1. TableMessage(retained'[t]) \in S
    OBVIOUS
  <2>2. PICK k \in DOMAIN a : a[k] = TableMessage(retained'[t])
    <3> HIDE DEF S, a
    <3> QED
      BY <1>2, <2>1
  <2> QED
    BY <2>2 DEF Tells, TableMessage
<1>7. status' # status => TellsLast(z, status')
  <2> SUFFICES ASSUME status' # status
               PROVE  TellsLast(z, status')
    OBVIOUS
  <2>1. z = <<StatusMessage(status')>>
    OBVIOUS
  <2>2. DOMAIN z = {1} /\ z[1] = StatusMessage(status')
    BY <2>1
  <2>3. z[1].kind = "status" /\ z[1].status = status'
    BY <2>2 DEF StatusMessage
  <2>4. \A j \in {1} : ~ (1 < j)
    OBVIOUS
  <2> HIDE DEF z
  <2> QED
    BY <2>2, <2>3, <2>4 DEF TellsLast
<1>8. status' = status => TellsNoStatus(z)
  BY NoElements DEF TellsNoStatus
<1>9. a \in Seq(S \cup Z) /\ z \in Seq(S \cup Z)
  <2>1. a \in Seq(S \cup Z)
    <3> HIDE DEF S, Z, a
    <3> QED
      BY <1>2, SeqMonotonic
  <2>2. z \in Seq(Z)
    <3>1. CASE status' = status
      BY <3>1, EmptySeq
    <3>2. CASE status' # status
      <4>1. z = <<StatusMessage(status')>> /\ StatusMessage(status') \in Z
        BY <3>2
      <4> HIDE DEF z, Z
      <4> QED
        BY <4>1
    <3> QED
      BY <3>1, <3>2
  <2>3. z \in Seq(S \cup Z)
    <3> HIDE DEF S, Z, z
    <3> QED
      BY <2>2, SeqMonotonic
  <2> QED
    BY <2>1, <2>3
<1>10. Published = a \o z
  BY DEF Published
<1> HIDE DEF a, z, S, Z
<1> QED
  BY <1>5, <1>6, <1>7, <1>8, <1>9, <1>10, JoinedTell

\* A window that subscribes is told of everything that is retained.
LEMMA SubscriptionTells ==
    ASSUME TypeOK, WindowsTyped, NEW b \in Browsers,
           Subscribes(b, {retained[t] : t \in Tables} \ {Nothing}, {status} \ {"none"})
    PROVE  /\ \A t \in Tables : retained[t] # Nothing => Tells(inbox'[b], retained[t])
           /\ status # "none" => TellsLast(inbox'[b], status)
<1> DEFINE States == {retained[t] : t \in Tables} \ {Nothing}
           Statuses == {status} \ {"none"}
           A == {TableMessage(s) : s \in States}
           Z == {StatusMessage(s) : s \in Statuses}
<1>1. PICK first \in SetToSeqs(A), last \in SetToSeqs(Z) :
          inbox' = [inbox EXCEPT ![b] = first \o last]
  BY DEF Subscribes
<1>2. IsFiniteSet(A)
  <2> DEFINE Told == {t \in Tables : retained[t] # Nothing}
  <2>1. IsFiniteSet(Told)
    BY TablesAssumption, FS_Subset
  <2>2. IsFiniteSet({TableMessage(retained[t]) : t \in Told})
    BY <2>1, FiniteImages
  <2>3. A = {TableMessage(retained[t]) : t \in Told}
    OBVIOUS
  <2> QED
    BY <2>2, <2>3
<1>3. IsFiniteSet(Z)
  <2>1. Z \subseteq {StatusMessage(status)}
    OBVIOUS
  <2>2. IsFiniteSet({StatusMessage(status)})
    BY FS_Singleton
  <2> QED
    BY <2>1, <2>2, FS_Subset
<1>4. \A t \in Tables : retained[t] # Nothing => TableMessage(retained[t]) \in A
  OBVIOUS
<1>5. \A m \in Z : m.kind = "status" /\ m.status = status
  BY DEF StatusMessage
<1>6. status # "none" => StatusMessage(status) \in Z
  OBVIOUS
<1>7. \A s : TableMessage(s).kind = "table" /\ TableMessage(s).state = s
  BY DEF TableMessage
<1> HIDE DEF A, Z
<1>8. first \in Seq(A) /\ \A x \in A : \E k \in DOMAIN first : first[k] = x
  BY <1>2, SetToSeqsAre
<1>9. last \in Seq(Z) /\ \A x \in Z : \E k \in DOMAIN last : last[k] = x
  BY <1>3, SetToSeqsAre
<1>10. \A t \in Tables : retained[t] # Nothing => Tells(first, retained[t])
  BY <1>4, <1>7, <1>8 DEF Tells
<1>11. ASSUME status # "none"
       PROVE  TellsLast(last, status)
  <2>1. Len(last) \in Nat /\ DOMAIN last = 1..Len(last)
    BY <1>9, LenProperties
  <2>2. PICK k \in DOMAIN last : last[k] = StatusMessage(status)
    BY <1>6, <1>9, <1>11
  <2>3. Len(last) \in DOMAIN last /\ \A j \in DOMAIN last : ~ (Len(last) < j)
    BY <2>1, <2>2
  <2>4. last[Len(last)] \in Z
    BY <1>9, <2>1, <2>3, ElementOfSeq
  <2> QED
    BY <1>5, <2>3, <2>4 DEF TellsLast
<1>12. first \in Seq(A \cup Z) /\ last \in Seq(A \cup Z)
  BY <1>8, <1>9, SeqMonotonic
<1>13. inbox'[b] = first \o last
  BY <1>1 DEF WindowsTyped
<1> QED
  BY <1>10, <1>11, <1>12, <1>13, JoinedTell

-----------------------------------------------------------------------------
(* Windows that have read everything *)

HasLatest(b, t) ==
    /\ t \in DOMAIN view[b]
    /\ view[b][t] = retained[t] \/ Newer(view[b][t], retained[t])

\* What makes QuietWindowsAreCaughtUp inductive: what is retained of a table is held by a
\* subscribed window or on its way to it, and so is the status, as the last one that is.
Abreast(b) ==
    subscribed[b] =>
        /\ \A t \in Tables :
               retained[t] = Nothing \/ HasLatest(b, t) \/ Tells(inbox[b], retained[t])
        /\ \/ status = "none"
           \/ kitchen[b] = status /\ TellsNoStatus(inbox[b])
           \/ TellsLast(inbox[b], status)

AllAbreast == \A b \in Browsers : Abreast(b)

\* Where nothing that Abreast speaks of changes.
LEMMA UnmovedIsAbreast ==
    ASSUME NEW b, Abreast(b), UNCHANGED <<retained, status>>,
           subscribed'[b] = FALSE \/ subscribed'[b] = subscribed[b],
           subscribed'[b] =>
               view'[b] = view[b] /\ inbox'[b] = inbox[b] /\ kitchen'[b] = kitchen[b]
    PROVE  Abreast(b)'
<1>1. CASE subscribed'[b]
  <2>1. /\ subscribed[b]
        /\ view'[b] = view[b] /\ inbox'[b] = inbox[b] /\ kitchen'[b] = kitchen[b]
    BY <1>1
  <2>2. \A t \in Tables : HasLatest(b, t) => HasLatest(b, t)'
    BY <2>1 DEF HasLatest, Newer
  <2>3. \A t \in Tables :
            retained[t] = Nothing \/ HasLatest(b, t) \/ Tells(inbox'[b], retained'[t])
    BY <2>1 DEF Abreast
  <2>4. \/ status' = "none"
        \/ kitchen'[b] = status' /\ TellsNoStatus(inbox'[b])
        \/ TellsLast(inbox'[b], status')
    BY <2>1 DEF Abreast
  <2> QED
    BY <2>2, <2>3, <2>4 DEF Abreast, Tells, TellsNoStatus, TellsLast
<1>2. CASE ~ subscribed'[b]
  BY <1>2 DEF Abreast
<1> QED
  BY <1>1, <1>2

LEMMA KitchenStepKeepsAbreast ==
    ASSUME RInv, RInv', KitchenStep, NEW b \in Browsers, Abreast(b)
    PROVE  Abreast(b)'
<1>1. TStep /\ Forward(Published) /\ UNCHANGED <<connection, subscribed, view, kitchen>>
  BY DEF KitchenStep
<1>2. /\ TTypeOK /\ TypeOK /\ TypeOK' /\ StatesAreNamed /\ WindowsTyped
  BY DEF RInv, TTypeOK
<1>3. /\ Messages \subseteq Messages'
      /\ \A t \in Tables : retained'[t] # retained[t] => retained'[t] # Nothing
  BY <1>1, <1>2, KitchenStepKeepsNames
<1>4. Published \in Seq(Messages')
  BY <1>1, <1>2, <1>3, PublishedIs
<1>5. inbox[b] \in Seq(Messages')
  <2>1. inbox[b] \in Seq(Messages)
    BY <1>2, InboxIs
  <2> QED
    BY <1>3, <2>1, SeqMonotonic
<1>6. SUFFICES ASSUME subscribed[b]
               PROVE  Abreast(b)'
  BY <1>1 DEF Abreast
<1>7. inbox'[b] = inbox[b] \o Published
  BY <1>1, <1>6 DEF Forward
<1>8. /\ \A t \in Tables : retained'[t] # retained[t] => Tells(Published, retained'[t])
      /\ status' # status => TellsLast(Published, status')
      /\ status' = status => TellsNoStatus(Published)
  BY <1>2, <1>3, PublishedTells
<1>9. /\ \A state : Tells(inbox[b], state) \/ Tells(Published, state) => Tells(inbox'[b], state)
      /\ \A s : TellsLast(Published, s) => TellsLast(inbox'[b], s)
      /\ \A s : TellsLast(inbox[b], s) /\ TellsNoStatus(Published) => TellsLast(inbox'[b], s)
      /\ TellsNoStatus(inbox[b]) /\ TellsNoStatus(Published) => TellsNoStatus(inbox'[b])
  BY <1>4, <1>5, <1>7, JoinedTell
<1>10. ASSUME NEW t \in Tables
       PROVE  retained'[t] = Nothing \/ HasLatest(b, t)' \/ Tells(inbox'[b], retained'[t])
  <2>1. CASE retained'[t] # retained[t]
    BY <1>8, <1>9, <2>1
  <2>2. CASE retained'[t] = retained[t]
    <3>1. retained[t] = Nothing \/ HasLatest(b, t) \/ Tells(inbox[b], retained[t])
      BY <1>6 DEF Abreast
    <3>2. HasLatest(b, t) => HasLatest(b, t)'
      BY <1>1, <2>2 DEF HasLatest, Newer
    <3> QED
      BY <1>9, <2>2, <3>1, <3>2
  <2> QED
    BY <2>1, <2>2
<1>11. \/ status' = "none"
       \/ kitchen'[b] = status' /\ TellsNoStatus(inbox'[b])
       \/ TellsLast(inbox'[b], status')
  <2>1. CASE status' # status
    BY <1>8, <1>9, <2>1
  <2>2. CASE status' = status
    BY <1>1, <1>6, <1>8, <1>9, <2>2 DEF Abreast
  <2> QED
    BY <2>1, <2>2
<1> QED
  BY <1>10, <1>11 DEF Abreast, Tells, TellsNoStatus, TellsLast

\* A state that arrives is shown, or it is what is shown or older.
LEMMA ArrivedIsHeld ==
    ASSUME RInv, NEW b \in Browsers, NEW t \in Tables, retained[t] # Nothing,
           view'[b] = ApplyTableState(view[b], retained[t])
    PROVE  /\ t \in DOMAIN view'[b]
           /\ view'[b][t] = retained[t] \/ Newer(view'[b][t], retained[t])
<1>1. retained[t].table = t /\ retained[t] \in Snapshots
  BY DEF RInv, StatesAreNamed, TTypeOK, TypeOK
<1>2. CASE /\ t \in DOMAIN view[b]
           /\ view[b][t].epoch = retained[t].epoch
           /\ retained[t].version <= view[b][t].version
  <2>1. view'[b] = view[b]
    BY <1>1, <1>2 DEF ApplyTableState
  <2>2. view[b][t] \in Snapshots /\ view[b][t].table = t
    BY <1>2 DEF RInv, WindowsTyped
  <2>3. view[b][t] \in Circulating(t) /\ retained[t] \in Circulating(t)
    BY <1>2, CirculatingIs
  <2>4. CASE view[b][t].version = retained[t].version
    <3>1. view[b][t] = retained[t]
      BY <1>1, <1>2, <2>2, <2>3, <2>4 DEF RInv, VersionsNameStates
    <3> QED
      BY <1>2, <2>1, <3>1
  <2>5. CASE view[b][t].version # retained[t].version
    <3>1. Newer(view[b][t], retained[t])
      BY <1>1, <1>2, <2>2, <2>5, SnapshotIs DEF Newer
    <3> QED
      BY <1>2, <2>1, <3>1
  <2> QED
    BY <2>4, <2>5
<1>3. CASE ~ (/\ t \in DOMAIN view[b]
              /\ view[b][t].epoch = retained[t].epoch
              /\ retained[t].version <= view[b][t].version)
  <2>1. view'[b] = WithState(view[b], retained[t])
    BY <1>1, <1>3 DEF ApplyTableState
  <2> QED
    BY <1>1, <2>1 DEF WithState
<1> QED
  BY <1>2, <1>3

LEMMA OnMessageKeepsAbreast ==
    ASSUME RInv, NEW b \in Browsers, OnMessage(b), UNCHANGED tvars, NEW c \in Browsers,
           Abreast(c)
    PROVE  Abreast(c)'
<1>1. UNCHANGED <<retained, status, subscribed>>
  BY DEF OnMessage, tvars, vars, kitchenVars
<1>2. CASE c # b
  <2>1. view'[c] = view[c] /\ inbox'[c] = inbox[c] /\ kitchen'[c] = kitchen[c]
    BY <1>2 DEF OnMessage, RInv, WindowsTyped
  <2> QED
    BY <1>1, <2>1, UnmovedIsAbreast
<1>3. CASE c = b
  <2> DEFINE m == Head(inbox[b])
  <2>1. inbox[b] \in Seq(Messages) /\ inbox[b] # << >>
    BY InboxIs DEF RInv, OnMessage
  <2>2. inbox'[b] = Tail(inbox[b])
    BY DEF OnMessage, RInv, WindowsTyped
  <2>3. \/ /\ m.kind = "table" /\ view'[b] = ApplyTableState(view[b], m.state)
           /\ kitchen'[b] = kitchen[b]
        \/ m.kind = "status" /\ kitchen'[b] = m.status /\ view'[b] = view[b]
    BY DEF OnMessage, RInv, WindowsTyped
  <2>4. /\ \A state : Tells(inbox[b], state) =>
               Tells(inbox'[b], state) \/ (m.kind = "table" /\ m.state = state)
        /\ TellsNoStatus(inbox[b]) => TellsNoStatus(inbox'[b]) /\ m.kind # "status"
        /\ \A s : TellsLast(inbox[b], s) =>
               \/ TellsLast(inbox'[b], s)
               \/ m.kind = "status" /\ m.status = s /\ TellsNoStatus(inbox'[b])
    BY <2>1, <2>2, RestTells
  <2>5. Still /\ UNCHANGED retained
    BY UnchangedIsStill
  <2>6. \A t \in DOMAIN view[b] :
            t \in DOMAIN view'[b]
            /\ (view'[b][t] = view[b][t] \/ Newer(view'[b][t], view[b][t]))
    BY <2>5, OnMessageKeepsInv
  <2>7. RInv'
    BY <2>5, OnMessageKeepsInv
  <2> HIDE DEF m
  <2>8. SUFFICES ASSUME subscribed[b]
                 PROVE  Abreast(b)'
    BY <1>1, <1>3 DEF Abreast
  <2>9. ASSUME NEW t \in Tables
        PROVE  retained[t] = Nothing \/ HasLatest(b, t)' \/ Tells(inbox'[b], retained[t])
    <3>1. retained[t] = Nothing \/ HasLatest(b, t) \/ Tells(inbox[b], retained[t])
      BY <1>3, <2>8 DEF Abreast
    <3>2. ASSUME HasLatest(b, t), retained[t] # Nothing
          PROVE  HasLatest(b, t)'
      <4>1. t \in DOMAIN view[b] /\ (view[b][t] = retained[t] \/ Newer(view[b][t], retained[t]))
        BY <3>2 DEF HasLatest
      <4>2. t \in DOMAIN view'[b]
            /\ (view'[b][t] = view[b][t] \/ Newer(view'[b][t], view[b][t]))
        BY <2>6, <4>1
      <4>3. view[b][t] \in Snapshots /\ retained[t] \in Snapshots
        BY <3>2, <4>1 DEF RInv, WindowsTyped, TTypeOK, TypeOK
      <4>4. view'[b][t] \in Snapshots
        <5>1. view'[b][t] \in Snapshots'
          BY <2>7, <4>2 DEF RInv, WindowsTyped
        <5> QED
          BY <2>5, <5>1, StillTypes DEF Still
      <4>5. view'[b][t] = retained[t] \/ Newer(view'[b][t], retained[t])
        BY <3>2, <4>1, <4>2, <4>3, <4>4, SnapshotIs, NothingIsNoSnapshot DEF Newer
      <4> QED
        BY <1>1, <4>2, <4>5 DEF HasLatest, Newer
    <3>3. ASSUME m.kind = "table", m.state = retained[t], retained[t] # Nothing
          PROVE  HasLatest(b, t)'
      <4>1. view'[b] = ApplyTableState(view[b], retained[t])
        BY <2>3, <3>3
      <4>2. /\ t \in DOMAIN view'[b]
            /\ view'[b][t] = retained[t] \/ Newer(view'[b][t], retained[t])
        BY <3>3, <4>1, ArrivedIsHeld
      <4> QED
        BY <1>1, <4>2 DEF HasLatest, Newer
    <3> QED
      BY <2>4, <3>1, <3>2, <3>3
  <2>10. \/ status = "none"
         \/ kitchen'[b] = status /\ TellsNoStatus(inbox'[b])
         \/ TellsLast(inbox'[b], status)
    <3>1. \/ status = "none"
          \/ kitchen[b] = status /\ TellsNoStatus(inbox[b])
          \/ TellsLast(inbox[b], status)
      BY <1>3, <2>8 DEF Abreast
    <3> QED
      BY <2>3, <2>4, <3>1
  <2> QED
    BY <1>1, <2>9, <2>10 DEF Abreast, Tells, TellsNoStatus, TellsLast
<1> QED
  BY <1>2, <1>3

LEMMA SubscribesKeepsAbreast ==
    ASSUME RInv, NEW b \in Browsers, UNCHANGED tvars,
           Subscribes(b, {retained[t] : t \in Tables} \ {Nothing}, {status} \ {"none"}),
           NEW c \in Browsers, Abreast(c)
    PROVE  Abreast(c)'
<1>1. UNCHANGED <<retained, status, view, kitchen>>
  BY DEF Subscribes, tvars, vars, kitchenVars
<1>2. CASE c # b
  <2>1. inbox'[c] = inbox[c] /\ subscribed'[c] = subscribed[c]
    BY <1>2 DEF Subscribes, RInv, WindowsTyped
  <2> QED
    BY <1>1, <2>1, UnmovedIsAbreast
<1>3. CASE c = b
  <2>1. /\ \A t \in Tables : retained[t] # Nothing => Tells(inbox'[b], retained[t])
        /\ status # "none" => TellsLast(inbox'[b], status)
    BY SubscriptionTells DEF RInv, TTypeOK
  <2>2. /\ \A t \in Tables : retained'[t] # Nothing => Tells(inbox'[b], retained'[t])
        /\ status' # "none" => TellsLast(inbox'[b], status')
    BY <1>1, <2>1
  <2> QED
    BY <1>3, <2>2 DEF Abreast, Tells, TellsNoStatus, TellsLast
<1> QED
  BY <1>2, <1>3

LEMMA StepKeepsAbreast ==
    ASSUME RInv, RInv', AllAbreast, [RNext]_rvars
    PROVE  AllAbreast'
<1> SUFFICES ASSUME NEW c \in Browsers
             PROVE  Abreast(c)'
  BY DEF AllAbreast
<1>1. Abreast(c)
  BY DEF AllAbreast
<1>2. CASE KitchenStep
  BY <1>1, <1>2, KitchenStepKeepsAbreast
<1>3. CASE BrokerStep
  <2>1. subscribed'[c] = FALSE
    BY <1>3 DEF BrokerStep, Lose
  <2> QED
    BY <2>1 DEF Abreast
<1>4. ASSUME NEW b \in Browsers, BrowserStep(b)
      PROVE  Abreast(c)'
  <2>1. UNCHANGED tvars
    BY <1>4 DEF BrowserStep
  <2>2. CASE OnMessage(b)
    BY <1>1, <2>1, <2>2, OnMessageKeepsAbreast
  <2>3. CASE Reconnects(b) \/ Connects(b)
    BY <1>1, <2>1, <2>3, UnmovedIsAbreast DEF Reconnects, Connects, tvars, vars, kitchenVars
  <2>4. CASE Subscribes(b, {retained[t] : t \in Tables} \ {Nothing}, {status} \ {"none"})
    BY <1>1, <2>1, <2>4, SubscribesKeepsAbreast
  <2> QED
    BY <1>4, <2>2, <2>3, <2>4 DEF BrowserStep
<1>5. ASSUME NEW b \in Browsers, BrowserLoses(b)
      PROVE  Abreast(c)'
  <2>1. UNCHANGED <<retained, status, view, kitchen>> /\ Lose({b})
    BY <1>5 DEF BrowserLoses, Lose, vars, kitchenVars
  <2>2. CASE c = b
    <3>1. subscribed'[c] = FALSE
      BY <2>1, <2>2 DEF Lose
    <3> QED
      BY <3>1 DEF Abreast
  <2>3. CASE c # b
    <3>1. inbox'[c] = inbox[c] /\ subscribed'[c] = subscribed[c]
      BY <2>1, <2>3 DEF Lose, RInv, WindowsTyped
    <3> QED
      BY <1>1, <2>1, <3>1, UnmovedIsAbreast
  <2> QED
    BY <2>2, <2>3
<1>6. CASE UNCHANGED rvars
  BY <1>1, <1>6, UnmovedIsAbreast DEF rvars, tvars, vars, kitchenVars, browserVars
<1> QED
  BY <1>2, <1>3, <1>4, <1>5, <1>6 DEF RNext

LEMMA AbreastHolds == RSpec => []AllAbreast
<1>1. RInit => AllAbreast
  <2> SUFFICES ASSUME RInit, NEW b \in Browsers
               PROVE  Abreast(b)
    BY DEF AllAbreast
  <2>1. subscribed[b] = FALSE
    BY DEF RInit, BrowserInit
  <2> QED
    BY <2>1 DEF Abreast
<1>2. RInv /\ RInv' /\ AllAbreast /\ [RNext]_rvars => AllAbreast'
  BY StepKeepsAbreast
<1> QED
  BY <1>1, <1>2, RInvHolds, PTL DEF RSpec

LEMMA QuietInv ==
    ASSUME RInv, AllAbreast, NEW b \in Browsers, Quiet(b)
    PROVE  CaughtUp(b)
<1>1. Abreast(b) /\ subscribed[b] /\ DOMAIN inbox[b] = {}
  BY NoElements DEF AllAbreast, Quiet
<1>2. ~ TellsLast(inbox[b], status) /\ \A t \in Tables : ~ Tells(inbox[b], retained[t])
  BY <1>1 DEF TellsLast, Tells
<1>3. connection[b] = "connected"
  BY <1>1 DEF RInv, WindowsTyped
<1> QED
  BY <1>1, <1>2, <1>3 DEF Abreast, HasLatest, CaughtUp

\* However many windows, tables and faults: a window that has read everything holds
\* every table as it is retained, or newer, and the retained status
\* (state.ts:20-46, stores.ts:84-89).
THEOREM QuietIsCaughtUp == RSpec => []QuietWindowsAreCaughtUp
<1>1. RInv /\ AllAbreast => QuietWindowsAreCaughtUp
  BY QuietInv DEF QuietWindowsAreCaughtUp
<1> QED
  BY <1>1, RInvHolds, AbreastHolds, PTL

\* What ShownTablesAreLive promises for the end, at every moment: once the Last Will of
\* a process has been spent, and unless the broker has lost its memory, a window that
\* has read everything shows no table (App.svelte:47-55, transport.py:107-139).
THEOREM DeadKitchensAreHidden ==
    RSpec => [](~ will /\ status # "none" =>
                    \A b \in Browsers : Quiet(b) => ~ ShowTables(b))
<1>1. ASSUME RInv, AllAbreast, TransportInv, ~ will, status # "none",
             NEW b \in Browsers, Quiet(b)
      PROVE  ~ ShowTables(b)
  <2>1. CaughtUp(b)
    BY <1>1, QuietInv
  <2>2. status # "ONLINE"
    BY <1>1 DEF TransportInv, Backed, OnlineIsBacked
  <2> QED
    BY <1>1, <2>1, <2>2 DEF CaughtUp, ShowTables
<1>2. RInv /\ AllAbreast /\ TransportInv =>
          (~ will /\ status # "none" =>
              \A b \in Browsers : Quiet(b) => ~ ShowTables(b))
  BY <1>1
<1> QED
  BY <1>2, RInvHolds, AbreastHolds, TransportInvHolds, PTL

-----------------------------------------------------------------------------
(* From the store to the screen *)

\* The histories change nothing of the restaurant.
LEMMA HistoryIsBeside == MCRestaurantSpec => RSpec
<1>1. MCRestaurantInit => RInit
  BY DEF MCRestaurantInit
<1>2. [MCRestaurantNext]_<<rvars, overtaken, past>> => [RNext]_rvars
  BY DEF MCRestaurantNext
<1> QED
  BY <1>1, <1>2, PTL DEF MCRestaurantSpec, RSpec

\* Beside any number of windows, the announcements repair all but the overtaken tables.
LEMMA RepairsHold == MCRestaurantSpec => []RepairInv
<1>1. MCRestaurantInit => RepairInv
  BY DEF MCRestaurantInit, RInit, TInit, RepairInv, InSession, BatchIsPresent, ResetIsQuiet,
         Idle
<1>2. RInv /\ RepairInv /\ [MCRestaurantNext]_<<rvars, overtaken, past>> => RepairInv'
  <2> SUFFICES ASSUME RInv, RepairInv, [MCRestaurantNext]_<<rvars, overtaken, past>>
               PROVE  RepairInv'
    OBVIOUS
  <2>1. TypeOK
    BY DEF RInv, TTypeOK
  <2>2. [RNext]_rvars /\ (MarkOvertaken \/ UNCHANGED <<rvars, overtaken, past>>)
    BY DEF MCRestaurantNext
  <2>3. UNCHANGED tvars => UNCHANGED <<vars, session>>
    BY DEF tvars, transportVars
  <2>4. UNCHANGED <<rvars, overtaken, past>> => UNCHANGED <<vars, session>> /\ UNCHANGED overtaken
    BY <2>3 DEF rvars
  <2>5. TNext \/ UNCHANGED <<vars, session>>
    BY <2>2, <2>3, RestaurantSteps
  <2> QED
    BY <2>1, <2>2, <2>4, <2>5, StepKeepsRepairs
<1> QED
  BY <1>1, <1>2, HistoryIsBeside, RInvHolds, PTL DEF MCRestaurantSpec

\* From end to end: while the kitchen serves over a working link, every window that has
\* read everything shows the very state of the store, for every table but those a reset
\* has yet to republish and the overtaken ones (app.py:78-84, state.ts:20-33).
THEOREM QuietShowsTheKitchen == MCRestaurantSpec => []QuietWindowsShowTheKitchen
<1>1. ASSUME RInv, AllAbreast, TransportInv, RepairInv, session = "serving", link = "up",
             NEW b \in Browsers, Quiet(b)
      PROVE  /\ kitchen[b] = "ONLINE"
             /\ \A t \in Tables \ Pending :
                    /\ t \in DOMAIN view[b]
                    /\ view[b][t].epoch = epoch
                    /\ t \notin overtaken => view[b][t] = Snapshot(t)
  <2>1. CaughtUp(b)
    BY <1>1, QuietInv
  <2>2. /\ status = "ONLINE"
        /\ \A t \in Tables \ Pending : retained[t] # Nothing /\ retained[t].epoch = epoch
    BY <1>1 DEF TransportInv, Greets, Reached, Current
  <2>3. kitchen[b] = "ONLINE"
    BY <1>1, <2>1, <2>2 DEF CaughtUp
  <2>4. epoch \in Nat
    BY <1>1, BoundsAssumption DEF RInv, TTypeOK, TypeOK, StoreTypeOK
  <2>5. \A t \in Tables : version[t] \in Nat
    BY <1>1 DEF RInv, TTypeOK, TypeOK, StoreTypeOK
  <2>6. ASSUME NEW t \in Tables \ Pending
        PROVE  /\ t \in DOMAIN view[b]
               /\ view[b][t].epoch = epoch
               /\ t \notin overtaken => view[b][t] = Snapshot(t)
    <3>1. t \in DOMAIN view[b] /\ (view[b][t] = retained[t] \/ Newer(view[b][t], retained[t]))
      BY <2>1, <2>2 DEF CaughtUp
    <3>2. view[b][t] \in Snapshots /\ view[b][t].table = t
      BY <1>1, <3>1 DEF RInv, WindowsTyped
    <3>3. /\ view[b][t].epoch < epoch \/ view[b][t].epoch = epoch
          /\ view[b][t].epoch = epoch => view[b][t].version <= version[t]
      <4>1. view[b][t] \in Circulating(t)
        BY <1>1, <3>1, CirculatingIs
      <4>2. \/ view[b][t].epoch < epoch
            \/ view[b][t].epoch = epoch /\ view[b][t].version <= version[t]
        BY <1>1, <3>2, <4>1 DEF RInv, VersionsNameStates
      <4>3. view[b][t].epoch \in Nat
        BY <3>2, SnapshotIs
      <4> QED
        BY <2>4, <4>2, <4>3
    <3>4. view[b][t].epoch = epoch
      BY <2>2, <2>4, <3>1, <3>2, <3>3, SnapshotIs DEF Newer
    <3>5. ASSUME t \notin overtaken
          PROVE  view[b][t] = Snapshot(t)
      <4>1. retained[t] = Snapshot(t)
        BY <1>1, <3>5 DEF RepairInv, InSession, Repaired
      <4>2. retained[t].version = version[t] /\ retained[t].epoch = epoch
        BY <4>1 DEF Snapshot
      <4>3. view[b][t].version \in Nat
        BY <3>2, SnapshotIs
      <4>4. version[t] \in Nat /\ view[b][t].version <= version[t]
        BY <2>5, <3>3, <3>4
      <4>5. ~ (view[b][t].version > version[t]) /\ ~ (view[b][t].epoch > epoch)
        BY <2>4, <3>4, <4>3, <4>4
      <4>6. ~ Newer(view[b][t], retained[t])
        BY <2>2, <4>2, <4>5 DEF Newer
      <4> QED
        BY <3>1, <4>1, <4>6
    <3> QED
      BY <3>1, <3>4, <3>5
  <2> QED
    BY <2>3, <2>6
<1>2. RInv /\ AllAbreast /\ TransportInv /\ RepairInv => QuietWindowsShowTheKitchen
  BY <1>1 DEF QuietWindowsShowTheKitchen
<1> QED
  BY <1>2, HistoryIsBeside, RInvHolds, AbreastHolds, TransportInvHolds, RepairsHold, PTL

-----------------------------------------------------------------------------
(* Windows follow the tables *)

\* What makes WindowsFollow inductive: whatever is about of a table is a state that it
\* has had, and the present one is later than all others.
PastIs ==
    /\ past = [t \in Tables |-> past[t]]
    /\ \A t \in Tables :
           /\ \A s \in Circulating(t) : s.table = t => s \in past[t]
           /\ \A r \in past[t] :
                  /\ r.epoch \in Nat /\ r.version \in Nat
                  /\ r = Snapshot(t) \/ Window!IsLater(Snapshot(t), r)

\* The history grows by the present state of each table, or not at all.
Remembers == \A t \in Tables : past'[t] = past[t] \cup {Snapshot(t)'}

LEMMA LaterIsTransitive ==
    ASSUME NEW q, NEW r, NEW s,
           q.epoch \in Nat /\ q.version \in Nat,
           r.epoch \in Nat /\ r.version \in Nat,
           s.epoch \in Nat /\ s.version \in Nat,
           Window!IsLater(s, r), Window!IsLater(r, q)
    PROVE  Window!IsLater(s, q)
BY DEF Window!IsLater

LEMMA PresentIsPast ==
    ASSUME PastIs, NEW t \in Tables
    PROVE  Snapshot(t) \in past[t]
<1>1. Snapshot(t) \in Circulating(t) /\ Snapshot(t).table = t
  BY CirculatingIs DEF Snapshot
<1> QED
  BY <1>1 DEF PastIs

LEMMA TableRemembers ==
    ASSUME PastIs, Remembers, NEW t \in Tables, StoreMoves(t)
    PROVE  /\ past'[t] = past[t] \/ Window!TableMoves(t)
           /\ \A r \in past'[t] :
                  /\ r.epoch \in Nat /\ r.version \in Nat
                  /\ r = Snapshot(t)' \/ Window!IsLater(Snapshot(t)', r)
<1> DEFINE now == Snapshot(t)
           new == Snapshot(t)'
<1>1. /\ now \in past[t] /\ past'[t] = past[t] \cup {new}
      /\ \A r \in past[t] : /\ r.epoch \in Nat /\ r.version \in Nat
                            /\ r = now \/ Window!IsLater(now, r)
  BY PresentIsPast DEF PastIs, Remembers
<1>2. /\ now.epoch = epoch /\ now.version = version[t]
      /\ new.epoch = epoch' /\ new.version = version'[t]
  BY DEF Snapshot
<1>3. /\ now.epoch \in Nat /\ now.version \in Nat
      /\ new.epoch \in Nat /\ new.version \in Nat
  BY <1>2 DEF StoreMoves
<1>4. CASE new = now
  <2>1. past'[t] = past[t]
    BY <1>1, <1>4
  <2> QED
    BY <1>1, <1>4, <2>1
<1>5. CASE new # now
  <2>1. Window!IsLater(new, now)
    BY <1>2, <1>5 DEF StoreMoves, Window!IsLater
  <2> HIDE DEF now, new
  <2>2. \A r \in past[t] : Window!IsLater(new, r)
    <3> SUFFICES ASSUME NEW r \in past[t]
                 PROVE  Window!IsLater(new, r)
      OBVIOUS
    <3>1. CASE r = now
      BY <2>1, <3>1
    <3>2. CASE Window!IsLater(now, r)
      BY <1>1, <1>3, <2>1, <3>2, LaterIsTransitive
    <3> QED
      BY <1>1, <3>1, <3>2
  <2>3. Window!TableMoves(t)
    BY <1>1, <2>2 DEF Window!TableMoves
  <2>4. \A r \in past'[t] : /\ r.epoch \in Nat /\ r.version \in Nat
                            /\ r = new \/ Window!IsLater(new, r)
    BY <1>1, <1>3, <2>2
  <2> QED
    BY <2>3, <2>4 DEF new
<1> QED
  BY <1>4, <1>5

LEMMA PastGoesOn ==
    ASSUME PastIs, Remembers, NothingInvented, past' = [t \in Tables |-> past'[t]],
           \A t \in Tables : StoreMoves(t)
    PROVE  PastIs' /\ \A t \in Tables : past'[t] = past[t] \/ Window!TableMoves(t)
<1>1. ASSUME NEW t \in Tables, NEW s \in Circulating(t)', s.table = t
      PROVE  s \in past'[t]
  <2>1. s \in Circulating(t) \/ s = Snapshot(t)'
    BY <1>1 DEF NothingInvented
  <2>2. s \in Circulating(t) => s \in past[t]
    BY <1>1 DEF PastIs
  <2>3. past'[t] = past[t] \cup {Snapshot(t)'}
    BY DEF Remembers
  <2> QED
    BY <2>1, <2>2, <2>3
<1>2. \A t \in Tables : /\ past'[t] = past[t] \/ Window!TableMoves(t)
                        /\ \A r \in past'[t] :
                               /\ r.epoch \in Nat /\ r.version \in Nat
                               /\ r = Snapshot(t)' \/ Window!IsLater(Snapshot(t)', r)
  BY TableRemembers
<1>3. PastIs'
  BY <1>1, <1>2 DEF PastIs
<1> QED
  BY <1>2, <1>3

\* What every step does to the history.
LEMMA StepRemembers ==
    ASSUME RInv, PastIs, [MCRestaurantNext]_<<rvars, overtaken, past>>
    PROVE  /\ MovesOn
           /\ PastIs'
           /\ \A t \in Tables : past'[t] = past[t] \/ Window!TableMoves(t)
           /\ UNCHANGED storeVars => past' = past
<1>1. [RNext]_rvars
  BY DEF MCRestaurantNext
<1>2. MovesOn
  BY <1>1, RStepMovesOn
<1>3. TypeOK /\ TypeOK' /\ StoreTypeOK /\ StoreTypeOK'
  BY <1>2 DEF MovesOn, RInv, TTypeOK, TypeOK
<1>4. [StoreNext]_storeVars
  <2>1. UNCHANGED <<vars, session, will>> => UNCHANGED storeVars
    BY DEF vars
  <2> QED
    BY <1>1, <1>3, <2>1, RestaurantSteps, TransportUsesStore
<1>5. \A t \in Tables : StoreMoves(t)
  BY <1>3, <1>4, StoreMovesForward
<1>6. UNCHANGED storeVars => \A t \in Tables : Snapshot(t)' = Snapshot(t)
  BY DEF storeVars, Snapshot
<1>7. \A t \in Tables : past[t] = past[t] \cup {Snapshot(t)}
  BY PresentIsPast
<1>8. past = [t \in Tables |-> past[t]]
  BY DEF PastIs
<1>9. Remembers /\ past' = [t \in Tables |-> past'[t]]
  <2>1. CASE MarkPast
    BY <2>1 DEF MarkPast, Remembers
  <2>2. CASE UNCHANGED <<rvars, overtaken, past>>
    <3>1. past' = past /\ UNCHANGED storeVars
      BY <2>2 DEF rvars, tvars, vars
    <3> QED
      BY <1>6, <1>7, <1>8, <3>1 DEF Remembers
  <2> QED
    BY <2>1, <2>2 DEF MCRestaurantNext
<1>10. ASSUME UNCHANGED storeVars
       PROVE  past' = past
  <2>1. \A t \in Tables : past'[t] = past[t]
    BY <1>6, <1>7, <1>9, <1>10 DEF Remembers
  <2> QED
    BY <1>8, <1>9, <2>1
<1>11. PastIs' /\ \A t \in Tables : past'[t] = past[t] \/ Window!TableMoves(t)
  BY <1>2, <1>5, <1>9, PastGoesOn DEF MovesOn
<1> QED
  BY <1>2, <1>10, <1>11

\* A step of a window shows states that its tables have had, none older than it showed.
LEMMA BrowserStepFollows ==
    ASSUME RInv, PastIs, MovesOn, PastIs', past' = past, NEW b \in Browsers, BrowserStep(b)
    PROVE  Window!WindowFollows(b)
<1>1. \A c \in Browsers \ {b} : view'[c] = view[c]
  BY DEF BrowserStep, OnMessage, Reconnects, Connects, Subscribes, RInv, WindowsTyped
<1>2. ASSUME NEW t \in DOMAIN view[b]
      PROVE  /\ t \in DOMAIN view'[b]
             /\ view'[b][t] = view[b][t] \/ Window!IsLater(view'[b][t], view[b][t])
  <2>1. view[b][t] # Nothing
    BY NothingIsNoSnapshot DEF RInv, WindowsTyped
  <2> QED
    BY <2>1 DEF MovesOn, Newer, Window!IsLater
<1>3. ASSUME NEW t \in DOMAIN view'[b]
      PROVE  t \in Tables /\ view'[b][t] \in past[t]
  <2>1. t \in Tables /\ view'[b][t].table = t
    BY DEF MovesOn, RInv, WindowsTyped
  <2>2. view'[b][t] \in Circulating(t)'
    BY CirculatingIs
  <2>3. view'[b][t] \in past'[t]
    BY <2>1, <2>2 DEF PastIs
  <2> QED
    BY <2>1, <2>3
<1> QED
  BY <1>1, <1>2, <1>3 DEF Window!WindowFollows

LEMMA StepFollows ==
    ASSUME RInv, PastIs, [MCRestaurantNext]_<<rvars, overtaken, past>>
    PROVE  PastIs' /\ [Window!FollowerNext]_<<past, view>>
<1>1. /\ MovesOn /\ PastIs'
      /\ \A t \in Tables : past'[t] = past[t] \/ Window!TableMoves(t)
      /\ UNCHANGED storeVars => past' = past
  BY StepRemembers
<1>2. UNCHANGED view => Window!KitchenMoves
  BY <1>1 DEF Window!KitchenMoves
<1>3. CASE KitchenStep \/ BrokerStep \/ \E b \in Browsers : BrowserLoses(b)
  <2>1. UNCHANGED view
    BY <1>3 DEF KitchenStep, BrokerStep, BrowserLoses, Lose
  <2> QED
    BY <1>1, <1>2, <2>1 DEF Window!FollowerNext
<1>4. ASSUME NEW b \in Browsers, BrowserStep(b)
      PROVE  Window!WindowFollows(b)
  <2>1. past' = past
    BY <1>1, <1>4 DEF BrowserStep, tvars, vars
  <2> QED
    BY <1>1, <1>4, <2>1, BrowserStepFollows
<1>5. CASE UNCHANGED <<rvars, overtaken, past>>
  BY <1>1, <1>5 DEF rvars, browserVars
<1> QED
  BY <1>1, <1>3, <1>4, <1>5 DEF MCRestaurantNext, RNext, Window!FollowerNext

\* The whole restaurant implements Follower: through every fault, restart and
\* reconnection, each window shows only states that the store has really had, and in
\* their order (state.ts:20-46, kitchen.py:102-112).
THEOREM WindowsFollowTheTables == MCRestaurantSpec => WindowsFollow
<1>1. MCRestaurantInit => Window!FollowerInit /\ PastIs
  <2> SUFFICES ASSUME MCRestaurantInit
               PROVE  Window!FollowerInit /\ PastIs
    OBVIOUS
  <2>1. \A t \in Tables : past[t] = {Snapshot(t)}
    BY DEF MCRestaurantInit
  <2>2. \A b \in Browsers : view[b] = << >> /\ inbox[b] = << >>
    BY DEF MCRestaurantInit, RInit, BrowserInit
  <2>3. Window!FollowerInit
    BY <2>1, <2>2, NoElements DEF Window!FollowerInit
  <2>4. \A t \in Tables : \A s \in Circulating(t) : s = Snapshot(t)
    <3>1. main = Idle /\ \A t \in Tables : retained[t] = Nothing
      BY DEF MCRestaurantInit, RInit, TInit
    <3>2. main.at # "publishing"
      BY <3>1 DEF Idle
    <3> QED
      BY <2>2, <3>1, <3>2, NoElements, CirculatingIs
  <2>5. \A t \in Tables : Snapshot(t).epoch \in Nat /\ Snapshot(t).version \in Nat
    BY DEF MCRestaurantInit, RInit, TInit, StoreInit, Snapshot
  <2>6. past = [t \in Tables |-> past[t]]
    BY DEF MCRestaurantInit
  <2> QED
    BY <2>1, <2>3, <2>4, <2>5, <2>6 DEF PastIs
<1>2. RInv /\ PastIs /\ [MCRestaurantNext]_<<rvars, overtaken, past>> =>
          PastIs' /\ [Window!FollowerNext]_<<past, view>>
  BY StepFollows
<1> QED
  BY <1>1, <1>2, HistoryIsBeside, RInvHolds, PTL
     DEF MCRestaurantSpec, WindowsFollow, Window!FollowerSpec
=============================================================================
