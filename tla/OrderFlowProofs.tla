-------------------------- MODULE OrderFlowProofs --------------------------
(***************************************************************************)
(* Theorems about OrderFlow, for every number of tables, requests and lost *)
(* connections: what a waiting form waits for, and how many orders it has  *)
(* on their way.                                                           *)
(***************************************************************************)
EXTENDS OrderFlow, SequenceTheorems, TLAPS

Requests(n) ==
    [target : Tables \cup {Reset}, dialog : 0..n,
     packet : {"stored", "received", "acknowledged"},
     promise : {"pending", "resolved", "rejected"}]

IsReset(k) == requests[k].target = Reset

\* Orders are made in dialogs, resets outside of them.
MadeInDialogs ==
    /\ \A k \in DOMAIN requests : IsReset(k) <=> requests[k].dialog = 0
    /\ activeTable # NoTable => dialogs > 0

\* An order from an earlier dialog than the n-th has failed.
FailedBefore(n) ==
    \E m \in DOMAIN requests :
        ~ IsReset(m) /\ requests[m].dialog < n /\ requests[m].promise = "rejected"

\* An open form that does not wait has no order on its way, unless the failure of
\* an earlier dialog's order has woken it up.
QuietFormIsSettled ==
    activeTable # NoTable /\ ~ submitting =>
        \A j \in DOMAIN requests :
            Pending(j) /\ requests[j].dialog = dialogs => FailedBefore(dialogs)

FlowInv == FlowTypeOK /\ MadeInDialogs /\ WaitsAreOwed /\ OneOrderAtATime /\ QuietFormIsSettled

-----------------------------------------------------------------------------
(* What a step does to the requests *)

\* The same requests were made for the same; a promise may be settled.
Same(old, new) ==
    /\ new.target = old.target
    /\ new.dialog = old.dialog

\* Every request but k is as before, but for the place of its packet.
OnlyTouches(K) ==
    /\ DOMAIN requests' = DOMAIN requests
    /\ \A j \in DOMAIN requests : Same(requests[j], requests'[j])
    /\ \A j \in DOMAIN requests \ K : requests'[j].promise = requests[j].promise

LEMMA RequestsAreTyped ==
    ASSUME FlowTypeOK
    PROVE  /\ DOMAIN requests = 1..Len(requests)
           /\ Len(requests) \in Nat
           /\ dialogs \in Nat
           /\ \A k \in DOMAIN requests : requests[k] \in Requests(dialogs)
<1>1. requests \in Seq(Requests(dialogs)) /\ dialogs \in 0..MaxRequests
  BY DEF FlowTypeOK, Requests
<1>2. dialogs \in Nat
  BY <1>1, RequestsAssumption
<1> QED
  BY <1>1, <1>2, LenProperties, ElementOfSeq

LEMMA TypedRequests ==
    ASSUME FlowTypeOK, DOMAIN requests' = DOMAIN requests, dialogs' = dialogs,
           requests' = [k \in DOMAIN requests |-> requests'[k]],
           \A k \in DOMAIN requests : requests'[k] \in Requests(dialogs)
    PROVE  requests' \in Seq(Requests(dialogs'))
<1>1. DOMAIN requests = 1..Len(requests) /\ Len(requests) \in Nat
  BY RequestsAreTyped
<1> QED
  BY <1>1

LEMMA ReceivedTouches ==
    ASSUME FlowTypeOK, NEW k \in DOMAIN requests, Received(k)
    PROVE  OnlyTouches({}) /\ FlowTypeOK'
<1>1. requests[k] \in Requests(dialogs)
  BY RequestsAreTyped
<1>2. OnlyTouches({})
  BY <1>1 DEF Received, OnlyTouches, Same, Requests
<1>3. \A j \in DOMAIN requests : requests'[j] \in Requests(dialogs)
  BY RequestsAreTyped DEF Received, Requests
<1>4. requests' \in Seq(Requests(dialogs'))
  BY <1>2, <1>3, TypedRequests DEF Received, OnlyTouches
<1> QED
  BY <1>2, <1>4 DEF Received, FlowTypeOK, Requests, formVars, worldVars

LEMMA AcknowledgedTouches ==
    ASSUME FlowTypeOK, NEW k \in DOMAIN requests, Acknowledged(k)
    PROVE  /\ OnlyTouches({k}) /\ FlowTypeOK'
           /\ requests'[k].promise =
                  IF Pending(k) THEN "resolved" ELSE requests[k].promise
<1>1. requests[k] \in Requests(dialogs)
  BY RequestsAreTyped
<1>2. OnlyTouches({k})
  BY <1>1 DEF Acknowledged, OnlyTouches, Same, Requests
<1>3. requests'[k].promise = IF Pending(k) THEN "resolved" ELSE requests[k].promise
  BY <1>1 DEF Acknowledged, Requests, Pending
<1>4. \A j \in DOMAIN requests : requests'[j] \in Requests(dialogs)
  BY RequestsAreTyped DEF Acknowledged, Requests
<1>5. requests' \in Seq(Requests(dialogs'))
  BY <1>2, <1>4, TypedRequests DEF Acknowledged, OnlyTouches
<1>6. activeTable' \in Tables \cup {NoTable}
      /\ {submitting, error, resetting, connected, online}' \subseteq BOOLEAN
  BY DEF Acknowledged, Succeeds, FlowTypeOK, formVars, worldVars
<1> QED
  BY <1>2, <1>3, <1>5, <1>6 DEF Acknowledged, FlowTypeOK, Requests, worldVars

LEMMA TimesOutTouches ==
    ASSUME FlowTypeOK, NEW k \in DOMAIN requests, TimesOut(k)
    PROVE  OnlyTouches({k}) /\ FlowTypeOK' /\ requests'[k].promise = "rejected"
<1>1. requests[k] \in Requests(dialogs)
  BY RequestsAreTyped
<1>2. OnlyTouches({k}) /\ requests'[k].promise = "rejected"
  BY <1>1 DEF TimesOut, OnlyTouches, Same, Requests
<1>4. \A j \in DOMAIN requests : requests'[j] \in Requests(dialogs)
  BY RequestsAreTyped DEF TimesOut, Requests
<1>5. requests' \in Seq(Requests(dialogs'))
  BY <1>2, <1>4, TypedRequests DEF TimesOut, OnlyTouches
<1>6. activeTable' \in Tables \cup {NoTable}
      /\ {submitting, error, resetting, connected, online}' \subseteq BOOLEAN
  BY DEF TimesOut, Fails, FlowTypeOK, formVars, worldVars
<1> QED
  BY <1>2, <1>5, <1>6 DEF TimesOut, FlowTypeOK, Requests, worldVars

LEMMA WorldTouches ==
    ASSUME FlowTypeOK, WorldChanges
    PROVE  OnlyTouches({}) /\ FlowTypeOK'
<1>1. OnlyTouches({})
  BY RequestsAreTyped DEF WorldChanges, StoreIsKept, OnlyTouches, Same, Requests
<1>2. \A j \in DOMAIN requests : requests'[j] \in Requests(dialogs)
  BY RequestsAreTyped DEF WorldChanges, StoreIsKept, Requests
<1>3. requests' = [j \in DOMAIN requests |-> requests'[j]]
  BY RequestsAreTyped DEF WorldChanges, StoreIsKept, FlowTypeOK
<1>4. requests' \in Seq(Requests(dialogs'))
  BY <1>1, <1>2, <1>3, TypedRequests DEF WorldChanges, OnlyTouches
<1>5. changes' \in 0..MaxChanges
  BY RequestsAssumption DEF WorldChanges, FlowTypeOK
<1>6. connected' \in BOOLEAN /\ online' \in BOOLEAN
  BY DEF WorldChanges, FlowTypeOK
<1> QED
  BY <1>1, <1>4, <1>5, <1>6 DEF WorldChanges, FlowTypeOK, Requests, formVars

\* What speaks of targets and dialogs alone is not touched.
LEMMA TouchedRequests ==
    ASSUME NEW K, OnlyTouches(K)
    PROVE  /\ \A j \in DOMAIN requests : IsReset(j)' <=> IsReset(j)
           /\ \A j \in DOMAIN requests \ K : Pending(j)' <=> Pending(j)
           /\ \A j \in DOMAIN requests : requests'[j].dialog = requests[j].dialog
           /\ \A j \in DOMAIN requests : requests'[j].target = requests[j].target
           /\ DOMAIN requests' = DOMAIN requests
BY DEF OnlyTouches, Same, IsReset, Pending

-----------------------------------------------------------------------------
(* The steps *)

\* Steps that settle nothing.
LEMMA NothingSettled ==
    ASSUME FlowInv, OnlyTouches({}), UNCHANGED <<submitting, resetting, dialogs>>,
           activeTable' \in {activeTable, NoTable}
    PROVE  MadeInDialogs' /\ WaitsAreOwed' /\ OneOrderAtATime' /\ QuietFormIsSettled'
<1>1. \A j \in DOMAIN requests : requests'[j].promise = requests[j].promise
  BY DEF OnlyTouches
<1>2. MadeInDialogs'
  BY TouchedRequests DEF FlowInv, MadeInDialogs
<1>3. WaitsAreOwed'
  BY TouchedRequests DEF FlowInv, WaitsAreOwed
<1>4. OneOrderAtATime'
  BY <1>1, TouchedRequests DEF FlowInv, OneOrderAtATime
<1>5. QuietFormIsSettled'
  BY <1>1, TouchedRequests DEF FlowInv, QuietFormIsSettled, FailedBefore
<1> QED
  BY <1>2, <1>3, <1>4, <1>5

\* A promise is settled: the order's form is told, or the reset button.
LEMMA AnswerKeepsInv ==
    ASSUME FlowInv, NEW k \in DOMAIN requests, Pending(k), OnlyTouches({k}), ~ Pending(k)',
           UNCHANGED dialogs,
           \/ Succeeds(k) /\ requests'[k].promise = "resolved"
           \/ Fails(k) /\ requests'[k].promise = "rejected"
    PROVE  MadeInDialogs' /\ WaitsAreOwed' /\ OneOrderAtATime' /\ QuietFormIsSettled'
<1>0. activeTable' \in {activeTable, NoTable}
  BY DEF Succeeds, Fails, formVars
<1>1. MadeInDialogs'
  BY <1>0, TouchedRequests DEF FlowInv, MadeInDialogs
<1>2. \A j \in DOMAIN requests : Pending(j)' => Pending(j) /\ j # k
  BY TouchedRequests
<1>3. \A m \in DOMAIN requests :
          requests[m].promise = "rejected" => requests'[m].promise = "rejected"
  BY DEF OnlyTouches, Pending
<1>4. \A n \in Nat : FailedBefore(n) => FailedBefore(n)'
  BY <1>3, TouchedRequests DEF FailedBefore
<1>5. OneOrderAtATime'
  BY <1>2, <1>3, TouchedRequests DEF FlowInv, OneOrderAtATime
<1>6. CASE IsReset(k)
  <2>1. UNCHANGED formVars /\ resetting' = FALSE
    BY <1>6 DEF Succeeds, Fails, IsReset
  <2>2. \A j \in DOMAIN requests : Pending(j) /\ IsReset(j) => j = k
    BY <1>6 DEF FlowInv, WaitsAreOwed, IsReset
  <2>3. requests[k].dialog = 0
    BY <1>6 DEF FlowInv, MadeInDialogs
  <2>4. activeTable # NoTable => k \notin {j \in DOMAIN requests : requests[j].dialog = dialogs}
    BY <2>3, RequestsAreTyped DEF FlowInv, MadeInDialogs
  <2>5. WaitsAreOwed'
    BY <1>2, <2>1, <2>2, <2>4, TouchedRequests DEF FlowInv, WaitsAreOwed, formVars, IsReset
  <2>6. QuietFormIsSettled'
    BY <1>2, <1>4, <2>1, TouchedRequests, RequestsAreTyped
    DEF FlowInv, QuietFormIsSettled, formVars
  <2> QED
    BY <1>1, <1>5, <2>5, <2>6
<1>7. CASE ~ IsReset(k)
  <2>1. submitting' = FALSE /\ UNCHANGED resetting
    BY <1>7 DEF Succeeds, Fails, IsReset
  <2>2. WaitsAreOwed'
    BY <1>2, <1>7, <2>1, TouchedRequests DEF FlowInv, WaitsAreOwed, IsReset
  <2>3. CASE activeTable' = NoTable
    BY <1>1, <1>5, <2>2, <2>3 DEF QuietFormIsSettled
  <2>4. CASE activeTable' # NoTable
    <3>1. requests'[k].promise = "rejected" /\ activeTable # NoTable
      BY <1>0, <1>7, <2>4 DEF Succeeds, Fails, IsReset
    <3>2. SUFFICES ASSUME NEW j \in DOMAIN requests, Pending(j)', requests'[j].dialog = dialogs
                   PROVE  FailedBefore(dialogs)'
      BY <1>1, <1>5, <2>2, TouchedRequests DEF QuietFormIsSettled
    <3>3. Pending(j) /\ j # k /\ requests[j].dialog = dialogs /\ ~ IsReset(j)
      BY <1>2, <3>1, <3>2, TouchedRequests, RequestsAreTyped DEF FlowInv, MadeInDialogs
    <3>4. CASE requests[k].dialog = dialogs
      <4>1. j < k \/ k < j
        BY <3>3, RequestsAreTyped DEF FlowInv
      <4>2. FailedBefore(dialogs)
        BY <1>7, <3>3, <3>4, <4>1 DEF FlowInv, OneOrderAtATime, IsReset, FailedBefore
      <4> QED
        BY <1>4, <4>2, RequestsAreTyped DEF FlowInv
    <3>5. CASE requests[k].dialog # dialogs
      <4>1. requests[k].dialog < dialogs
        BY <3>5, RequestsAreTyped DEF FlowInv, Requests
      <4> QED
        BY <1>7, <3>1, <4>1, TouchedRequests DEF FailedBefore
    <3> QED
      BY <3>4, <3>5
  <2> QED
    BY <2>3, <2>4
<1> QED
  BY <1>6, <1>7

\* A request is made.
LEMMA RequestedGrows ==
    ASSUME FlowTypeOK, NEW target \in Tables \cup {Reset}, NEW n \in 0..dialogs,
           Len(requests) < MaxRequests, UNCHANGED dialogs,
           requests' = Append(requests, Request(target, n))
    PROVE  LET k == Len(requests) + 1
           IN  /\ DOMAIN requests' = DOMAIN requests \cup {k}
               /\ k \notin DOMAIN requests
               /\ k \in Nat /\ \A j \in DOMAIN requests : j < k
               /\ \A j \in DOMAIN requests : requests'[j] = requests[j]
               /\ requests'[k].target = target /\ requests'[k].dialog = n
               /\ requests'[k].promise = "pending"
               /\ requests' \in Seq(Requests(dialogs'))
<1>1. Request(target, n) \in Requests(dialogs)
  BY DEF Request, Requests
<1>2. requests \in Seq(Requests(dialogs))
  BY DEF FlowTypeOK, Requests
<1>3. /\ requests' \in Seq(Requests(dialogs))
      /\ Len(requests') = Len(requests) + 1
      /\ \A j \in 1..Len(requests) : requests'[j] = requests[j]
      /\ requests'[Len(requests) + 1] = Request(target, n)
  BY <1>1, <1>2, AppendProperties
<1>4. DOMAIN requests' = 1..(Len(requests) + 1)
  BY <1>3, LenProperties
<1> QED
  BY <1>3, <1>4, RequestsAreTyped DEF Request

LEMMA SubmitKeepsInv ==
    ASSUME FlowInv, Submit
    PROVE  FlowInv'
<1> DEFINE k == Len(requests) + 1
<1>1. activeTable \in Tables /\ dialogs \in 0..dialogs /\ dialogs > 0 /\ activeTable # Reset
  BY RequestsAreTyped, TablesAssumption DEF FlowInv, Submit, FlowTypeOK, MadeInDialogs
<1>2. /\ DOMAIN requests' = DOMAIN requests \cup {k}
      /\ k \notin DOMAIN requests
      /\ k \in Nat /\ \A j \in DOMAIN requests : j < k
      /\ \A j \in DOMAIN requests : requests'[j] = requests[j]
      /\ requests'[k].target = activeTable /\ requests'[k].dialog = dialogs
      /\ requests'[k].promise = "pending"
      /\ requests' \in Seq(Requests(dialogs'))
  BY <1>1, RequestedGrows DEF Submit, FlowInv
<1>3. UNCHANGED <<activeTable, error, resetting, dialogs, worldVars>> /\ submitting' = TRUE
  BY DEF Submit
<1>4. FlowTypeOK'
  BY <1>2, <1>3 DEF FlowInv, FlowTypeOK, Requests, worldVars
<1> HIDE DEF k
<1>5. MadeInDialogs'
  BY <1>1, <1>2, <1>3 DEF FlowInv, MadeInDialogs, IsReset
<1>6. WaitsAreOwed'
  BY <1>1, <1>2, <1>3 DEF FlowInv, WaitsAreOwed, Pending
<1>7. \A n : FailedBefore(n) => FailedBefore(n)'
  BY <1>2 DEF FailedBefore, IsReset
<1>8. \A j \in DOMAIN requests : Pending(j) /\ requests[j].dialog = dialogs =>
          FailedBefore(dialogs)'
  BY <1>7 DEF FlowInv, QuietFormIsSettled, Submit
<1>9. OneOrderAtATime'
  <2>1. SUFFICES ASSUME NEW j \in DOMAIN requests', NEW i \in DOMAIN requests',
                        j < i, requests'[j].target # Reset,
                        requests'[j].dialog = requests'[i].dialog, Pending(j)'
                 PROVE  \E m \in DOMAIN requests' :
                            /\ requests'[m].target # Reset
                            /\ requests'[m].dialog < requests'[j].dialog
                            /\ requests'[m].promise = "rejected"
    BY DEF OneOrderAtATime
  <2>2. j \in DOMAIN requests
    BY <1>2, <2>1, RequestsAreTyped DEF FlowInv
  <2>3. CASE i = k
    BY <1>2, <1>3, <1>8, <2>1, <2>2, <2>3 DEF Pending, FailedBefore, IsReset
  <2>4. CASE i \in DOMAIN requests
    BY <1>2, <2>1, <2>2, <2>4 DEF FlowInv, OneOrderAtATime, Pending
  <2> QED
    BY <1>2, <2>3, <2>4
<1>10. QuietFormIsSettled'
  BY <1>3 DEF QuietFormIsSettled
<1> QED
  BY <1>4, <1>5, <1>6, <1>9, <1>10 DEF FlowInv

LEMMA RequestResetKeepsInv ==
    ASSUME FlowInv, RequestReset
    PROVE  FlowInv'
<1> DEFINE k == Len(requests) + 1
<1>1. 0 \in 0..dialogs
  BY RequestsAreTyped DEF FlowInv
<1>2. /\ DOMAIN requests' = DOMAIN requests \cup {k}
      /\ k \notin DOMAIN requests
      /\ k \in Nat /\ \A j \in DOMAIN requests : j < k
      /\ \A j \in DOMAIN requests : requests'[j] = requests[j]
      /\ requests'[k].target = Reset /\ requests'[k].dialog = 0
      /\ requests'[k].promise = "pending"
      /\ requests' \in Seq(Requests(dialogs'))
  BY <1>1, RequestedGrows DEF RequestReset, FlowInv
<1>3. /\ UNCHANGED <<activeTable, submitting, error, dialogs, worldVars>>
      /\ resetting' = TRUE /\ ~ resetting /\ activeTable = NoTable
  BY DEF RequestReset, formVars
<1>4. FlowTypeOK'
  BY <1>2, <1>3 DEF FlowInv, FlowTypeOK, Requests, worldVars
<1> HIDE DEF k
<1>5. MadeInDialogs'
  BY <1>2, <1>3 DEF FlowInv, MadeInDialogs, IsReset
<1>6. WaitsAreOwed'
  BY <1>2, <1>3 DEF FlowInv, WaitsAreOwed, Pending
<1>7. OneOrderAtATime'
  <2>1. SUFFICES ASSUME NEW j \in DOMAIN requests', NEW i \in DOMAIN requests',
                        j < i, requests'[j].target # Reset,
                        requests'[j].dialog = requests'[i].dialog, Pending(j)'
                 PROVE  \E m \in DOMAIN requests' :
                            /\ requests'[m].target # Reset
                            /\ requests'[m].dialog < requests'[j].dialog
                            /\ requests'[m].promise = "rejected"
    BY DEF OneOrderAtATime
  <2>2. j \in DOMAIN requests /\ i \in DOMAIN requests
    BY <1>2, <2>1 DEF FlowInv, MadeInDialogs, IsReset
  <2> QED
    BY <1>2, <2>1, <2>2 DEF FlowInv, OneOrderAtATime, Pending
<1>8. QuietFormIsSettled'
  BY <1>3 DEF QuietFormIsSettled
<1> QED
  BY <1>4, <1>5, <1>6, <1>7, <1>8 DEF FlowInv

LEMMA OpenKeepsInv ==
    ASSUME FlowInv, NEW t \in Tables, Open(t)
    PROVE  FlowInv'
<1>1. /\ activeTable' = t /\ submitting' = FALSE /\ error' = FALSE
      /\ dialogs' = dialogs + 1 /\ dialogs \in Nat /\ dialogs' \in 0..MaxRequests
      /\ UNCHANGED <<resetting, requests, worldVars>>
  BY RequestsAreTyped, RequestsAssumption DEF FlowInv, Open
<1>2. requests \in Seq(Requests(dialogs))
  BY DEF FlowInv, FlowTypeOK, Requests
<1>3. Requests(dialogs) \subseteq Requests(dialogs')
  BY <1>1 DEF Requests
<1>4. requests' \in Seq(Requests(dialogs'))
  BY <1>1, <1>2, <1>3
<1>5. FlowTypeOK'
  BY <1>1, <1>4 DEF FlowInv, FlowTypeOK, Requests, worldVars
<1>6. \A j \in DOMAIN requests : requests[j].dialog # dialogs'
  BY <1>1, RequestsAreTyped DEF FlowInv, Requests
<1>7. MadeInDialogs' /\ WaitsAreOwed' /\ OneOrderAtATime'
  BY <1>1 DEF FlowInv, MadeInDialogs, WaitsAreOwed, OneOrderAtATime, IsReset, Pending
<1>8. QuietFormIsSettled'
  BY <1>1, <1>6 DEF QuietFormIsSettled
<1> QED
  BY <1>5, <1>7, <1>8 DEF FlowInv

LEMMA StepKeepsFlowInv ==
    ASSUME FlowInv, [FlowNext]_flowVars
    PROVE  FlowInv'
<1>1. CASE Close \/ SubmitInvalid \/ UNCHANGED flowVars
  <2>1. /\ UNCHANGED <<submitting, resetting, requests, dialogs, worldVars>>
        /\ activeTable' \in {activeTable, NoTable} /\ error' \in {error, TRUE}
    BY <1>1 DEF Close, SubmitInvalid, flowVars, formVars
  <2>2. OnlyTouches({})
    BY <2>1 DEF OnlyTouches, Same
  <2>3. FlowTypeOK'
    BY <2>1 DEF FlowInv, FlowTypeOK, worldVars
  <2> QED
    BY <2>1, <2>2, <2>3, NothingSettled DEF FlowInv
<1>2. ASSUME NEW k \in DOMAIN requests, Received(k)
      PROVE  FlowInv'
  BY <1>2, ReceivedTouches, NothingSettled DEF FlowInv, Received, formVars
<1>3. ASSUME NEW k \in DOMAIN requests, Acknowledged(k)
      PROVE  FlowInv'
  <2>1. OnlyTouches({k}) /\ FlowTypeOK' /\ UNCHANGED dialogs
    BY <1>3, AcknowledgedTouches DEF FlowInv, Acknowledged
  <2>2. CASE Pending(k)
    <3>1. Succeeds(k) /\ requests'[k].promise = "resolved"
      BY <1>3, <2>2, AcknowledgedTouches DEF FlowInv, Acknowledged
    <3> QED
      BY <2>1, <2>2, <3>1, AnswerKeepsInv DEF FlowInv, Pending
  <2>3. CASE ~ Pending(k)
    <3>1. UNCHANGED <<formVars, resetting>> /\ requests'[k].promise = requests[k].promise
      BY <1>3, <2>3, AcknowledgedTouches DEF FlowInv, Acknowledged
    <3>2. OnlyTouches({})
      BY <2>1, <3>1 DEF OnlyTouches
    <3> QED
      BY <2>1, <3>1, <3>2, NothingSettled DEF FlowInv, formVars
  <2> QED
    BY <2>2, <2>3
<1>4. ASSUME NEW k \in DOMAIN requests, TimesOut(k)
      PROVE  FlowInv'
  BY <1>4, TimesOutTouches, AnswerKeepsInv DEF FlowInv, TimesOut, Pending
<1>5. CASE WorldChanges
  BY <1>5, WorldTouches, NothingSettled DEF FlowInv, WorldChanges, formVars
<1> QED
  BY <1>1, <1>2, <1>3, <1>4, <1>5, OpenKeepsInv, SubmitKeepsInv, RequestResetKeepsInv
  DEF FlowNext, User

LEMMA FlowInvHolds == FlowSpec => []FlowInv
<1>1. FlowInit => FlowInv
  <2> SUFFICES ASSUME FlowInit
               PROVE  FlowInv
    OBVIOUS
  <2>1. requests \in Seq(Requests(0))
    BY EmptySeq DEF FlowInit
  <2>2. dialogs = 0 /\ changes = 0 /\ dialogs \in 0..MaxRequests /\ changes \in 0..MaxChanges
    BY RequestsAssumption DEF FlowInit
  <2>3. FlowTypeOK
    BY <2>1, <2>2 DEF FlowInit, FlowTypeOK, Requests
  <2>4. \A k : k \notin DOMAIN requests
    BY <2>3, RequestsAreTyped, EmptySeq DEF FlowInit
  <2> QED
    BY <2>3, <2>4 DEF FlowInit, FlowInv, MadeInDialogs, WaitsAreOwed, OneOrderAtATime,
                      QuietFormIsSettled
<1> QED
  BY <1>1, StepKeepsFlowInv, PTL DEF FlowSpec

-----------------------------------------------------------------------------

\* The window keeps its types.
THEOREM FlowTypeCorrect == FlowSpec => []FlowTypeOK
BY FlowInvHolds, PTL DEF FlowInv

\* No form and no button is disabled for nothing, whatever late answers arrive
\* (OrderDialog.svelte:47-56, App.svelte:72-88).
THEOREM WaitsStayOwed == FlowSpec => []WaitsAreOwed
BY FlowInvHolds, PTL DEF FlowInv

\* A form sends its orders one at a time, unless the failure of an earlier one wakes
\* it (OrderDialog.svelte:47-56, 71-83).
THEOREM OrdersGoOneByOne == FlowSpec => []OneOrderAtATime
BY FlowInvHolds, PTL DEF FlowInv
=============================================================================
