-------------------------------- MODULE Wire --------------------------------
(***************************************************************************)
(* The way of an order over the wire, and of its refusal back: validation  *)
(* in the window (state.ts) and in the kitchen (models.py), the order of   *)
(* the kitchen's checks (kitchen.py), the author's private topic, and the  *)
(* notices a window shows (dispatch.ts, types.ts, stores.ts).              *)
(*                                                                         *)
(* Orders come from windows or from other programs on the broker.  A QoS 1 *)
(* publish arrives at least once.  A refusal is not retained: it is lost   *)
(* when the link of the kitchen or of the window is down, which is all     *)
(* this module says of links.  How full the kitchen is, is a choice here   *)
(* (Kitchen counts), and its memory of client orders is large enough and   *)
(* not reset (Store and Kitchen bound and reset it).                       *)
(***************************************************************************)
EXTENDS Topics, FiniteSetsExt, SequencesExt

CONSTANTS
    Windows,            \* client ids of windows
    TableCount,         \* tables of the kitchen
    MaxFoodNameLength,
    Characters,         \* classes of characters that users type
    MaxVisibleNotices,
    MaxTyped,           \* bound: characters typed
    MaxOrders,          \* bound: orders published
    MaxForeign,         \* bound: of these by other programs
    MaxCopies           \* bound: deliveries of one order

\* A letter; one outside the basic plane; a blank; a C0 blank, as tab; a C0
\* separator, U+001C to U+001F; next line, U+0085; a byte order mark, U+FEFF;
\* any other control character.
CharacterClasses ==
    {"letter", "astral", "blank", "tab", "separator", "nel", "bom", "control"}

NoOne == "nobody"        \* a client id that is missing
Wildcard == "+"          \* one that no topic to publish to can contain
Stranger == "stranger"   \* any other that is no window's, as one with several levels
NoId == 0                \* clientOrderId: null
NoTable == 0             \* tableId: null

ASSUME WireAssumption ==
    /\ Characters \subseteq CharacterClasses
    /\ IsFiniteSet(Windows)
    /\ Wildcard \notin Windows  \* getClientId: generated, no wildcard of a filter
    /\ {TableCount, MaxFoodNameLength, MaxVisibleNotices} \subseteq Nat \ {0}
    /\ {MaxTyped, MaxOrders, MaxForeign, MaxCopies} \subseteq Nat

VARIABLES
    orders,          \* every order published, with what became of it
    seen,            \* the kitchen's memory of client order ids
    refusals,        \* on their way to their authors, oldest first
    notices,         \* by window: the notices on screen
    timers,          \* by window: the notices whose timer runs
    noticeSequence   \* by window

noticeVars == <<notices, timers, noticeSequence>>
wireVars == <<orders, seen, refusals, noticeVars>>

\* config.py numbers tables from 1.
TableIds == 1..TableCount

RejectionReasons ==
    {"VALIDATION_FAILED", "UNKNOWN_TABLE", "TABLE_AT_CAPACITY", "KITCHEN_AT_CAPACITY"}

Names == UNION {[1..n -> Characters] : n \in 0..MaxTyped}

\* An order's payload: not a JSON object, or one that misses a field, has one too
\* many or one of the wrong type, or a complete one.
Payload(shape, id, client, t, name) ==
    [shape |-> shape, clientOrderId |-> id, clientId |-> client,
     tableId |-> t, foodName |-> name]

Order(author, topic, payload) ==
    [author |-> author, topic |-> topic, payload |-> payload,
     fates |-> << >>, told |-> FALSE, lost |-> FALSE]

WireInit ==
    /\ orders = << >>
    /\ seen = {}
    /\ refusals = << >>
    /\ notices = [w \in Windows |-> << >>]
    /\ timers = [w \in Windows |-> {}]
    /\ noticeSequence = [w \in Windows |-> 0]

-----------------------------------------------------------------------------
(* Food names.  The two sides differ in what they strip, in how long a       *)
(* character is, and in whether they look for control characters before.     *)

Strip(name, blanks) ==
    LET ink == {i \in DOMAIN name : name[i] \notin blanks}
    IN  IF ink = {} THEN << >> ELSE SubSeq(name, Min(ink), Max(ink))

IsControl(c) == c \in {"tab", "separator", "control"}

\* String.prototype.trim, length in UTF-16 units.
Trimmed(name) == Strip(name, {"blank", "tab", "bom"})

LengthInWindow(name) ==
    Len(name) + Cardinality({i \in DOMAIN name : name[i] = "astral"})

\* validateFoodName, of the trimmed value, without the check for control characters.
UncheckedInWindow(value) == LengthInWindow(value) \in 1..MaxFoodNameLength

ValidInWindow(value) ==
    /\ LengthInWindow(value) \in 1..MaxFoodNameLength
    /\ \A i \in DOMAIN value : ~ IsControl(value[i])

\* str.strip, length in code points; _clean_food_name.
ValidInKitchen(name) ==
    LET cleaned == Strip(name, {"blank", "tab", "separator", "nel"})
    IN  /\ Len(cleaned) \in 1..MaxFoodNameLength
        /\ \A i \in DOMAIN cleaned : ~ IsControl(cleaned[i])

-----------------------------------------------------------------------------
(* Publishing *)

\* publishOrder, for a name that passes validateFoodName.  A window may still show
\* a table that the kitchen no longer has.
PublishOrder(w, t, name) ==
    /\ Len(orders) < MaxOrders
    /\ ValidInWindow(Trimmed(name))
    /\ orders' = Append(orders,
           Order(w, OrderTopic(t),
                 Payload("complete", Len(orders) + 1, w, t, Trimmed(name))))
    /\ UNCHANGED <<seen, refusals, noticeVars>>

\* Another program publishes to a topic the kitchen hears.
PublishForeign(level, payload) ==
    /\ Len(orders) < MaxOrders
    /\ Cardinality({k \in DOMAIN orders : orders[k].author = NoOne}) < MaxForeign
    /\ orders' = Append(orders,
           Order(NoOne, <<Prefix, Word("table"), level, Word("order")>>, payload))
    /\ UNCHANGED <<seen, refusals, noticeVars>>

ForeignPayloads ==
    {Payload(shape, Len(orders) + 1, client, 1, <<"letter">>) :
        shape \in {"incomplete", "complete"}, client \in Windows \cup {Stranger, Wildcard, NoOne}}
    \cup {Payload("notObject", NoId, NoOne, NoTable, << >>)}

-----------------------------------------------------------------------------
(* The kitchen: _handle_order_message, in which the message of another order *)
(* cannot intervene.                                                         *)

Deliverable(k) == Len(orders[k].fates) < MaxCopies /\ KitchenHears(orders[k].topic)

\* The k-th order is decided.
Decide(k, fate) ==
    orders' = [orders EXCEPT ![k].fates = Append(@, fate)]

\* OrderPlaced.model_validate
IsOrder(payload) ==
    /\ payload.shape = "complete"
    /\ payload.clientId # NoOne
    /\ ValidInKitchen(payload.foodName)

\* Does the order name a table, the one of its topic, that the kitchen has?
NamesItsTable(order) == order.payload.tableId \in TableIdsFrom(order.topic)

AddressOfOrders(payload) == IF IsOrder(payload) THEN payload.clientId ELSE NoOne

\* _parse_order salvages the address of what does not validate.
ReturnAddress(payload) == payload.clientId

\* An order that passes every check but those of capacity.
Welcome(k) ==
    /\ IsOrder(orders[k].payload)
    /\ NamesItsTable(orders[k])
    /\ orders[k].payload.tableId \in TableIds

IsDuplicate(k) == orders[k].payload.clientOrderId \in seen

\* The reasons _parse_order and _try_accept may find, in their order.
CapacityFirst(k) ==
    IF ~ IsOrder(orders[k].payload) \/ ~ NamesItsTable(orders[k]) THEN {"VALIDATION_FAILED"}
    ELSE IF orders[k].payload.tableId \notin TableIds THEN {"UNKNOWN_TABLE"}
    ELSE {"KITCHEN_AT_CAPACITY", "TABLE_AT_CAPACITY"}

ReasonsToRefuse(k) ==
    IF ~ IsOrder(orders[k].payload) \/ ~ NamesItsTable(orders[k]) THEN {"VALIDATION_FAILED"}
    ELSE IF orders[k].payload.tableId \notin TableIds THEN {"UNKNOWN_TABLE"}
    ELSE IF IsDuplicate(k) THEN {}
    ELSE {"KITCHEN_AT_CAPACITY", "TABLE_AT_CAPACITY"}

\* What a refusal says: of an order that could not be read no table.
Rejection(k, reason) ==
    LET payload == orders[k].payload IN
    [clientOrderId |-> payload.clientOrderId,
     tableId |-> IF ~ IsOrder(payload) THEN NoTable
                 ELSE CHOOSE t \in TableIdsFrom(orders[k].topic) : TRUE,
     reason |-> reason]

\* To a topic with a wildcard, the MQTT client raises instead of publishing.
Addressable(client) == client \notin {NoOne, Wildcard}

\* _publish_rejection; what the publish raises ends in handle_message's backstop.
PublishRejection(k, reason) ==
    refusals' = IF Addressable(ReturnAddress(orders[k].payload))
                  THEN Append(refusals,
                              [topic |-> ClientErrorTopic(ReturnAddress(orders[k].payload)),
                               body |-> Rejection(k, reason), of |-> k])
                  ELSE refusals

\* dropped_unroutable_topic
Drop(k) ==
    /\ Deliverable(k)
    /\ KitchenTakes(orders[k].topic) = "unroutable"
    /\ Decide(k, "dropped")
    /\ UNCHANGED <<seen, refusals, noticeVars>>

Refuse(k) ==
    /\ Deliverable(k)
    /\ KitchenTakes(orders[k].topic) = "order"
    /\ \E reason \in ReasonsToRefuse(k) :
           /\ PublishRejection(k, reason)
           /\ Decide(k, reason)
    /\ UNCHANGED <<seen, noticeVars>>

Accept(k) ==
    /\ Deliverable(k)
    /\ KitchenTakes(orders[k].topic) = "order"
    /\ Welcome(k) /\ ~ IsDuplicate(k)
    /\ seen' = seen \cup {orders[k].payload.clientOrderId}
    /\ Decide(k, "accepted")
    /\ UNCHANGED <<refusals, noticeVars>>

\* ignored_duplicate_order
Ignore(k) ==
    /\ Deliverable(k)
    /\ KitchenTakes(orders[k].topic) = "order"
    /\ Welcome(k) /\ IsDuplicate(k)
    /\ Decide(k, "duplicate")
    /\ UNCHANGED <<seen, refusals, noticeVars>>

-----------------------------------------------------------------------------
(* The window *)

\* parseOrderRejected: null is as good as an id or a table.
ParsesAsRejection(body) == body.reason \in RejectionReasons

PushUntimed(w) ==
    /\ noticeSequence' = [noticeSequence EXCEPT ![w] = @ + 1]
    /\ notices' = [notices EXCEPT ![w] =
           LET list == Append(@, noticeSequence[w] + 1)
           IN  SubSeq(list, Max({1, Len(list) - MaxVisibleNotices + 1}), Len(list))]
    /\ UNCHANGED timers

PushUnbounded(w) ==
    /\ noticeSequence' = [noticeSequence EXCEPT ![w] = @ + 1]
    /\ notices' = [notices EXCEPT ![w] = Append(@, noticeSequence[w] + 1)]
    /\ timers' = [timers EXCEPT ![w] = @ \cup {noticeSequence[w] + 1}]

\* pushNotice: the last few stay, each with a timer.
PushNotice(w) ==
    /\ noticeSequence' = [noticeSequence EXCEPT ![w] = @ + 1]
    /\ notices' = [notices EXCEPT ![w] =
           LET list == Append(@, noticeSequence[w] + 1)
           IN  SubSeq(list, Max({1, Len(list) - MaxVisibleNotices + 1}), Len(list))]
    /\ timers' = [timers EXCEPT ![w] = @ \cup {noticeSequence[w] + 1}]

\* Nobody could read the refusal: no window was there, or a link was down.
Lose ==
    /\ refusals # << >>
    /\ refusals' = Tail(refusals)
    /\ orders' = [orders EXCEPT ![Head(refusals).of].lost = TRUE]
    /\ UNCHANGED <<seen, noticeVars>>

\* The windows that hear and take a message for what it is.
Receivers(topic, kind) == {w \in Windows : WindowHears(w, topic) /\ WindowTakes(w, topic) = kind}

\* dispatchMessage and ingestRejection in the window that is the author.
Notify(w) ==
    /\ refusals # << >>
    /\ w \in Receivers(Head(refusals).topic, "rejection")
    /\ refusals' = Tail(refusals)
    /\ IF ParsesAsRejection(Head(refusals).body)
         THEN /\ PushNotice(w)
              /\ orders' = [orders EXCEPT ![Head(refusals).of].told =
                               @ \/ noticeSequence'[w] \in Range(notices'[w])]
         ELSE UNCHANGED <<orders, noticeVars>>
    /\ UNCHANGED seen

DismissOldest(w, id) ==
    notices' = [notices EXCEPT ![w] = IF @ = << >> THEN @ ELSE Tail(@)]

\* dismissNotice, called by the user or by the timer; all timers run equally long.
\* The ids are distinct, so what is filtered out is one notice at most.
DismissNotice(w, id) ==
    notices' = [notices EXCEPT ![w] = RemoveFirst(@, id)]

Dismiss(w) ==
    /\ \E id \in Range(notices[w]) : DismissNotice(w, id)
    /\ UNCHANGED <<orders, seen, refusals, timers, noticeSequence>>

TimerFires(w) ==
    /\ timers[w] # {}
    /\ DismissNotice(w, Min(timers[w]))
    /\ timers' = [timers EXCEPT ![w] = @ \ {Min(@)}]
    /\ UNCHANGED <<orders, seen, refusals, noticeSequence>>

-----------------------------------------------------------------------------

WireNext ==
    \/ \E w \in Windows, t \in 1..(TableCount + 1), name \in Names : PublishOrder(w, t, name)
    \/ \E level \in {Word("bar"), Number(1), Number(2)}, payload \in ForeignPayloads :
           PublishForeign(level, payload)
    \/ \E k \in DOMAIN orders : Drop(k) \/ Refuse(k) \/ Accept(k) \/ Ignore(k)
    \/ Lose
    \/ \E w \in Windows : Notify(w) \/ Dismiss(w) \/ TimerFires(w)

\* Timers fire.
WireSpec ==
    /\ WireInit
    /\ [][WireNext]_wireVars
    /\ \A w \in Windows : WF_wireVars(TimerFires(w))

-----------------------------------------------------------------------------
(* Properties *)

\* The types.
WireTypeOK ==
    /\ Len(orders) \in 0..MaxOrders
    /\ \A k \in DOMAIN orders :
           /\ orders[k].author \in Windows \cup {NoOne}
           /\ Len(orders[k].fates) \in 0..MaxCopies
           /\ Range(orders[k].fates) \subseteq
                  RejectionReasons \cup {"accepted", "duplicate", "dropped"}
           /\ {orders[k].told, orders[k].lost} \subseteq BOOLEAN
    /\ seen \subseteq 1..MaxOrders
    /\ \A n \in DOMAIN refusals :
           /\ refusals[n].of \in DOMAIN orders
           /\ refusals[n].body.reason \in RejectionReasons
    /\ \A w \in Windows :
           /\ notices[w] \in Seq(1..noticeSequence[w])
           /\ timers[w] \subseteq 1..noticeSequence[w]
           /\ Len(notices[w]) <= MaxVisibleNotices

FromWindow(k) == orders[k].author # NoOne

Accepted(k) == "accepted" \in Range(orders[k].fates)

Refused(k) == Range(orders[k].fates) \cap RejectionReasons # {}

\* Whatever window and kitchen publish is heard and recognised by those it is for,
\* by nobody else, and by the kitchen as its own if the broker returns it: the
\* topics, which are written down twice, agree (topics.py:39-76, dispatch.ts:47-80).
\* A refusal to a client that is no window reaches none.
NothingGoesAstray ==
    /\ \A k \in DOMAIN orders : FromWindow(k) =>
           KitchenHears(orders[k].topic) /\ KitchenTakes(orders[k].topic) = "order"
    /\ \A k \in DOMAIN orders : Accepted(k) =>
           LET topic == TableStateTopic(orders[k].payload.tableId)
           IN  /\ Receivers(topic, "table-state") = Windows
               /\ KitchenTakes(topic) = "own"
    /\ \A n \in DOMAIN refusals :
           LET topic == refusals[n].topic
               author == orders[refusals[n].of].payload.clientId
           IN  /\ {w \in Windows : WindowHears(w, topic)} = {author} \cap Windows
               /\ author \in Windows =>
                      Receivers(topic, "rejection") = {author} /\ KitchenTakes(topic) = "own"

\* "a validation failure can still be reported back to the customer who caused it
\* instead of vanishing" (kitchen.py:232-234): an order that arrived is cooked, or a
\* refusal of it is under way, was lost by a link, or has been on its author's
\* screen, however little of the order could be read, if it gave an address that a
\* topic can have.
OrdersAreAnswered ==
    \A k \in DOMAIN orders :
        /\ orders[k].fates # << >> /\ "dropped" \notin Range(orders[k].fates)
        /\ Addressable(orders[k].payload.clientId)
        => \/ Accepted(k) \/ orders[k].told \/ orders[k].lost
           \/ \E n \in DOMAIN refusals : refusals[n].of = k

\* Nobody is told that there was no room for a dish that cooks: a second copy of an
\* accepted order is ignored even by a kitchen that has filled up since
\* (kitchen.py:288-317).
CookingIsNeverRefused ==
    \A k \in DOMAIN orders :
        \A i, j \in DOMAIN orders[k].fates :
            i < j /\ orders[k].fates[i] = "accepted" => orders[k].fates[j] = "duplicate"

\* "mirroring the backend's rules" (state.ts:158): a name that a window lets pass is
\* good enough for the kitchen, with one exception: U+0085 is a blank to Python and
\* none to JavaScript, and a name of nothing else, but for blanks between two of
\* them, is refused after the round trip.
WindowNamesAreAccepted ==
    \A k \in DOMAIN orders :
        FromWindow(k) /\ "VALIDATION_FAILED" \in Range(orders[k].fates) =>
            Range(orders[k].payload.foodName) \ {"blank"} = {"nel"}

\* "a burst of rejections cannot permanently bury the UI" (stores.ts:54): the
\* screen is cleared again and again, even when the user does nothing.
NoticesEnd ==
    \A w \in Windows : []<>(notices[w] = << >>)

\* No notice is taken away by the timer of another: not even by that of one which was
\* pushed off the list or dismissed, and whose timer runs on.  A notice goes when its
\* own time has come, when as many later ones as are shown have pushed it off, or,
\* alone and with no timer stopped, by the user's hand (stores.ts:51-61).
NoticesStayTheirTime ==
    [][\A w \in Windows : \A id \in Range(notices[w]) \ Range(notices'[w]) :
          \/ id \in timers[w] \ timers'[w]
          \/ /\ Len(notices'[w]) = MaxVisibleNotices
             /\ \A later \in Range(notices'[w]) : id < later
          \/ /\ Range(notices[w]) = Range(notices'[w]) \cup {id}
             /\ UNCHANGED <<timers, noticeSequence>>]_wireVars
=============================================================================
