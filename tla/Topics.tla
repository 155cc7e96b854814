------------------------------- MODULE Topics -------------------------------
(***************************************************************************)
(* Topics, and who recognises which (topics.py and topics.ts, which mirror *)
(* each other by hand; handle_message in kitchen.py; dispatch.ts).         *)
(*                                                                         *)
(* A topic is a sequence of levels, a level a word or a number; "+" in a   *)
(* filter matches any one level (MQTT, external).                          *)
(***************************************************************************)
EXTENDS Naturals, Sequences

Word(w) == [kind |-> "word", word |-> w, number |-> 0]
Number(n) == [kind |-> "number", word |-> "", number |-> n]

Plus == Word("+")

Prefix == Word("restaurant")

Matches(filter, topic) ==
    /\ Len(filter) = Len(topic)
    /\ \A i \in DOMAIN filter : filter[i] \in {Plus, topic[i]}

-----------------------------------------------------------------------------
(* What both sides call the topics.  As in Store, a definition that nothing  *)
(* uses (OwnWithoutErrors) is a mistake that some property has to catch.     *)

OrderTopic(t) == <<Prefix, Word("table"), Number(t), Word("order")>>
TableStateTopic(t) == <<Prefix, Word("table"), Number(t), Word("state")>>
ClientErrorTopic(c) == <<Prefix, Word("client"), Word(c), Word("err")>>
KITCHEN_STATUS == <<Prefix, Word("kitchen"), Word("status")>>
KITCHEN_RESET == <<Prefix, Word("kitchen"), Word("reset")>>

INBOUND_SUBSCRIPTIONS ==
    {<<Prefix, Word("table"), Plus, Word("order")>>, KITCHEN_RESET}

WindowSubscriptions(c) ==
    {<<Prefix, Word("table"), Plus, Word("state")>>, KITCHEN_STATUS, ClientErrorTopic(c)}

KitchenHears(topic) == \E filter \in INBOUND_SUBSCRIPTIONS : Matches(filter, topic)

WindowHears(c, topic) == \E filter \in WindowSubscriptions(c) : Matches(filter, topic)

-----------------------------------------------------------------------------
(* The kitchen *)

\* parse_table_id_from_order_topic: no element stands for None, and for a level that
\* isdigit takes for a number and int does not (a superscript): that raises into
\* handle_message's backstop, which drops the message as well.
TableIdsFrom(topic) ==
    IF /\ Len(topic) = 4
       /\ topic[1] = Prefix /\ topic[2] = Word("table") /\ topic[4] = Word("order")
       /\ topic[3].kind = "number"
      THEN {topic[3].number}
      ELSE {}

OwnWithoutErrors(topic) ==
    \/ topic = KITCHEN_STATUS
    \/ Matches(<<Prefix, Word("table"), Plus, Word("state")>>, topic)

\* is_own_outbound_topic: some brokers return to the kitchen what it has published,
\* whatever it subscribed to.
IsOwnOutbound(topic) ==
    \/ topic = KITCHEN_STATUS
    \/ Matches(<<Prefix, Word("table"), Plus, Word("state")>>, topic)
    \/ Matches(<<Prefix, Word("client"), Plus, Word("err")>>, topic)

\* What handle_message takes a message for.
KitchenTakes(topic) ==
    CASE topic = KITCHEN_RESET -> "reset"
      [] TableIdsFrom(topic) # {} -> "order"
      [] IsOwnOutbound(topic) -> "own"
      [] OTHER -> "unroutable"

-----------------------------------------------------------------------------
(* A window *)

IsTableStateTopic(topic) == Matches(<<Prefix, Word("table"), Plus, Word("state")>>, topic)

IsClientErrorTopic(topic, c) == topic = ClientErrorTopic(c)

\* The branch of dispatchMessage that a topic leads to.
WindowTakes(c, topic) ==
    CASE IsTableStateTopic(topic) -> "table-state"
      [] topic = KITCHEN_STATUS -> "kitchen-status"
      [] IsClientErrorTopic(topic, c) -> "rejection"
      [] OTHER -> "ignored-unknown-topic"
=============================================================================
