----------------------------- MODULE MCKitchen -----------------------------
(***************************************************************************)
(* Instances of Kitchen for TLC, with the history its properties speak of. *)
(***************************************************************************)
EXTENDS Kitchen

VARIABLE accepted  \* the client order ids accepted in this generation, in order

MCKitchenInit == Init /\ accepted = << >>

\* Every disjunct of Next, and what it adds to the history.
MCKitchenNext ==
    \/ \E t \in Tables, c \in ClientOrders :
           Accept(t, c) /\ accepted' = Append(accepted, c)
    \/ /\ \/ \E t \in Tables \cup {UnknownTable}, c \in ClientOrders : Refuse(t, c)
          \/ HandleReset
          \/ AnnounceOnline
          \/ Shutdown
          \/ Resume
          \/ PublishFails
          \/ \E i \in DOMAIN cooks : CookStep(i)
          \/ LinkChanges
       /\ accepted' = IF epoch' = epoch THEN accepted ELSE << >>

MCKitchenSpec == MCKitchenInit /\ [][MCKitchenNext]_<<vars, accepted>>

\* An order is accepted at most once while it is among the last
\* DedupeCacheSize accepted ones: "a retransmission cannot slip through behind
\* us" (kitchen.py:319-321, store.py:71-72).
AcceptedOnceInTheWindow ==
    \A j, k \in 1..Len(accepted) :
        j < k /\ accepted[j] = accepted[k] => k - j > DedupeCacheSize
=============================================================================
