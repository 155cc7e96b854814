------------------------------ MODULE Follower ------------------------------
(***************************************************************************)
(* What the windows promise, whatever lies between them and the kitchen:   *)
(* each of them follows the tables.  A table goes from state to state, a   *)
(* window shows of each table nothing or a state that this table has had,  *)
(* and from there moves to later ones only; it may miss some.              *)
(*                                                                         *)
(* States are compared as the browser compares them: by generation, and    *)
(* by version within one (state.ts:20-33).                                 *)
(***************************************************************************)
EXTENDS Naturals

CONSTANTS
    Tables,
    Windows

VARIABLES
    past,   \* past[t]: the states that table t has had, the present one included
    shown   \* shown[w]: the states that window w shows, by table

IsLater(s, r) ==
    \/ s.epoch > r.epoch
    \/ s.epoch = r.epoch /\ s.version > r.version

FollowerInit ==
    /\ \A t \in Tables : \E s \in past[t] : past[t] = {s}
    /\ \A w \in Windows : DOMAIN shown[w] = {}

\* The table gets a state that is later than all it has had.
TableMoves(t) ==
    \E s \in past'[t] :
        /\ past'[t] = past[t] \cup {s}
        /\ \A r \in past[t] : IsLater(s, r)

KitchenMoves ==
    /\ \A t \in Tables : past'[t] = past[t] \/ TableMoves(t)
    /\ UNCHANGED shown

WindowFollows(w) ==
    /\ \A t \in DOMAIN shown[w] :
           /\ t \in DOMAIN shown'[w]
           /\ shown'[w][t] = shown[w][t] \/ IsLater(shown'[w][t], shown[w][t])
    /\ \A t \in DOMAIN shown'[w] : t \in Tables /\ shown'[w][t] \in past[t]
    /\ \A v \in Windows \ {w} : shown'[v] = shown[v]
    /\ UNCHANGED past

FollowerNext == KitchenMoves \/ \E w \in Windows : WindowFollows(w)

FollowerSpec == FollowerInit /\ [][FollowerNext]_<<past, shown>>
=============================================================================
