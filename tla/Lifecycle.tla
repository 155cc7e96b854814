----------------------------- MODULE Lifecycle -----------------------------
(***************************************************************************)
(* What the kitchen promises about one order, whatever else goes on:       *)
(* OrderStatus (backend/src/restaurant/models.py) and the state diagram of *)
(* docs/EVENT-CONTRACT.md section 4.  An accepted order cooks, finishes    *)
(* once, keeps the status it finished with, and may leave its table only   *)
(* after that, or with everything else when the state is wiped.  It never  *)
(* comes back.                                                             *)
(*                                                                         *)
(* Store implements this specification; the refinement mapping is phase in *)
(* MCStore.                                                                *)
(***************************************************************************)
CONSTANT Ids

VARIABLE phase

Done == {"SERVED", "FAILED"}

Phase == {"unplaced", "COOKING", "gone"} \cup Done

LifecycleInit == phase = [i \in Ids |-> "unplaced"]

\* What happens to an order that a step is not about: nothing, or it is
\* finished and leaves its table.
Ages(i) ==
    \/ phase'[i] = phase[i]
    \/ phase[i] \in Done /\ phase'[i] = "gone"

Place(i) ==
    /\ phase[i] = "unplaced"
    /\ phase'[i] = "COOKING"
    /\ \A j \in Ids \ {i} : Ages(j)

\* An order may finish and leave its table in one step: see ServedIsVisible in
\* Store.
Finish(i) ==
    /\ phase[i] = "COOKING"
    /\ phase'[i] \in Done \cup {"gone"}
    /\ \A j \in Ids \ {i} : Ages(j)

Wipe ==
    \A i \in Ids : phase'[i] = IF phase[i] = "unplaced" THEN "unplaced" ELSE "gone"

LifecycleNext ==
    /\ phase' \in [Ids -> Phase]
    /\ \/ \E i \in Ids : Place(i)
       \/ \E i \in Ids : Finish(i)
       \/ Wipe

LifecycleSpec == LifecycleInit /\ [][LifecycleNext]_phase
=============================================================================
