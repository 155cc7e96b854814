---------------------------- MODULE MCRestaurant ----------------------------
(***************************************************************************)
(* Instances of Restaurant for TLC, with the history of the tables and the *)
(* tables whose repair was lost (MCTransport).                             *)
(***************************************************************************)
EXTENDS Restaurant, MCTransport

VARIABLE past  \* past[t]: the states that table t has had, in any generation

MarkPast == past' = [t \in Tables |-> past[t] \cup {Snapshot(t)'}]

MCRestaurantInit ==
    /\ RInit
    /\ overtaken = {}
    /\ past = [t \in Tables |-> {Snapshot(t)}]

MCRestaurantNext ==
    /\ RNext
    /\ MarkOvertaken
    /\ MarkPast

MCRestaurantSpec ==
    /\ MCRestaurantInit
    /\ [][MCRestaurantNext]_<<rvars, overtaken, past>>
    /\ RFairness

\* From the store to the screen: while the kitchen serves over a working link, a window
\* that has read everything shows it as ONLINE, with every table of this very process
\* exactly as the store has it, but for the tables that a reset has yet to republish
\* and, up to the next announcement or change, the overtaken ones (app.py:78-84,
\* kitchen.py:102-112, state.ts:20-46, App.svelte:47-55).
QuietWindowsShowTheKitchen ==
    session = "serving" /\ link = "up" =>
        \A b \in Browsers : Quiet(b) =>
            /\ kitchen[b] = "ONLINE"
            /\ \A t \in Tables \ Pending :
                   /\ t \in DOMAIN view[b]
                   /\ view[b][t].epoch = epoch
                   /\ t \notin overtaken => view[b][t] = Snapshot(t)

Window == INSTANCE Follower WITH Windows <- Browsers, shown <- view

\* Through every fault, restart and reconnection each window follows the tables: it
\* shows only states that the store has really had, in the order in which it had them,
\* whatever the retained slots repeat or an announcement overwrites (state.ts:20-46,
\* kitchen.py:102-112).
WindowsFollow == Window!FollowerSpec
=============================================================================
