------------------------------ MODULE Display ------------------------------
(***************************************************************************)
(* The countdown and the progress bar of a dish on a window's screen       *)
(* (state.ts, clock.ts, stores.ts, TableCard.svelte), computed from time   *)
(* stamps of the kitchen and a clock that disagrees with the kitchen's.    *)
(*                                                                         *)
(* Time is counted in units of which Second make a second; time is the     *)
(* kitchen's clock, the window's shows time + skew.  One table is enough:  *)
(* the estimate of the skew is shared by all, and any message moves it.    *)
(*                                                                         *)
(* Assumed of the environment: a live message is handled at most           *)
(* MaxLatency after its state was stamped (the wait in a batch of          *)
(* announcements included), the interval timer fires when it is due, and   *)
(* clocks run at the same rate.                                            *)
(***************************************************************************)
EXTENDS Integers, Sequences

CONSTANTS
    Second,      \* units of time in a second
    Cooks,       \* cook times in seconds the kitchen may draw
    Behind,      \* how far the window's clock is behind the kitchen's,
    Ahead,       \* or ahead of it
    MaxLatency,  \* bound on the age of a live message, in units
    MaxDishes,   \* bound: dishes in a behaviour
    MaxUpsets,   \* bound: announcements begun and connections lost
    MaxTime      \* bound: length of a behaviour, in units

ASSUME DisplayAssumption ==
    /\ Second \in Nat \ {0}
    /\ Cooks \subseteq Nat
    /\ {Behind, Ahead, MaxLatency, MaxDishes, MaxUpsets, MaxTime} \subseteq Nat

VARIABLES
    time,        \* the kitchen's clock
    skew,        \* of the window's clock
    table,       \* the kitchen's table
    announcing,  \* the snapshot announce_online has taken, until it is published
    slot,        \* the broker's retained message, if there is one
    connected,   \* is the window subscribed?
    wire,        \* messages on their way to the window, oldest first
    view,        \* the window's copy of the table
    nowMs,       \* clock.ts: the shared clock store
    ticking,     \* clock.ts: does anybody read it?
    upsets,      \* announcements and lost connections so far
    offset,      \* stores.ts: serverOffsetMs
    heardOf      \* history: the stamp of the message that set offset

kitchenVars == <<table, announcing>>
windowVars == <<view, nowMs, ticking, offset, heardOf>>
linkVars == <<slot, connected, wire>>
displayVars == <<time, skew, upsets, kitchenVars, linkVars, windowVars>>

Skews == {-Behind, Ahead}

NotYet == -1

DishAtTheEnd(cook) ==
    [placed |-> time + cook * Second, cook |-> cook, status |-> "COOKING"]

\* As in Store, definitions that nothing uses (DishAtTheEnd, RemainingRoundedUp, ...)
\* are mistakes that some property has to catch.

\* An order with the fields that a countdown uses.
Dish(cook) == [placed |-> time, cook |-> cook, status |-> "COOKING"]

Cooking(d) == d.status = "COOKING"

ExpectedReadyAt(d) == d.placed + d.cook * Second

EmptyTable == [version |-> 0, dishes |-> << >>]

\* A message carries the table as of the time it is stamped with.
Snapshot == [state |-> table, made |-> time, retained |-> FALSE]

\* The browser's Date.now().
DateNow == time + skew

DisplayInit ==
    /\ time = 0
    /\ skew \in Skews
    /\ upsets = 0
    /\ table = EmptyTable
    /\ announcing = << >>
    /\ slot = << >>
    /\ connected = TRUE
    /\ wire = << >>
    /\ view = EmptyTable
    /\ nowMs = DateNow
    /\ ticking = FALSE
    /\ offset = 0
    /\ heardOf = NotYet

-----------------------------------------------------------------------------
(* What a card shows. *)

Clamped(n) == IF n > 0 THEN n ELSE 0

ElapsedSeconds(d) == Clamped(nowMs - offset - d.placed) \div Second

RemainingRoundedUp(d) ==
    (Clamped(ExpectedReadyAt(d) - (nowMs - offset)) + Second - 1) \div Second

RemainingUncorrected(d) == Clamped(ExpectedReadyAt(d) - nowMs) \div Second

RemainingSeconds(d) == Clamped(ExpectedReadyAt(d) - (nowMs - offset)) \div Second

ProgressUncorrected(d) ==
    IF d.cook <= 0
      THEN 100
      ELSE LET percent == (200 * (Clamped(nowMs - d.placed) \div Second) + d.cook)
                          \div (2 * d.cook)
           IN  IF percent > 100 THEN 100 ELSE percent

\* Math.round of a non-negative fraction.
ProgressPercent(d) ==
    IF d.cook <= 0
      THEN 100
      ELSE LET percent == (200 * ElapsedSeconds(d) + d.cook) \div (2 * d.cook)
           IN  IF percent > 100 THEN 100 ELSE percent

-----------------------------------------------------------------------------
(* The kitchen *)

\* Retained for the windows to come, forwarded to this one if it is there.
Publish(message) ==
    /\ slot' = <<[message EXCEPT !.retained = TRUE]>>
    /\ wire' = IF connected THEN Append(wire, message) ELSE wire
    /\ UNCHANGED connected

\* _try_accept, whose state is stamped and published in the same step.
Place(cook) ==
    /\ Len(table.dishes) < MaxDishes
    /\ table' = [version |-> table.version + 1,
                 dishes |-> Append(table.dishes, Dish(cook))]
    /\ Publish([state |-> table', made |-> time, retained |-> FALSE])
    /\ UNCHANGED <<time, skew, upsets, announcing, windowVars>>

\* _cook: the sleep ends no earlier than promised.
Serve(n) ==
    /\ Cooking(table.dishes[n])
    /\ time >= ExpectedReadyAt(table.dishes[n])
    /\ table' = [version |-> table.version + 1,
                 dishes |-> [table.dishes EXCEPT ![n].status = "SERVED"]]
    /\ Publish([state |-> table', made |-> time, retained |-> FALSE])
    /\ UNCHANGED <<time, skew, upsets, announcing, windowVars>>

\* announce_online: the snapshots are taken together, published one by one.
TakeSnapshot ==
    /\ announcing = << >>
    /\ announcing' = <<Snapshot>>
    /\ upsets < MaxUpsets
    /\ upsets' = upsets + 1
    /\ UNCHANGED <<time, skew, table, linkVars, windowVars>>

PublishSnapshot ==
    /\ announcing # << >>
    /\ Publish(Head(announcing))
    /\ announcing' = << >>
    /\ UNCHANGED <<time, skew, upsets, table, windowVars>>

-----------------------------------------------------------------------------
(* The window *)

\* Subscribing brings the retained state, however old.
Connect ==
    /\ ~ connected
    /\ connected' = TRUE
    /\ wire' = slot
    /\ UNCHANGED <<time, skew, upsets, kitchenVars, slot, windowVars>>

Disconnect ==
    /\ connected
    /\ upsets < MaxUpsets
    /\ upsets' = upsets + 1
    /\ connected' = FALSE
    /\ wire' = << >>
    /\ UNCHANGED <<time, skew, kitchenVars, slot, windowVars>>

ShowsCooking(state) == \E n \in DOMAIN state.dishes : Cooking(state.dishes[n])

\* clock.ts: the first reader starts the interval and gets the time at once.
SubscribeToClock(state) ==
    /\ ticking' = (ticking \/ ShowsCooking(state))
    /\ nowMs' = IF ~ ticking /\ ShowsCooking(state) THEN DateNow ELSE nowMs

MeasureAnything(message) ==
    /\ offset' = DateNow - message.made
    /\ heardOf' = message.made

\* The estimate of the skew, from live messages only.
Measure(message) ==
    IF message.retained
      THEN UNCHANGED <<offset, heardOf>>
      ELSE /\ offset' = DateNow - message.made
           /\ heardOf' = message.made

\* ingestTableState, and the rendering it causes.  A state that is not news for
\* the table is news for the clock.
Ingest ==
    /\ wire # << >>
    /\ wire' = Tail(wire)
    /\ view' = IF Head(wire).state.version > view.version
                 THEN Head(wire).state
                 ELSE view
    /\ Measure(Head(wire))
    /\ SubscribeToClock(view')
    /\ UNCHANGED <<time, skew, upsets, kitchenVars, slot, connected>>

\* The last reader of the clock has left the page; when nothing cooks there may be
\* none.
StopReading ==
    /\ ticking
    /\ ~ ShowsCooking(view)
    /\ ticking' = FALSE
    /\ UNCHANGED <<time, skew, upsets, kitchenVars, linkVars, view, nowMs, offset, heardOf>>

-----------------------------------------------------------------------------
(* Time *)

\* A message that would be too late if it waited any longer.
IsDue(message) == ~ message.retained /\ message.made + MaxLatency <= time

TimePasses ==
    /\ time < MaxTime
    /\ \A n \in DOMAIN wire : ~ IsDue(wire[n])
    /\ \A n \in DOMAIN announcing : ~ IsDue(announcing[n])
    /\ time' = time + 1
    /\ nowMs' = IF ticking /\ time' + skew - nowMs >= Second THEN time' + skew ELSE nowMs
    /\ UNCHANGED <<skew, upsets, kitchenVars, linkVars, view, ticking, offset, heardOf>>

DisplayNext ==
    \/ \E cook \in Cooks : Place(cook)
    \/ \E n \in DOMAIN table.dishes : Serve(n)
    \/ TakeSnapshot
    \/ PublishSnapshot
    \/ Connect
    \/ Disconnect
    \/ Ingest
    \/ StopReading
    \/ TimePasses

DisplaySpec == DisplayInit /\ [][DisplayNext]_displayVars

-----------------------------------------------------------------------------
(* Properties *)

Dishes == Seq([placed : 0..time, cook : Cooks, status : {"COOKING", "SERVED"}])
States == [version : 0..(2 * MaxDishes), dishes : Dishes]
Messages == [state : States, made : 0..time, retained : BOOLEAN]

\* The types.
DisplayTypeOK ==
    /\ time \in 0..MaxTime
    /\ skew \in Skews
    /\ {table, view} \subseteq States
    /\ {announcing, slot, wire} \subseteq Seq(Messages)
    /\ Len(announcing) <= 1 /\ Len(slot) <= 1
    /\ {connected, ticking} \subseteq BOOLEAN
    /\ upsets \in 0..MaxUpsets
    /\ {nowMs, offset} \subseteq Int
    /\ heardOf \in {NotYet} \cup (0..time)

\* The dishes a window has a countdown for, and of these the ones placed before the
\* state was stamped that the estimate of the skew was taken from.
Counting == {n \in DOMAIN view.dishes : Cooking(view.dishes[n])}
Calibrated == {n \in Counting : view.dishes[n].placed <= heardOf}

\* "approximates the clock difference (plus a little network latency"
\* (stores.ts:66-68): whatever was retained, late or stale, the estimate is never
\* below the skew and above it by no more than a live message's age.
OffsetIsHonest ==
    heardOf # NotYet => offset - skew \in 0..MaxLatency

\* The countdown of an assigned cook time never starts above it ("10s left" for a
\* 9-second cook, state.ts:91), neither in the first rendering, whose clock may
\* have stood still for long, nor when a later message moves the estimate.
NeverMoreThanAssigned ==
    \A n \in Calibrated : RemainingSeconds(view.dishes[n]) <= view.dishes[n].cook

\* Once a live message has come, the countdown tells the truth: it is less than a
\* second below the time that is left, and above it by less than a second of
\* stale clock and a message's age, whatever the skew (state.ts:65-108).
CountdownIsClose ==
    heardOf # NotYet =>
        \A n \in Counting :
            LET left == ExpectedReadyAt(view.dishes[n]) - time
                shown == RemainingSeconds(view.dishes[n]) * Second
            IN  /\ shown > left - Second
                /\ shown <= Clamped(left + Second - 1 + MaxLatency)

\* The two figures of a card agree: a full bar, rounded to the nearest percent, leaves
\* at most half a percent of the countdown (nothing, for dishes of less than 200
\* seconds: "finishing"), and bar and countdown share out the assigned time between
\* them, to the second that both round down (TableCard.svelte:60-79).
BarAndCountdownAgree ==
    \A n \in Calibrated :
        LET d == view.dishes[n]
            left == RemainingSeconds(d)
        IN  /\ ProgressPercent(d) = 100 => 200 * left <= d.cook
            /\ left > 0 => ElapsedSeconds(d) + left \in {d.cook - 1, d.cook}
=============================================================================
