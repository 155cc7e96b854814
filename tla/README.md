# A verification of Restaurant Orders

TLA+ models of the restaurant demo (`src/` is the repository): the Python kitchen
in `backend/src/restaurant`, the browser windows in `frontend/src`, and the MQTT
broker between them as far as they rely on it. TLC checks the models on small
instances; TLAPS proves their safety properties for every size.

## The system

| Component | State | Operations | Hard because |
| --- | --- | --- | --- |
| Store (`store.py`) | tables with orders and versions, epoch, LRU of client order ids | `add_order`, `finish_order`, `remember_client_order`, `reset` | history trimming and cache eviction interact with orders that finish out of order; versions restart after a reset |
| Kitchen (`kitchen.py`) | the set of cooking tasks | `handle_message` (orders, resets), `_cook`, `announce_online`, `shutdown` | every `await` is a point where another coroutine runs |
| Transport and process (`transport.py`, `app.py`) | the attached client, the session | connect, subscribe, announce, consume, stop, reconnect | links break in any state; cooking goes on meanwhile; processes crash |
| Broker (mosquitto, external) | one retained message per topic, the Last Will | store and forward | keeps messages of dead processes; forgets everything on a restart |
| Browser window (`App.svelte`, `stores.ts`, `state.ts`, `mqttClient.ts`) | connection, tables, kitchen status | message dispatch, reconnection | retained and live states of several generations arrive in one stream |
| Ordering in the window (`App.svelte`, `OrderDialog.svelte`, `mqttClient.ts`) | active table, form, pending promises | open, submit, close, reset | promises settle when another dialog is open |
| Timing display (`state.ts`, `clock.ts`, `stores.ts`, `TableCard.svelte`) | the shared clock, the estimate of the skew | tick, start and stop of the clock, one measurement per live message | two clocks, messages that are late, retained or stale, a clock store that stands still, rounding |
| Wire formats and validation (`models.py`, `types.ts`, `topics.py`, `topics.ts`, `dispatch.ts`) | none; notices in the window | parse, validate, route, refuse, notify | every rule is written twice, in two languages |

They interact only through the broker: a window publishes orders and resets to
the kitchen; the kitchen publishes the retained state of each table, its retained
status (also registered as its Last Will), and refusals to one client's topic.
Inside the kitchen process, transport calls the kitchen's coroutines one after
the other, cooking tasks run beside them, and all of them share the store and the
publisher.

What makes each component correct:

- **Store**: the history is bounded, the cache is an LRU, `(epoch, version)`
  identifies what a table holds, an order lives its life once and forwards, and is
  dropped only for later ones.
- **Kitchen**: capacity limits hold, one click is one dish, every cooking order has
  exactly the task that will serve it, published states move forward.
- **Transport**: ONLINE is never left behind by a dead kitchen, what was lost in a
  disconnection is repaired, the kitchen comes back.
- **Windows**: what they show was true once, moves forward, catches up, is exactly
  what the kitchen has when nothing is under way, and is never the state of a
  kitchen that is gone.
- **Ordering**: a form waits only for its own order and not forever; it closes for
  its own success only.
- **Timing**: the estimate of the skew is as good as the last live message; a
  countdown tells the truth up to a second and a message's age, never starts above
  the assigned time, and agrees with its bar.
- **Wire**: what is published is recognised by those it is for and nobody else; an
  order that arrives is cooked or its refusal comes back; the window's rules are
  the kitchen's; a notice stays until its own time has come.

`PROJECT.json` lists the hazards of the code line by line, with the properties
aimed at each.

## The modules

| Module | Models | State and actions |
| --- | --- | --- |
| `Store` | `InMemoryStore` | `orders[t]`, `version[t]`, `epoch`, `seen`; one operator per method, and `StoreSpec`, the store under any caller |
| `Lifecycle` | what is promised about one order (`OrderStatus`, EVENT-CONTRACT §4) | abstract specification; `MCStore` maps the store to it |
| `Follower` | what the windows promise: each shows states that a table has had, and goes on to later ones only | abstract specification; `MCRestaurant` maps the whole system to it |
| `Kitchen` | `Kitchen`, extends `Store` | `main`, the program counter of the one caller; `cooks`, the tasks by order; `retained` and `status`, the broker's slots |
| `Transport` | `MqttTransport`, `run`, the process, extends `Kitchen` | `session`, `will`; connections, faults, crashes |
| `Browser` | a window's connection and view | `connection`, `view`, `kitchen`, `inbox` |
| `Restaurant` | composes `Transport` and `Browser` | what the kitchen publishes is forwarded to the windows |
| `OrderFlow` | dialog, form, reset button, `publish` | `activeTable`, `submitting`, `requests` |
| `Display` | the countdown and bar of a dish, from the kitchen's clock to the screen | `time` and `skew`, the two clocks; `wire`, `slot`, `announcing`, the messages with their stamps; `nowMs`, `ticking`, `offset`, the window's stores |
| `Topics` | topics, filters, and the recognisers of both sides | operators only |
| `Wire` | an order from validation to acceptance or refusal, and the notices, over `Topics` | `orders`, each with what became of it; `refusals` under way; `notices`, `timers` |
| `MCStore`, `MCKitchen`, `MCTransport`, `MCRestaurant` | instances for TLC | each adds the history variables its properties speak of |
| `StoreProofs`, `MCStoreProofs`, `KitchenProofs`, `TransportProofs`, `RestaurantProofs`, `OrderFlowProofs`, `DisplayProofs`, `WireProofs` | theorems | |

**Atomicity.** asyncio switches tasks only at an `await`, so an action is the code
from one suspension to the next. A publish hands its packet to the client before
it suspends; an action that publishes therefore changes the broker's slot, and a
later action (`Spawn`, `PublishNext`, `Greeted`, ...) continues after the
acknowledgement or its timeout. `announce_online`, `handle_message` and `shutdown`
never overlap, because one coroutine calls them in turn; they share `main`. In the
window, an event handler runs with its promise continuations and effects before
the next event, so each is one action.

**Abstractions.** In `Store` to `OrderFlow`, an order id is the number of the order, an epoch the number of
the generation (both are uuids: fresh). Names, times and texts are left out. A
table's state is its status by order id; insertion order is the order of the ids.
A publish is lost exactly while `link` is down. That a
publish may raise something else than MqttError (`PublishFails`) is part of `Kitchen` alone:
what `Transport` and `Restaurant` show, `DishesSurviveReconnect` above all, is shown for
publishes that raise nothing else. Cook times are not modelled, so
dishes finish in any order. Messages that change nothing and are answered by
nothing have no action.

`Display` has one table and one window: tables share the estimate of the skew, and
any message moves it. Time passes in units of which `Second` make a second, so that
stale fractions of a second exist. Its environment is assumed to handle a live
message at most `MaxLatency` after its state was stamped, to fire interval timers
when they are due, and to run the two clocks at the same rate. `DisplayKeepsInv`
needs nothing else, and no bound on the skew.

In `Wire` a food name is a sequence of classes of characters, those that Python and
JavaScript treat differently; a payload is complete, incomplete or no object. How
full the kitchen is, is a free choice (`Kitchen` counts), and its memory of client
orders is large and never reset (`Store` bounds it). A refusal may be lost at any
time, because it is neither retained nor queued; this is also what a window without
a connection amounts to. The orders of other programs may name any client: a window,
nobody, a stranger, or one with a wildcard, to which the MQTT client refuses to publish.
A level that `isdigit` takes for a number and `int` does not is dropped like a word.

Operators whose names say what is wrong with them (`EvictedOneTooFew`,
`SubscribedUnannounced`, ...) are used by no action. Each is a plausible mistake in
the definition after it, and `PROJECT.json` names, for each property of a passing
run, the one it catches.

## The runs

| Run | Question | Bounds |
| --- | --- | --- |
| `store` | bounds, LRU, versions, nothing is dropped but for later orders, lifecycle (refinement of `Lifecycle`) | 2 tables, 3 client ids in a cache of 2, history 1, 4 orders, 2 epochs |
| `kitchen` | capacity, ownership of orders, duplicates, forward publication, all coroutines interleaved, a publish may raise | 2 tables of 1 dish, 3 orders, cache 1, 1 reset |
| `kitchen_serving` | every dish gets its cook and is served, with a publisher that raises nothing (`SteadySpec`) | 2 tables, 2 orders, 1 reset |
| `transport` | Last Will, resynchronisation, recovery | 2 tables, 2 orders, 2 faults |
| `restaurant` | a window's view against the kitchen: it follows the tables (refinement of `Follower`), is exact when all is read, and catches up in the end | 2 tables, 1 order, 2 faults, 1 window |
| `order_flow` | dialog and requests; a request that timed out is delivered after all | 2 tables, 3 requests, 4 changes of the world |
| `display` | skew, countdown and bar | half seconds; a clock 1.5 s behind or 2 s ahead; cook times 0 and 2 s; latency 1.5 s; 2 dishes; 2 announcements or lost connections; 2.5 s |
| `wire` | routing, validation, answers, notices and their timers | 2 windows, 2 orders of which 1 foreign, each delivered up to twice; names of up to 4 of 4 classes of characters, at most 3 long; 1 visible notice |

*Why the bounds are enough to be interesting.* Two tables are what an announcement
needs to be overtaken: the first table of a batch is published with the snapshot,
the second is not. A cache smaller than the number of ids and a history smaller
than the number of dishes make both overflow. One reset makes two generations,
whose versions coincide. Two faults allow a broken link followed by a crash, a
broker restart or a stop, and a fault of the window beside one of the kitchen.
Three requests are an order of an earlier dialog, one of the present one, and a
third that should not be. Half a second is what it takes for a clock or a message to be stale by less
than a second; the latency and the skews are longer than a second, 0 is the cook time
that would be divided by, and two dishes are one to correct the clock by and one to
show. Four characters are a blank between two others, and one more than the limit; the
four classes are one that both sides strip, one that only the kitchen strips, one that
only the window strips, and a control character that the kitchen takes for a blank (the
other classes are left to the proof). One visible notice makes the second push the first away. Windows do not influence each other, so one is enough;
`VersionsNameStates` compares it with every copy of the state that is under way.

`MaxOrders`, `MaxEpochs`, `MaxFaults`, `MaxRequests`, `MaxChanges`, `MaxDishes`,
`MaxUpsets`, `MaxTime`, `MaxTyped`, `MaxForeign` and `MaxCopies` bound behaviours and nothing else; the faults include stops and crashes. Deadlock is not
checked: the kitchen may be stopped, and a bounded behaviour ends.

**Fairness.** Coroutines that are ready run, sleeps end, and a publish returns by
acknowledgement or timeout: weak fairness of `Resume` and of each cook; in
`Transport` of the session's steps and the Last Will. Ending a session whose link
is gone is strongly fair: the consumer first works off the messages it has
received, which are finitely many, so it cannot find another one forever. Windows
handle their messages, and mqtt.js retries (weak). Timers in a window fire, those of
notices in `Wire` too. `FailedOrdersStillArrive` assumes in its premise that the
window stays connected from some time on and that its packets move then; a packet
that is never sent needs no promise.
Orders, resets, faults, stops and restarts are never forced.

## What the runs found

Each is a run that ends in a counterexample, with the text the code contradicts in
`PROJECT.json`.

1. **A served dish may never be seen** (`served_not_visible`, `store.py:172`).
   Finished orders are evicted in order of arrival. A slow dish that finishes after
   `max_served_history` younger ones is the first to be evicted, by the call that
   marks it SERVED. `Lifecycle` allows an order to finish and leave in one step for
   this reason. `LatestAreKept` bounds the loss: an order only goes when its table
   holds `max_served_history` finished ones that arrived after it.
2. **An announcement can publish the past** (`stale_announcement`,
   `kitchen.py:109`). The snapshots are taken once, the tables published one after
   the other; a dish served in between is overwritten in its retained slot. Windows
   that hold the newer version are not misled, new ones are.
   `ResyncRepairsUnlessOvertaken` and `PublishesForward` show that this is the only
   way a repair is incomplete and the only way a slot goes back, and
   `QuietWindowsShowTheKitchen` that it is the only reason for which a window that has
   read everything differs from the kitchen that serves it.
3. **A dish without a cook** (`dish_without_cook`, `kitchen.py:194`). The task is
   created after the first publish. MqttError is caught in the publisher; any other
   exception leaves the order COOKING forever. For the same reason no step of the
   model marks an order FAILED: the one call in `_cook` that can raise comes after
   the order is SERVED, and `_mark_failed` then finds nothing to do.
4. **An answer closes the wrong dialog** (`dialog_closed`, `App.svelte:69`).

Provisos that came up on the way, which are limits of the design more than mistakes:

- `ShownTablesAreLive` speaks of a kitchen the broker knows to be gone. A broker that
  restarts without persistence has neither status nor Last Will, and if the kitchen
  was stopped meanwhile, a window that held ONLINE goes on showing its tables.
- A dialog opened in time can be submitted after the kitchen has gone OFFLINE
  (`App.svelte:61`): the broker acknowledges, the dialog closes, nobody cooks.
- A request that was reported as failed after ten seconds may still be delivered
  (`FailedOrdersStillArrive`). A user who has ordered again then gets two dishes.
- `NeverMoreThanAssigned` and `BarAndCountdownAgree` speak of dishes placed before the
  state that the skew was last estimated from (`Calibrated`). An announcement's snapshot
  may be older than a dish that was placed during the announcement and arrived first:
  it moves the estimate by its age, and the countdown of the newer dish can show
  a second more than was assigned. Before the first live message the skew is
  not corrected at all.
- "'9s left' means at least 9 seconds remain" (`state.ts:93`) holds up to the age of the
  clock store and of the last message: `CountdownIsClose` has the exact bound.
- A name of nothing but U+0085, with or without blanks between, passes the window and
  is refused by the kitchen, since U+0085 is a blank to Python only
  (`WindowNamesAreAccepted`); one the kitchen would take
  may be refused by the window, which counts UTF-16 units.
- The bar can be full with a second left: 99.5 % is rounded up, so a dish of 200 seconds
  or more (the default is 10 to 30, `config.py:63`, without an upper limit) says
  "finishing" before its countdown does (`BarAndCountdownAgree` has the exact bound).
- The second copy of a *refused* order, delivered when there is room, is cooked.

## The proofs

tlapm checks every step; nothing is assumed but the named assumptions on the
constants: tables are a finite non-empty set of positive numbers, the cache and the
capacity limits are at least 1 (as `config.py` demands), the bounds are numbers, no
window's generated client id is the wildcard of a filter, and the two words that
`OrderFlow` uses beside tables are no tables.

- `StoreProofs`, about `StoreSpec`. `StoreTypeCorrect`: every status map is over ids
  handed out. `HistoryStaysBounded`: by induction on steps, from the lemma that
  trimming *any* finite history leaves at most `MaxServedHistory` finished orders
  (`TrimmedIsBounded`). The lemma looks at the least finished order that was kept:
  fewer than `MaxServedHistory` finished ones are above it. `VersionsIdentify`: an
  action property, by cases on the store's steps. `LatestStay`: a step makes at
  most one finished order too many (`OneTooMany`), and trimming such a history removes an
  order only where `MaxServedHistory` younger finished ones remain (`EvictedIsOldest`).
- `KitchenProofs`, about `Spec`. `KitchenImplementsStore`: every step of the kitchen
  is a store step or leaves the store alone, so the theorems above carry over.
  `CapacityIsRespected` is inductive with the store's types: an acceptance adds one
  to a count that was below its limit, the other steps only remove. `TypeCorrect`.
  `EveryCookHasItsOrder` is not inductive alone: `Spawn` needs to know that the order
  in the consumer's hands still cooks. The invariant `CookInv` adds
  `ConsumerHoldsOrder`: that order is COOKING and no task has it. From `CookInv`
  follows in turn `EveryOrderHasACook`, of `SteadySpec`, in which no publish raises: serving an
  order takes it from its only owner. `PublicationGoesForward`, an action property,
  rests on an invariant of three parts: a retained slot is never ahead of the table
  (`SlotsArePast`), nor is a batch (`BatchIsPast`), and while a reset republishes,
  nothing cooks that could overtake it (`ResetIsAlone`).
  `AcceptedOnlyOnce`, of the specification with the history of acceptances (`MCKitchen`):
  the cache holds the last accepted orders in their order, without a repetition
  (`SeenIsLatest`), so an order it does not hold is further back than it is long.
- `MCStoreProofs`, about the specifications of `MCStore`. `StoreImplementsLifecycle`:
  under the mapping of `MCStore`, every step of the store is one of `Lifecycle` or a
  stutter. It needs that an order is at one table only (`OrdersAreAtOneTable`), and that
  trimming only takes finished orders away (`TrimmingAges`). `CacheIsMostRecent`: the
  cache is an LRU. The invariant `RecentInv` adds that every id in the cache has been
  used, and that what was dropped was used before everything that is left; a use moves
  one id behind the others and leaves the order of the rest alone.
- `TransportProofs`, about `TSpec`. `TransportSteps` splits every step into one of the
  kitchen's own, a change of the link or the broker (`Outside`), a stop in the middle of
  something (`Halts`) and a new process (`Replaced`); with it the kitchen's lemmas carry
  over: `TransportImplementsStore`, `TransportTypeCorrect`, `CapacityOverRestarts`.
  `OnlineStaysBacked` strengthens the property by what is about to be published
  (`Backed`). `ServingStaysAnnounced` needs `Greets`, by which a session that serves
  over an unbroken link has greeted over it, and `KnowsItsPlace`, what the running
  publication has done so far. `DishesAlwaysSurvive` is the ownership of
  `KitchenProofs`, kept by everything but the end of the process.
  `OnlyOvertakenTablesAreStale`, of the specification with the history `overtaken`
  (`MCTransport`), says that the race of the `stale_announcement` run is the only one. Its
  invariant `RepairInv` speaks of the middle of an announcement, where the property says
  nothing yet: each table is repaired, still in the batch, to be reset or overtaken
  (`Repaired`); what the batch holds of a table is its present state unless it was
  overtaken (`BatchIsPresent`); and no dish can overtake a reset (`ResetIsQuiet`).
- `RestaurantProofs`, about `RSpec`, for any number of windows. `VersionsAlwaysName`:
  a step makes at most one new state of a table circulate, its new snapshot, and that is
  of a later generation or a higher version than all that do (`VersionsGoOnNaming`).
  `WindowsFollowTheTables` is a refinement: mapped by the history of the tables, the
  system implements `Follower`. That windows go forward needs more than versions, because
  a window accepts any state of another generation: what it shows, what is on its way to
  it and what is retained come in the order of their generations (`StreamsInOrder`), which
  every publish, subscription and fault preserves. That nothing shown is made up rests on
  `PastIs`: whatever circulates, in a slot, an inbox, a batch or a window, is a state
  the table has had, and its present state is later than all the others; a step adds
  nothing but a present state to what circulates (`NothingInvented`).
  `RestaurantKeepsItsKitchen` and `RestaurantImplementsStore` carry the
  theorems about the kitchen over: a step of the restaurant is one of `Transport` or only
  counts a fault (`RestaurantSteps`). So do `RestaurantKeepsItsStore`, for the theorems
  about the store, and `OrdersLiveOnce`: seen from the whole system, faults
  and crashes included, an order's life is that of `Lifecycle`. `QuietIsCaughtUp` says that nothing passes a window
  by. Its invariant `Abreast` accounts for what is under way: each retained state is shown
  (or a newer one is), or it is in the inbox, and the retained status is the last one in
  the inbox or, if there is none in it, the one shown. `VersionsAlwaysName` is what makes it
  safe to drop a repeated version. `DeadKitchensAreHidden`
  follows from it and `OnlineStaysBacked`. `QuietShowsTheKitchen` puts both ends together:
  with `ServingStaysAnnounced`, a window that has read everything shows the kitchen that
  serves, and none of its predecessors; and with the invariant of
  `OnlyOvertakenTablesAreStale`, which `RepairsHold` carries over, each of its tables is exactly what the
  store has, unless it is about to be reset or was overtaken. These two theorems
  with histories are about `MCRestaurantSpec`, which behaves as `RSpec` does
  (`HistoryIsBeside`).
- `OrderFlowProofs`, about `FlowSpec`. `WaitsStayOwed` and `OrdersGoOneByOne` are one
  invariant with the types: beside them, orders are made in dialogs and resets outside
  (`MadeInDialogs`), and an open form that does not wait has no order of its own under
  way unless an earlier dialog's has failed (`QuietFormIsSettled`).
- `WireProofs`, about `WireSpec`. `WireTypesAreCorrect`: the difficult part is the list of
  notices, from which timers and overflow remove. `NothingEverGoesAstray` by looking at each kind of
  topic on each side, and the invariant that refusals go to the salvaged address of
  their order. `CookingStaysUnrefused`: an accepted order remains acceptable and
  remembered (`AcceptedAreRemembered`), so its copies find no reason to be refused.
  `EveryOrderIsAnswered`: a handled order that named an address is accepted, or its refusal is under
  way, lost or told, whoever handled which copy. `TimersTakeTheirOwn`, an action property: notices are
  numbered upwards, so what a full list lacks is older than all of it (`PushedOff`), and what a
  timer filters out is its own notice or nothing (`DismissedIs`). `WindowsValidateEnough` is about names of
  any length: if the kitchen refuses a name, then it strips it to nothing or finds it too
  long or finds a control character in it; the last two the form has excluded, since
  its limit counts at least as many units and its trimming leaves nothing that is a
  blank to Python, but U+0085. The stripping of a name is described by where it begins and
  ends, not by recursion, which is what makes this provable.
- `DisplayProofs`, about `DisplaySpec`. The invariant `DisplayInv` says, beside types,
  that live messages are no older than `MaxLatency` (`MessagesAreFresh`), that the
  estimate exceeds the skew by at most the time since the stamp it was taken from
  (`EstimateIsAged`), and that whoever counts down has a clock less than a second old
  (`ClockIsRead`). `OffsetStaysHonest` is its second part. `CountdownStaysClose` and
  `NeverShowsMoreThanAssigned` follow from the last two by arithmetic: the time shown
  is the time left plus the age of the clock plus the error of the estimate; a dish that
  is no newer than the estimate's stamp has been cooking for at least that error,
  so less than a second remains above the assigned time, and rounding
  down removes it (`QuotientBelow`). `FiguresAgree` writes the two rounded quotients with
  their remainders (`Shares`, `FullBar`), after which the inequalities are linear.
  `DisplayTypesAreCorrect` needs to bound the versions under way, which count the dishes
  placed and served (`VersionCounts`).

Every invariant and every action property of a passing run is a theorem. Two of them were
stated too strongly at first and passed their runs: the attempts to prove them led to
names and cook times that the bounds had left out. The one is an order for U+0085, a blank
and U+0085 again, for which the run `wire` now has longer names; the other is the full bar
of a long dish. Both properties now say what the code does.

Left to TLC are the liveness properties, which rest on fairness and are out of the
prover's reach: `NoDishCooksForever`, `RecoversToServing`, `WindowsCatchUp`,
`ShownTablesAreLive`, `FailedOrdersStillArrive`, `WaitsEnd` and `NoticesEnd`. Of some the
safe half is proved: `EveryOrderHasACook`, `WaitsStayOwed`, `QuietIsCaughtUp`, `DeadKitchensAreHidden`. The four
counterexamples are of course TLC's.

## Not modelled

The type checks of single fields and the parsers of table and status messages (an
unreadable message changes nothing), the duration of a finished dish and other
wording, the order of tables on the page, logging, reading the configuration, markup,
the development broker. A broker that silently refuses subscriptions, and two
kitchens under one client id (which the deployment rules out), are outside the model.

## Plan

Everything planned is done: all modules above, their runs, and theorems for every
module with behaviours. What would come next: two browser windows that order from one
table in `Restaurant` rather than orders out of nowhere (a composition with
`OrderFlow`, too large for TLC beside the faults), and the parsers of table and status
messages as further classes of payloads in `Wire`.
