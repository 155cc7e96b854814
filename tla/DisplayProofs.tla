--------------------------- MODULE DisplayProofs ---------------------------
(***************************************************************************)
(* Theorems about Display, for every rate of the tick, every skew, every   *)
(* bound on the latency, and any number of dishes with any cook times.     *)
(***************************************************************************)
EXTENDS Display, FiniteSetTheorems, SequenceTheorems, TLAPS

-----------------------------------------------------------------------------
(* The inductive invariant *)

SomeDish == [placed : Nat, cook : Nat, status : {"COOKING", "SERVED"}]
SomeStates == [version : Nat, dishes : Seq(SomeDish)]
SomeMessages == [state : SomeStates, made : Nat, retained : BOOLEAN]

\* The types, as far as the other conjuncts rest on them.
Types ==
    /\ time \in Nat /\ skew \in Int
    /\ table \in SomeStates /\ view \in SomeStates
    /\ announcing \in Seq(SomeMessages)
    /\ slot \in Seq(SomeMessages)
    /\ wire \in Seq(SomeMessages)
    /\ ticking \in BOOLEAN
    /\ nowMs \in Int /\ offset \in Int /\ heardOf \in Int

\* A message is not from the future, and a live one is not late.
Fresh(message) ==
    /\ message.made <= time
    /\ message.retained \/ time <= message.made + MaxLatency

MessagesAreFresh ==
    /\ \A n \in 1..Len(wire) : Fresh(wire[n])
    /\ \A n \in 1..Len(announcing) : Fresh(announcing[n])
    /\ \A n \in 1..Len(slot) : slot[n].retained /\ slot[n].made <= time

\* The estimate is off by what was the age of the message it was taken from.
EstimateIsAged ==
    heardOf # NotYet => /\ offset - skew \in 0..MaxLatency
                        /\ offset - skew <= time - heardOf

\* Whoever counts down has a clock that is less than a second old.
ClockIsRead ==
    /\ ShowsCooking(view) => ticking
    /\ ticking => nowMs <= time + skew /\ time + skew < nowMs + Second

DisplayInv == Types /\ MessagesAreFresh /\ EstimateIsAged /\ ClockIsRead

-----------------------------------------------------------------------------
(* Lemmas *)

\* Rounding down loses less than a second.
LEMMA Quotient ==
    ASSUME NEW a \in Nat, NEW b \in Nat \ {0}
    PROVE  /\ a \div b \in Nat
           /\ (a \div b) * b <= a
           /\ a < (a \div b) * b + b
OBVIOUS

\* A number below c + 1 seconds shows as at most c.
LEMMA QuotientBelow ==
    ASSUME NEW a \in Nat, NEW b \in Nat \ {0}, NEW c \in Nat, a < c * b + b
    PROVE  a \div b <= c
<1> DEFINE q == a \div b
<1>1. q \in Nat /\ q * b <= a
  BY Quotient
<1>2. SUFFICES ASSUME c + 1 <= q
               PROVE  FALSE
  BY <1>1
<1>3. PICK d \in Nat : q = c + 1 + d
  <2>1. q - (c + 1) \in Nat /\ q = c + 1 + (q - (c + 1))
    BY <1>1, <1>2
  <2> QED
    BY <2>1
<1> HIDE DEF q
<1>4. q * b = c * b + b + d * b
  BY <1>3
<1>5. d * b \in Nat
  BY <1>3
<1>6. c * b \in Nat /\ q * b \in Nat
  BY <1>1
<1> QED
  BY <1>1, <1>4, <1>5, <1>6

\* Publishing a fresh live message keeps everything under way fresh.
LEMMA PublishKeepsFresh ==
    ASSUME Types, MessagesAreFresh, MaxLatency \in Nat,
           NEW message \in SomeMessages, Fresh(message),
           Publish(message), UNCHANGED time
    PROVE  /\ slot' \in Seq(SomeMessages)
           /\ wire' \in Seq(SomeMessages)
           /\ (\A n \in 1..Len(wire) : Fresh(wire[n]))'
           /\ \A n \in 1..Len(slot') : slot'[n].retained /\ slot'[n].made <= time'
<1> DEFINE kept == [message EXCEPT !.retained = TRUE]
<1>1. kept \in SomeMessages /\ kept.retained /\ kept.made = message.made
  BY DEF SomeMessages
<1>2. slot' = <<kept>>
  BY DEF Publish
<1>3. slot' \in Seq(SomeMessages) /\ Len(slot') = 1 /\ slot'[1] = kept
  BY <1>1, <1>2
<1>4. wire' \in {wire, Append(wire, message)}
  BY DEF Publish
<1>5. wire' \in Seq(SomeMessages)
  BY <1>4, AppendProperties DEF Types
<1>6. \A n \in 1..Len(wire') : Fresh(wire'[n])
  <2>1. CASE wire' = wire
    BY <2>1 DEF MessagesAreFresh
  <2>2. CASE wire' = Append(wire, message)
    BY <2>2, AppendProperties DEF Types, MessagesAreFresh
  <2> QED
    BY <1>4, <2>1, <2>2
<1>7. (\A n \in 1..Len(wire) : Fresh(wire[n]))'
  BY <1>6 DEF Fresh
<1>8. \A n \in 1..Len(slot') : slot'[n].retained /\ slot'[n].made <= time'
  <2>1. kept.retained /\ kept.made <= time'
    BY <1>1 DEF Fresh
  <2>2. 1..Len(slot') = {1}
    BY <1>3
  <2> QED
    BY <1>3, <2>1, <2>2
<1> QED
  BY <1>3, <1>5, <1>7, <1>8

-----------------------------------------------------------------------------
(* The steps *)

LEMMA InitInv == DisplayInit => DisplayInv
<1> SUFFICES ASSUME DisplayInit
             PROVE  DisplayInv
  OBVIOUS
<1>1. skew \in Int /\ time = 0 /\ nowMs \in Int
  BY DisplayAssumption DEF DisplayInit, Skews, DateNow
<1>2. EmptyTable \in SomeStates /\ DOMAIN EmptyTable.dishes = {}
  BY DEF EmptyTable, SomeStates
<1>3. << >> \in Seq(SomeMessages)
  BY EmptySeq
<1>4. Types
  <2>1. table \in SomeStates /\ view \in SomeStates /\ time \in Nat
    BY <1>1, <1>2 DEF DisplayInit
  <2>2. /\ announcing \in Seq(SomeMessages)
        /\ slot \in Seq(SomeMessages)
        /\ wire \in Seq(SomeMessages)
    BY <1>3 DEF DisplayInit
  <2>3. ticking \in BOOLEAN /\ offset \in Int /\ heardOf \in Int
    <3>1. ticking = FALSE /\ offset = 0 /\ heardOf = NotYet
      BY DEF DisplayInit
    <3>2. NotYet \in Int
      BY DEF NotYet
    <3>3. ticking \in BOOLEAN
      BY <3>1
    <3> QED
      BY <3>1, <3>2, <3>3
  <2> QED
    BY <1>1, <2>1, <2>2, <2>3 DEF Types
<1>5. MessagesAreFresh
  BY DEF DisplayInit, MessagesAreFresh
<1>6. EstimateIsAged
  BY DEF DisplayInit, EstimateIsAged
<1>7. ClockIsRead
  BY <1>2 DEF DisplayInit, ClockIsRead, ShowsCooking
<1> QED
  BY <1>4, <1>5, <1>6, <1>7 DEF DisplayInv

\* A step that lets a message out and leaves the clocks and the window alone.
LEMMA PublicationKeepsInv ==
    ASSUME DisplayInv, NEW message \in SomeMessages, Fresh(message), Publish(message),
           table' \in SomeStates, UNCHANGED <<time, skew, windowVars>>,
           announcing' \in {announcing, << >>}
    PROVE  DisplayInv'
<1> USE DEF DisplayInv
<1>1. MaxLatency \in Nat
  BY DisplayAssumption
<1>2. /\ slot' \in Seq(SomeMessages)
      /\ wire' \in Seq(SomeMessages)
      /\ (\A n \in 1..Len(wire) : Fresh(wire[n]))'
      /\ \A n \in 1..Len(slot') : slot'[n].retained /\ slot'[n].made <= time'
  BY <1>1, PublishKeepsFresh
<1>3. announcing' \in Seq(SomeMessages)
  BY EmptySeq DEF Types
<1>4. Types'
  BY <1>2, <1>3 DEF Types, windowVars
<1>5. (\A n \in 1..Len(announcing) : Fresh(announcing[n]))'
  BY DEF MessagesAreFresh, Fresh
<1>6. MessagesAreFresh'
  BY <1>2, <1>5 DEF MessagesAreFresh
<1>7. EstimateIsAged'
  BY DEF EstimateIsAged, windowVars
<1>8. ClockIsRead'
  BY DEF ClockIsRead, ShowsCooking, Cooking, windowVars
<1> QED
  BY <1>4, <1>6, <1>7, <1>8

LEMMA PlaceKeepsInv ==
    ASSUME DisplayInv, NEW cook \in Cooks, Place(cook)
    PROVE  DisplayInv'
<1>1. Types /\ MaxLatency \in Nat /\ cook \in Nat
  BY DisplayAssumption DEF DisplayInv
<1>2. Dish(cook) \in SomeDish
  BY <1>1 DEF Types, Dish, SomeDish
<1>3. table.dishes \in Seq(SomeDish) /\ table.version \in Nat
  BY <1>1 DEF Types, SomeStates
<1>4. Append(table.dishes, Dish(cook)) \in Seq(SomeDish)
  BY <1>2, <1>3, AppendProperties
<1>5. table' \in SomeStates
  BY <1>3, <1>4 DEF Place, SomeStates
<1>6. PICK message : message = [state |-> table', made |-> time, retained |-> FALSE]
  OBVIOUS
<1>7. message \in SomeMessages /\ Fresh(message)
  BY <1>1, <1>5, <1>6 DEF Types, SomeMessages, Fresh
<1>8. Publish(message) /\ UNCHANGED <<time, skew, windowVars, announcing>>
  BY <1>6 DEF Place
<1> QED
  BY <1>5, <1>7, <1>8, PublicationKeepsInv

LEMMA ServeKeepsInv ==
    ASSUME DisplayInv, NEW n \in DOMAIN table.dishes, Serve(n)
    PROVE  DisplayInv'
<1>1. Types /\ MaxLatency \in Nat
  BY DisplayAssumption DEF DisplayInv
<1>2. table.dishes \in Seq(SomeDish) /\ table.version \in Nat
  BY <1>1 DEF Types, SomeStates
<1> DEFINE served == [table.dishes[n] EXCEPT !.status = "SERVED"]
<1>3. n \in 1..Len(table.dishes)
  BY <1>2
<1>4. served \in SomeDish
  <2>1. table.dishes[n] \in SomeDish
    BY <1>2, <1>3
  <2> QED
    BY <2>1 DEF SomeDish
<1>5. [table.dishes EXCEPT ![n] = served] \in Seq(SomeDish)
  BY <1>2, <1>3, <1>4, ExceptSeq
<1>6. table' \in SomeStates
  BY <1>2, <1>5 DEF Serve, SomeStates
<1>7. PICK message : message = [state |-> table', made |-> time, retained |-> FALSE]
  OBVIOUS
<1>8. message \in SomeMessages /\ Fresh(message)
  BY <1>1, <1>6, <1>7 DEF Types, SomeMessages, Fresh
<1>9. Publish(message) /\ UNCHANGED <<time, skew, windowVars, announcing>>
  BY <1>7 DEF Serve
<1> QED
  BY <1>6, <1>8, <1>9, PublicationKeepsInv

LEMMA TakeSnapshotKeepsInv ==
    ASSUME DisplayInv, TakeSnapshot
    PROVE  DisplayInv'
<1> USE DEF DisplayInv
<1>1. MaxLatency \in Nat
  BY DisplayAssumption
<1>2. Snapshot \in SomeMessages /\ Fresh(Snapshot)
  BY <1>1 DEF Snapshot, SomeMessages, Types, Fresh
<1>3. announcing' = <<Snapshot>> /\ UNCHANGED <<time, skew, table, linkVars, windowVars>>
  BY DEF TakeSnapshot
<1>4. Types'
  BY <1>2, <1>3 DEF Types, linkVars, windowVars
<1>5. MessagesAreFresh'
  BY <1>2, <1>3 DEF MessagesAreFresh, Fresh, linkVars
<1>6. EstimateIsAged' /\ ClockIsRead'
  BY <1>3 DEF EstimateIsAged, ClockIsRead, ShowsCooking, Cooking, windowVars
<1> QED
  BY <1>4, <1>5, <1>6

LEMMA PublishSnapshotKeepsInv ==
    ASSUME DisplayInv, PublishSnapshot
    PROVE  DisplayInv'
<1>1. Types /\ MessagesAreFresh
  BY DEF DisplayInv
<1>2. announcing \in Seq(SomeMessages) /\ announcing # << >>
  BY <1>1 DEF Types, PublishSnapshot
<1>3. Head(announcing) = announcing[1] /\ 1 \in 1..Len(announcing)
  BY <1>2
<1>4. PICK message : message = Head(announcing)
  OBVIOUS
<1>5. message \in SomeMessages /\ Fresh(message)
  BY <1>1, <1>2, <1>3, <1>4 DEF MessagesAreFresh
<1>6. Publish(message) /\ announcing' = << >> /\ UNCHANGED <<time, skew, table, windowVars>>
  BY <1>4 DEF PublishSnapshot
<1>7. table' \in SomeStates
  BY <1>1, <1>6 DEF Types
<1> QED
  BY <1>5, <1>6, <1>7, PublicationKeepsInv

LEMMA LinkKeepsInv ==
    ASSUME DisplayInv, Connect \/ Disconnect
    PROVE  DisplayInv'
<1> USE DEF DisplayInv
<1>1. /\ wire' \in {slot, << >>}
      /\ UNCHANGED <<time, skew, kitchenVars, slot, windowVars>>
  BY DEF Connect, Disconnect
<1>2. wire' \in Seq(SomeMessages)
  BY <1>1, EmptySeq DEF Types
<1>3. Types'
  BY <1>1, <1>2 DEF Types, kitchenVars, windowVars
<1>4. \A n \in 1..Len(slot) : Fresh(slot[n])
  BY DEF MessagesAreFresh, Fresh
<1>5. MessagesAreFresh'
  <2>1. CASE wire' = slot
    BY <1>1, <1>4, <2>1 DEF MessagesAreFresh, Fresh, kitchenVars
  <2>2. CASE wire' = << >>
    BY <1>1, <2>2 DEF MessagesAreFresh, Fresh, kitchenVars
  <2> QED
    BY <1>1, <2>1, <2>2
<1>6. EstimateIsAged' /\ ClockIsRead'
  BY <1>1 DEF EstimateIsAged, ClockIsRead, ShowsCooking, Cooking, windowVars
<1> QED
  BY <1>3, <1>5, <1>6

\* A fresh message leaves an estimate that is off by no more than the message's age.
LEMMA MeasureKeepsEstimate ==
    ASSUME Types, EstimateIsAged, NEW message \in SomeMessages, Fresh(message),
           Measure(message), UNCHANGED <<time, skew>>
    PROVE  EstimateIsAged' /\ offset' \in Int /\ heardOf' \in Int
<1>1. message.made \in Nat
  BY DEF SomeMessages
<1>2. time \in Nat /\ skew \in Int /\ offset \in Int /\ heardOf \in Int
  BY DEF Types
<1>3. CASE message.retained
  <2>1. offset' = offset /\ heardOf' = heardOf
    BY <1>3 DEF Measure
  <2> QED
    BY <1>2, <2>1 DEF EstimateIsAged
<1>4. CASE ~ message.retained
  <2>1. offset' = DateNow - message.made /\ heardOf' = message.made
    BY <1>4 DEF Measure
  <2>2. offset' = time + skew - message.made
    BY <1>1, <1>2, <2>1 DEF DateNow
  <2>3. message.made <= time /\ time <= message.made + MaxLatency
    BY <1>4 DEF Fresh
  <2>4. MaxLatency \in Nat
    BY DisplayAssumption
  <2>5. offset' \in Int /\ heardOf' \in Int
    BY <1>1, <1>2, <2>1, <2>2
  <2>6. offset' - skew' \in 0..MaxLatency /\ offset' - skew' <= time' - heardOf'
    BY <1>1, <1>2, <2>1, <2>2, <2>3, <2>4
  <2> QED
    BY <2>5, <2>6 DEF EstimateIsAged
<1> QED
  BY <1>3, <1>4

LEMMA IngestKeepsInv ==
    ASSUME DisplayInv, Ingest
    PROVE  DisplayInv'
<1> USE DEF DisplayInv
<1> DEFINE message == Head(wire)
<1>1. MaxLatency \in Nat /\ Second \in Nat \ {0}
  BY DisplayAssumption
<1>2. /\ message \in SomeMessages
      /\ Fresh(message)
      /\ Tail(wire) \in Seq(SomeMessages)
      /\ \A n \in 1..Len(Tail(wire)) : Fresh(Tail(wire)[n])
  BY HeadTailProperties DEF Ingest, Types, MessagesAreFresh
<1>3. /\ wire' = Tail(wire)
      /\ Measure(message)
      /\ SubscribeToClock(view')
      /\ UNCHANGED <<time, skew, kitchenVars, slot, connected>>
      /\ view' \in {message.state, view}
  BY DEF Ingest
<1>4. message.state \in SomeStates /\ message.made \in Nat /\ message.retained \in BOOLEAN
  BY <1>2 DEF SomeMessages
<1>5. EstimateIsAged' /\ offset' \in Int /\ heardOf' \in Int
  <2>1. PICK m : m = message
    OBVIOUS
  <2>2. m \in SomeMessages /\ Fresh(m) /\ Measure(m)
    BY <1>2, <1>3, <2>1
  <2> QED
    BY <1>3, <2>2, MeasureKeepsEstimate
<1>6. ClockIsRead' /\ ticking' \in BOOLEAN /\ nowMs' \in Int
  <2>1. /\ ticking' = (ticking \/ ShowsCooking(view'))
        /\ nowMs' = IF ~ ticking /\ ShowsCooking(view') THEN time + skew ELSE nowMs
    BY <1>3 DEF SubscribeToClock, DateNow
  <2>2. ShowsCooking(view)' <=> ShowsCooking(view')
    BY DEF ShowsCooking, Cooking
  <2>3. ticking' \in BOOLEAN
    BY <2>1 DEF Types, ShowsCooking
  <2>4. time + skew \in Int /\ nowMs' \in Int
    BY <2>1 DEF Types
  <2>5. CASE ~ ticking /\ ShowsCooking(view')
    <3>1. ticking' /\ nowMs' = time + skew
      BY <2>1, <2>5
    <3>2. time + skew <= time + skew /\ time + skew < time + skew + Second
      BY <1>1, <2>4
    <3>3. nowMs' <= time' + skew' /\ time' + skew' < nowMs' + Second
      BY <1>3, <3>1, <3>2
    <3> QED
      BY <2>4, <3>1, <3>3, <2>3 DEF ClockIsRead
  <2>6. CASE ~ (~ ticking /\ ShowsCooking(view'))
    <3>1. nowMs' = nowMs /\ (ticking' <=> ticking)
      BY <2>1, <2>6 DEF Types
    <3> QED
      BY <1>3, <2>1, <2>2, <2>6, <3>1 DEF ClockIsRead
  <2> QED
    BY <2>3, <2>4, <2>5, <2>6
<1>7. Types'
  BY <1>2, <1>3, <1>4, <1>5, <1>6 DEF Types, kitchenVars
<1>8. MessagesAreFresh'
  BY <1>2, <1>3 DEF MessagesAreFresh, Fresh, kitchenVars
<1> QED
  BY <1>5, <1>6, <1>7, <1>8

LEMMA StopReadingKeepsInv ==
    ASSUME DisplayInv, StopReading
    PROVE  DisplayInv'
<1> USE DEF DisplayInv
<1>1. /\ ~ ShowsCooking(view) /\ ticking' = FALSE
      /\ UNCHANGED <<time, skew, kitchenVars, linkVars, view, nowMs, offset, heardOf>>
  BY DEF StopReading
<1>2. ticking' \in BOOLEAN
  BY <1>1
<1>3. Types'
  BY <1>1, <1>2 DEF Types, kitchenVars, linkVars
<1>4. MessagesAreFresh' /\ EstimateIsAged'
  BY <1>1 DEF MessagesAreFresh, Fresh, EstimateIsAged, kitchenVars, linkVars
<1>5. ClockIsRead'
  BY <1>1 DEF ClockIsRead, ShowsCooking, Cooking
<1> QED
  BY <1>3, <1>4, <1>5

LEMMA TimePassesKeepsInv ==
    ASSUME DisplayInv, TimePasses
    PROVE  DisplayInv'
<1> USE DEF DisplayInv
<1>1. MaxLatency \in Nat /\ Second \in Nat \ {0}
  BY DisplayAssumption
<1>2. /\ time' = time + 1
      /\ UNCHANGED <<skew, kitchenVars, linkVars, view, ticking, offset, heardOf>>
      /\ nowMs' = IF ticking /\ time' + skew - nowMs >= Second THEN time' + skew ELSE nowMs
  BY DEF TimePasses
<1>3. Types'
  BY <1>2 DEF Types, kitchenVars, linkVars
<1>4. MessagesAreFresh'
  <2>1. \A m \in SomeMessages : Fresh(m) /\ ~ IsDue(m) => Fresh(m)'
    BY <1>1, <1>2 DEF SomeMessages, Fresh, IsDue, Types
  <2>2. wire' = wire /\ announcing' = announcing /\ slot' = slot
    BY <1>2 DEF kitchenVars, linkVars
  <2>3. \A n \in 1..Len(wire) : wire[n] \in SomeMessages /\ ~ IsDue(wire[n])
    BY DEF TimePasses, Types
  <2>4. \A n \in 1..Len(announcing) :
            announcing[n] \in SomeMessages /\ ~ IsDue(announcing[n])
    BY DEF TimePasses, Types
  <2>5. (\A n \in 1..Len(wire) : Fresh(wire[n]))'
    BY <2>1, <2>2, <2>3 DEF MessagesAreFresh, Fresh
  <2>6. (\A n \in 1..Len(announcing) : Fresh(announcing[n]))'
    BY <2>1, <2>2, <2>4 DEF MessagesAreFresh, Fresh
  <2>7. \A n \in 1..Len(slot) : slot[n].made \in Nat
    <3>1. \A n \in 1..Len(slot) : slot[n] \in SomeMessages
      BY DEF Types
    <3> QED
      BY <3>1 DEF SomeMessages
  <2>8. (\A n \in 1..Len(slot) : slot[n].retained /\ slot[n].made <= time)'
    BY <1>2, <2>2, <2>7 DEF MessagesAreFresh, Types
  <2> QED
    BY <2>5, <2>6, <2>8 DEF MessagesAreFresh
<1>5. EstimateIsAged'
  BY <1>2 DEF EstimateIsAged, Types
<1>6. ClockIsRead'
  <2>1. view' = view /\ ticking' = ticking /\ skew' = skew
    BY <1>2
  <2>2. (ShowsCooking(view) => ticking)'
    BY <2>1 DEF ClockIsRead, ShowsCooking, Cooking
  <2>3. ASSUME ticking
        PROVE  nowMs' <= time' + skew' /\ time' + skew' < nowMs' + Second
    BY <1>1, <1>2, <2>1, <2>3 DEF ClockIsRead, Types
  <2> QED
    BY <2>1, <2>2, <2>3 DEF ClockIsRead
<1> QED
  BY <1>3, <1>4, <1>5, <1>6

LEMMA StepKeepsInv ==
    ASSUME DisplayInv, [DisplayNext]_displayVars
    PROVE  DisplayInv'
<1>1. CASE UNCHANGED displayVars
  BY <1>1 DEF displayVars, kitchenVars, linkVars, windowVars, DisplayInv, Types,
              MessagesAreFresh, Fresh, EstimateIsAged, ClockIsRead, ShowsCooking, Cooking
<1>2. CASE DisplayNext
  BY <1>2, PlaceKeepsInv, ServeKeepsInv, TakeSnapshotKeepsInv, PublishSnapshotKeepsInv,
     LinkKeepsInv, IngestKeepsInv, StopReadingKeepsInv, TimePassesKeepsInv DEF DisplayNext
<1> QED
  BY <1>1, <1>2

-----------------------------------------------------------------------------
(* Theorems *)

\* Messages under way are as fresh as the environment promises, the estimate of the
\* skew is as good as its message was fresh, and whoever counts down has a live clock.
THEOREM DisplayKeepsInv == DisplaySpec => []DisplayInv
<1>1. DisplayInit => DisplayInv
  BY InitInv
<1>2. DisplayInv /\ [DisplayNext]_displayVars => DisplayInv'
  BY StepKeepsInv
<1> QED
  BY <1>1, <1>2, PTL DEF DisplaySpec

\* The estimate of the skew is honest at all times (stores.ts:63-74).
THEOREM OffsetStaysHonest == DisplaySpec => []OffsetIsHonest
<1>1. DisplayInv => OffsetIsHonest
  BY DEF DisplayInv, EstimateIsAged, OffsetIsHonest
<1> QED
  BY <1>1, DisplayKeepsInv, PTL

\* What a countdown rests on: a dish with its types, a clock that is less than a
\* second old, and the estimate of the skew.
LEMMA CountedDish ==
    ASSUME DisplayInv, NEW n \in Counting
    PROVE  /\ view.dishes[n].placed \in Nat /\ view.dishes[n].cook \in Nat
           /\ nowMs <= time + skew /\ time + skew < nowMs + Second
<1>1. Types /\ ClockIsRead
  BY DEF DisplayInv
<1>2. view.dishes \in Seq(SomeDish)
  BY <1>1 DEF Types, SomeStates
<1>3. n \in DOMAIN view.dishes /\ Cooking(view.dishes[n])
  BY DEF Counting
<1>4. view.dishes[n] \in SomeDish
  BY <1>2, <1>3
<1>5. ShowsCooking(view)
  BY <1>3 DEF ShowsCooking
<1> QED
  BY <1>1, <1>4, <1>5 DEF ClockIsRead, SomeDish

LEMMA AssignedInv == DisplayInv => NeverMoreThanAssigned
<1> SUFFICES ASSUME DisplayInv, NEW n \in Calibrated
             PROVE  RemainingSeconds(view.dishes[n]) <= view.dishes[n].cook
  BY DEF NeverMoreThanAssigned
<1>1. n \in Counting /\ view.dishes[n].placed <= heardOf
  BY DEF Calibrated
<1>2. PICK placed \in Nat, cook \in Nat :
          placed = view.dishes[n].placed /\ cook = view.dishes[n].cook
  BY <1>1, CountedDish
<1>3. nowMs <= time + skew /\ time + skew < nowMs + Second
  BY <1>1, CountedDish
<1>4. /\ time \in Nat /\ skew \in Int /\ nowMs \in Int /\ offset \in Int
      /\ heardOf \in Int /\ Second \in Nat \ {0}
  BY DisplayAssumption DEF DisplayInv, Types
<1>5. offset - skew <= time - heardOf
  <2>1. heardOf # NotYet
    BY <1>1, <1>2, <1>4 DEF NotYet
  <2> QED
    BY <2>1 DEF DisplayInv, EstimateIsAged
<1>6. PICK whole \in Nat : whole = cook * Second
  <2>1. cook * Second \in Nat
    BY <1>2, <1>4
  <2> QED
    BY <2>1
<1>7. PICK ready \in Nat : ready = placed + whole /\ ready = ExpectedReadyAt(view.dishes[n])
  <2>1. ExpectedReadyAt(view.dishes[n]) = placed + whole
    BY <1>2, <1>6, Zenon DEF ExpectedReadyAt
  <2> QED
    BY <1>2, <1>6, <2>1
<1> DEFINE left == ready - (nowMs - offset)
<1>8. left \in Int /\ left < whole + Second
  BY <1>1, <1>2, <1>3, <1>4, <1>5, <1>6, <1>7
<1>9. PICK clamped \in Nat : clamped = Clamped(left) /\ clamped < whole + Second
  BY <1>4, <1>6, <1>8 DEF Clamped
<1>10. RemainingSeconds(view.dishes[n]) = clamped \div Second
  BY <1>7, <1>9 DEF RemainingSeconds
<1>11. clamped \div Second <= cook
  BY <1>2, <1>4, <1>6, <1>9, QuotientBelow
<1> QED
  BY <1>2, <1>10, <1>11, Zenon

LEMMA CloseInv == DisplayInv => CountdownIsClose
<1> SUFFICES ASSUME DisplayInv, heardOf # NotYet, NEW n \in Counting
             PROVE  LET left == ExpectedReadyAt(view.dishes[n]) - time
                        shown == RemainingSeconds(view.dishes[n]) * Second
                    IN  /\ shown > left - Second
                        /\ shown <= Clamped(left + Second - 1 + MaxLatency)
  BY DEF CountdownIsClose
<1>1. PICK ready \in Nat : ready = ExpectedReadyAt(view.dishes[n])
  <2>1. PICK placed \in Nat, cook \in Nat :
            placed = view.dishes[n].placed /\ cook = view.dishes[n].cook
    BY CountedDish
  <2>2. placed + cook * Second \in Nat
    BY <2>1, DisplayAssumption
  <2> QED
    BY <2>1, <2>2 DEF ExpectedReadyAt
<1>2. nowMs <= time + skew /\ time + skew < nowMs + Second
  BY CountedDish
<1>3. /\ time \in Nat /\ skew \in Int /\ nowMs \in Int /\ offset \in Int
      /\ Second \in Nat \ {0} /\ MaxLatency \in Nat
  BY DisplayAssumption DEF DisplayInv, Types
<1>4. 0 <= offset - skew /\ offset - skew <= MaxLatency
  <2>1. offset - skew \in 0..MaxLatency
    BY DEF DisplayInv, EstimateIsAged
  <2> QED
    BY <1>3, <2>1
<1> DEFINE left == ready - time
           estimate == ready - (nowMs - offset)
<1>5. /\ left \in Int /\ estimate \in Int
      /\ left <= estimate /\ estimate <= left + Second - 1 + MaxLatency
  BY <1>1, <1>2, <1>3, <1>4
<1>6. PICK clamped \in Nat : clamped = Clamped(estimate)
  BY <1>5 DEF Clamped
<1>7. left <= clamped /\ clamped <= Clamped(left + Second - 1 + MaxLatency)
  BY <1>3, <1>5, <1>6 DEF Clamped
<1>8. RemainingSeconds(view.dishes[n]) = clamped \div Second
  BY <1>1, <1>6 DEF RemainingSeconds
<1>9. PICK shown \in Nat : shown = (clamped \div Second) * Second
  <2>1. (clamped \div Second) * Second \in Nat
    BY <1>3, Quotient
  <2> QED
    BY <2>1
<1>10. shown <= clamped /\ clamped < shown + Second
  BY <1>3, <1>9, Quotient
<1>11. Clamped(left + Second - 1 + MaxLatency) \in Nat
  BY <1>3, <1>5 DEF Clamped
<1>12. shown > left - Second /\ shown <= Clamped(left + Second - 1 + MaxLatency)
  <2> HIDE DEF left
  <2> QED
    BY <1>3, <1>5, <1>7, <1>10, <1>11
<1> QED
  BY <1>1, <1>8, <1>9, <1>12

\* A countdown never starts above the assigned cook time (state.ts:91), for every
\* skew, latency, rate of the clock and number of dishes.
THEOREM NeverShowsMoreThanAssigned == DisplaySpec => []NeverMoreThanAssigned
  BY AssignedInv, DisplayKeepsInv, PTL

\* A countdown is never more than a second low, and never high by more than the age
\* of a clock and of a message (state.ts:65-108).
THEOREM CountdownStaysClose == DisplaySpec => []CountdownIsClose
  BY CloseInv, DisplayKeepsInv, PTL

-----------------------------------------------------------------------------
(* The bar and the countdown *)

\* Seconds can be compared for the units they have.
LEMMA Cancel ==
    ASSUME NEW a \in Nat, NEW b \in Nat, NEW s \in Nat \ {0}, a * s < b * s + s
    PROVE  a <= b
<1>1. SUFFICES ASSUME b + 1 <= a
               PROVE  FALSE
  OBVIOUS
<1>2. PICK d \in Nat : a = b + 1 + d
  <2>1. a - (b + 1) \in Nat /\ a = b + 1 + (a - (b + 1))
    BY <1>1
  <2> QED
    BY <2>1
<1>3. a * s = b * s + s + d * s
  BY <1>2
<1>4. d * s \in Nat /\ b * s \in Nat /\ a * s \in Nat
  BY <1>2
<1> QED
  BY <1>3, <1>4

\* The seconds that have passed and the seconds that are left, both rounded down, are
\* the assigned ones or one less, wherever the clock stands.
LEMMA Shares ==
    ASSUME NEW s \in Nat \ {0}, NEW cook \in Nat, NEW spent \in Int,
           NEW elapsed \in Nat, elapsed = Clamped(spent) \div s,
           NEW left \in Nat, left = Clamped(cook * s - spent) \div s,
           left <= cook, left > 0
    PROVE  elapsed + left \in {cook - 1, cook}
<1>1. PICK whole \in Nat : whole = cook * s
  <2>1. cook * s \in Nat
    OBVIOUS
  <2> QED
    BY <2>1
<1>2. PICK passed \in Nat : passed = Clamped(spent)
  BY DEF Clamped
<1>3. PICK rest \in Nat : rest = Clamped(whole - spent)
  BY <1>1 DEF Clamped
<1>4. elapsed = passed \div s /\ left = rest \div s
  BY <1>1, <1>2, <1>3
<1>5. PICK es \in Nat : es = elapsed * s
  <2>1. elapsed * s \in Nat
    OBVIOUS
  <2> QED
    BY <2>1
<1>6. PICK ls \in Nat : ls = left * s
  <2>1. left * s \in Nat
    OBVIOUS
  <2> QED
    BY <2>1
<1>7. es <= passed /\ passed < es + s
  BY <1>4, <1>5, Quotient
<1>8. ls <= rest /\ rest < ls + s
  BY <1>4, <1>6, Quotient
<1>9. s <= ls
  <2>1. PICK more \in Nat : left = more + 1
    <3>1. left - 1 \in Nat /\ left = (left - 1) + 1
      OBVIOUS
    <3> QED
      BY <3>1
  <2>2. ls = more * s + s /\ more * s \in Nat
    BY <1>6, <2>1
  <2> QED
    BY <2>2
<1>10. rest = whole - spent
  BY <1>3, <1>8, <1>9 DEF Clamped
<1>11. (elapsed + left) * s = es + ls
  BY <1>5, <1>6
<1>12. (elapsed + left + 1) * s = es + ls + s
  BY <1>5, <1>6
<1>13. cook <= elapsed + left + 1
  <2>1. whole < es + ls + s + s
    BY <1>2, <1>7, <1>8, <1>10 DEF Clamped
  <2>2. cook * s < (elapsed + left + 1) * s + s
    BY <1>1, <1>12, <2>1
  <2>3. elapsed + left + 1 \in Nat
    OBVIOUS
  <2> QED
    BY <2>2, <2>3, Cancel
<1>14. elapsed + left <= cook
  <2>1. CASE spent >= 0
    <3>1. es + ls < whole + s
      BY <1>2, <1>7, <1>8, <1>10, <2>1 DEF Clamped
    <3>2. (elapsed + left) * s < cook * s + s
      BY <1>1, <1>11, <3>1
    <3>3. elapsed + left \in Nat
      OBVIOUS
    <3> QED
      BY <3>2, <3>3, Cancel
  <2>2. CASE spent < 0
    <3>1. passed = 0
      BY <1>2, <2>2 DEF Clamped
    <3>2. passed < 0 * s + s
      BY <3>1
    <3>3. elapsed <= 0
      BY <1>4, <3>2, QuotientBelow
    <3> QED
      BY <3>3
  <2> QED
    BY <2>1, <2>2
<1> QED
  BY <1>13, <1>14

\* A fraction that rounds to a hundred percent is short of one by half a percent at most.
LEMMA FullBar ==
    ASSUME NEW cook \in Nat \ {0}, NEW elapsed \in Nat,
           100 <= (200 * elapsed + cook) \div (2 * cook)
    PROVE  200 * cook <= 200 * elapsed + cook
<1>1. PICK a \in Nat : a = 200 * elapsed + cook
  OBVIOUS
<1>2. PICK b \in Nat \ {0} : b = 2 * cook
  OBVIOUS
<1>3. PICK percent \in Nat : percent = a \div b
  BY <1>1, <1>2, Quotient
<1>4. percent * b <= a
  BY <1>3, Quotient
<1>5. PICK more \in Nat : percent = 100 + more
  <2>1. percent - 100 \in Nat /\ percent = 100 + (percent - 100)
    BY <1>1, <1>2, <1>3
  <2> QED
    BY <2>1
<1>6. percent * b = 100 * b + more * b /\ more * b \in Nat
  BY <1>5
<1> QED
  BY <1>1, <1>2, <1>4, <1>6

LEMMA AgreeInv == DisplayInv => BarAndCountdownAgree
<1> SUFFICES ASSUME DisplayInv, NEW n \in Calibrated
             PROVE  LET d == view.dishes[n]
                        left == RemainingSeconds(d)
                    IN  /\ ProgressPercent(d) = 100 => 200 * left <= d.cook
                        /\ left > 0 => ElapsedSeconds(d) + left \in {d.cook - 1, d.cook}
  BY DEF BarAndCountdownAgree
<1>1. n \in Counting
  BY DEF Calibrated
<1>2. PICK placed \in Nat, cook \in Nat :
          placed = view.dishes[n].placed /\ cook = view.dishes[n].cook
  BY <1>1, CountedDish
<1>3. nowMs \in Int /\ offset \in Int /\ Second \in Nat \ {0}
  BY DisplayAssumption DEF DisplayInv, Types
<1>4. PICK spent \in Int : spent = nowMs - offset - placed
  BY <1>2, <1>3
<1>5. PICK whole \in Nat : whole = cook * Second
  <2>1. cook * Second \in Nat
    BY <1>2, <1>3
  <2> QED
    BY <2>1
<1>6. PICK elapsed \in Nat :
          elapsed = ElapsedSeconds(view.dishes[n]) /\ elapsed = Clamped(spent) \div Second
  <2>1. Clamped(spent) \in Nat
    BY <1>4 DEF Clamped
  <2>2. Clamped(spent) \div Second \in Nat
    BY <1>3, <2>1, Quotient
  <2>3. ElapsedSeconds(view.dishes[n]) = Clamped(spent) \div Second
    BY <1>2, <1>4 DEF ElapsedSeconds
  <2> QED
    BY <2>2, <2>3
<1>7. PICK left \in Nat :
          /\ left = RemainingSeconds(view.dishes[n])
          /\ left = Clamped(cook * Second - spent) \div Second
  <2>1. ExpectedReadyAt(view.dishes[n]) = placed + whole
    BY <1>2, <1>5, Zenon DEF ExpectedReadyAt
  <2>2. ExpectedReadyAt(view.dishes[n]) - (nowMs - offset) = whole - spent
    BY <1>2, <1>3, <1>4, <1>5, <2>1
  <2>3. Clamped(whole - spent) \in Nat
    BY <1>4, <1>5 DEF Clamped
  <2>4. Clamped(whole - spent) \div Second \in Nat
    BY <1>3, <2>3, Quotient
  <2>5. RemainingSeconds(view.dishes[n]) = Clamped(whole - spent) \div Second
    BY <2>2, Zenon DEF RemainingSeconds
  <2> QED
    BY <1>5, <2>4, <2>5
<1>8. left <= cook
  BY <1>2, <1>7, AssignedInv, Zenon DEF NeverMoreThanAssigned
<1>9. left > 0 => elapsed + left \in {cook - 1, cook}
  BY <1>3, <1>6, <1>7, <1>8, Shares
<1>10. ProgressPercent(view.dishes[n]) = 100 => 200 * left <= cook
  <2>1. CASE left = 0 \/ cook = 0
    BY <1>8, <2>1
  <2>2. CASE left > 0 /\ cook > 0
    <3>1. SUFFICES ASSUME ProgressPercent(view.dishes[n]) = 100
                   PROVE  200 * left <= cook
      OBVIOUS
    <3> DEFINE percent == (200 * elapsed + cook) \div (2 * cook)
    <3>2. ProgressPercent(view.dishes[n]) = IF percent > 100 THEN 100 ELSE percent
      BY <1>2, <1>6, <2>2 DEF ProgressPercent
    <3>3. percent \in Nat
      <4>1. 200 * elapsed + cook \in Nat /\ 2 * cook \in Nat \ {0}
        BY <2>2
      <4> QED
        BY <4>1, Quotient
    <3>4. 100 <= percent
      <4> HIDE DEF percent
      <4> QED
        BY <3>1, <3>2, <3>3
    <3>5. 200 * cook <= 200 * elapsed + cook
      BY <2>2, <3>4, FullBar
    <3> QED
      BY <1>9, <2>2, <3>5
  <2> QED
    BY <2>1, <2>2
<1> QED
  BY <1>2, <1>6, <1>7, <1>9, <1>10

\* The bar and the countdown of a card agree (TableCard.svelte:60-79), for every cook
\* time: a bar is never full with more than half a percent of the time left.
THEOREM FiguresAgree == DisplaySpec => []BarAndCountdownAgree
  BY AgreeInv, DisplayKeepsInv, PTL

-----------------------------------------------------------------------------
(* The types *)

DishesBy(t) == Seq([placed : 0..t, cook : Cooks, status : {"COOKING", "SERVED"}])
StatesBy(t) == [version : 0..(2 * MaxDishes), dishes : DishesBy(t)]
MessagesBy(t) == [state : StatesBy(t), made : 0..t, retained : BOOLEAN]

\* The types but those of the clocks, by a time t.
TypesBy(t) ==
    /\ table \in StatesBy(t) /\ view \in StatesBy(t)
    /\ announcing \in Seq(MessagesBy(t)) /\ Len(announcing) <= 1
    /\ slot \in Seq(MessagesBy(t)) /\ Len(slot) <= 1
    /\ wire \in Seq(MessagesBy(t))
    /\ connected \in BOOLEAN
    /\ upsets \in 0..MaxUpsets
    /\ heardOf \in {NotYet} \cup (0..t)

Served(dishes) == {n \in 1..Len(dishes) : ~ Cooking(dishes[n])}

\* Every dish counts twice in the version of the kitchen's table, when it is placed and
\* when it is served: that is what bounds the versions.
VersionCounts ==
    /\ Len(table.dishes) <= MaxDishes
    /\ table.version = Len(table.dishes) + Cardinality(Served(table.dishes))

TypeInv ==
    /\ time \in 0..MaxTime /\ skew \in Skews
    /\ TypesBy(time)
    /\ VersionCounts

\* What has been stamped by a time t has been stamped by any later one.
LEMMA TypesGrow ==
    ASSUME NEW t \in Nat, NEW u \in Nat, t <= u
    PROVE  /\ StatesBy(t) \subseteq StatesBy(u)
           /\ MessagesBy(t) \subseteq MessagesBy(u)
           /\ Seq(MessagesBy(t)) \subseteq Seq(MessagesBy(u))
<1>1. 0..t \subseteq 0..u
  OBVIOUS
<1>2. DishesBy(t) \subseteq DishesBy(u)
  <2>1. [placed : 0..t, cook : Cooks, status : {"COOKING", "SERVED"}]
        \subseteq [placed : 0..u, cook : Cooks, status : {"COOKING", "SERVED"}]
    BY <1>1
  <2> QED
    BY <2>1, SeqMonotonic DEF DishesBy
<1>3. StatesBy(t) \subseteq StatesBy(u)
  BY <1>2 DEF StatesBy
<1>4. MessagesBy(t) \subseteq MessagesBy(u)
  BY <1>1, <1>3 DEF MessagesBy
<1> QED
  BY <1>3, <1>4, SeqMonotonic

\* The versions that VersionCounts allows.
LEMMA ServedAreFew ==
    ASSUME NEW S, NEW dishes \in Seq(S), Len(dishes) <= MaxDishes
    PROVE  /\ IsFiniteSet(Served(dishes))
           /\ Cardinality(Served(dishes)) \in Nat
           /\ Len(dishes) + Cardinality(Served(dishes)) \in 0..(2 * MaxDishes)
<1>1. Len(dishes) \in Nat /\ MaxDishes \in Nat
  BY DisplayAssumption
<1>2. IsFiniteSet(1..Len(dishes)) /\ Cardinality(1..Len(dishes)) = Len(dishes)
  <2>1. PICK k \in Nat : k = Len(dishes)
    BY <1>1
  <2>2. 1 \in Int /\ k \in Int
    OBVIOUS
  <2>3. IsFiniteSet(1..k) /\ Cardinality(1..k) = IF 1 > k THEN 0 ELSE k - 1 + 1
    BY <2>2, FS_Interval, Zenon
  <2>4. Cardinality(1..k) = k
    BY <2>3
  <2> QED
    BY <2>1, <2>3, <2>4, Zenon
<1>3. Served(dishes) \subseteq 1..Len(dishes)
  BY DEF Served
<1>4. /\ IsFiniteSet(Served(dishes))
      /\ Cardinality(Served(dishes)) <= Len(dishes)
  BY <1>2, <1>3, FS_Subset
<1>5. Cardinality(Served(dishes)) \in Nat
  BY <1>4, FS_CardinalityType
<1> QED
  BY <1>1, <1>4, <1>5

LEMMA TypeInit == DisplayInit => TypeInv
<1> SUFFICES ASSUME DisplayInit
             PROVE  TypeInv
  OBVIOUS
<1>1. time = 0 /\ skew \in Skews /\ MaxTime \in Nat /\ MaxUpsets \in Nat /\ MaxDishes \in Nat
  BY DisplayAssumption DEF DisplayInit
<1>2. table = EmptyTable /\ view = EmptyTable
  BY DEF DisplayInit
<1>3. /\ EmptyTable.version = 0 /\ EmptyTable.dishes = << >>
      /\ EmptyTable \in StatesBy(0)
  <2>1. << >> \in DishesBy(0)
    BY DEF DishesBy
  <2> QED
    BY <1>1, <2>1 DEF EmptyTable, StatesBy
<1>4. /\ announcing = << >> /\ slot = << >> /\ wire = << >>
      /\ connected = TRUE /\ upsets = 0 /\ heardOf = NotYet
  BY DEF DisplayInit
<1>5. TypesBy(0)
  <2>1. connected \in BOOLEAN
    BY <1>4
  <2>2. << >> \in Seq(MessagesBy(0)) /\ Len(<< >>) <= 1
    OBVIOUS
  <2> QED
    BY <1>1, <1>2, <1>3, <1>4, <2>1, <2>2 DEF TypesBy
<1>6. VersionCounts
  <2>1. Served(<< >>) = {}
    BY DEF Served
  <2>2. Cardinality(Served(<< >>)) = 0
    BY <2>1, FS_EmptySet
  <2> QED
    BY <1>1, <1>2, <1>3, <2>2 DEF VersionCounts
<1> QED
  BY <1>1, <1>5, <1>6 DEF TypeInv

\* What a publication leaves in the slot and on the wire.
LEMMA PublishKeepsTypes ==
    ASSUME TypesBy(time), NEW message \in MessagesBy(time), Publish(message)
    PROVE  /\ slot' \in Seq(MessagesBy(time)) /\ Len(slot') <= 1
           /\ wire' \in Seq(MessagesBy(time))
           /\ connected' = connected
<1> DEFINE kept == [message EXCEPT !.retained = TRUE]
<1>1. kept \in MessagesBy(time)
  BY DEF MessagesBy
<1>2. slot' = <<kept>> /\ connected' = connected /\ wire' \in {wire, Append(wire, message)}
  BY DEF Publish
<1>3. wire \in Seq(MessagesBy(time))
  BY DEF TypesBy
<1>4. Append(wire, message) \in Seq(MessagesBy(time))
  BY <1>3, AppendProperties
<1> QED
  BY <1>1, <1>2, <1>3, <1>4

\* A change of the kitchen's table, published at once.
LEMMA ChangeKeepsTypes ==
    ASSUME TypeInv, VersionCounts', table'.dishes \in DishesBy(time),
           table' = [version |-> table'.version, dishes |-> table'.dishes],
           Publish([state |-> table', made |-> time, retained |-> FALSE]),
           UNCHANGED <<time, skew, upsets, announcing, windowVars>>
    PROVE  TypeInv'
<1>1. table'.version \in 0..(2 * MaxDishes)
  BY ServedAreFew DEF VersionCounts, DishesBy
<1>2. table' \in StatesBy(time)
  <2>1. [version |-> table'.version, dishes |-> table'.dishes] \in StatesBy(time)
    BY <1>1 DEF StatesBy
  <2> QED
    BY <2>1
<1>3. TypesBy(time) /\ time \in Nat
  BY DisplayAssumption DEF TypeInv
<1>4. [state |-> table', made |-> time, retained |-> FALSE] \in MessagesBy(time)
  BY <1>2, <1>3 DEF MessagesBy
<1>5. /\ slot' \in Seq(MessagesBy(time)) /\ Len(slot') <= 1
      /\ wire' \in Seq(MessagesBy(time))
      /\ connected' = connected
  BY <1>3, <1>4, PublishKeepsTypes
<1>6. time' = time /\ skew' = skew /\ upsets' = upsets /\ announcing' = announcing
      /\ view' = view /\ heardOf' = heardOf
  BY DEF windowVars
<1>7. TypesBy(time)'
  BY <1>2, <1>3, <1>5, <1>6 DEF TypesBy, StatesBy, DishesBy, MessagesBy
<1> QED
  BY <1>6, <1>7 DEF TypeInv

LEMMA PlaceKeepsTypes ==
    ASSUME TypeInv, NEW cook \in Cooks, Place(cook)
    PROVE  TypeInv'
<1>1. time \in Nat /\ MaxDishes \in Nat
  BY DisplayAssumption DEF TypeInv
<1>2. table.dishes \in DishesBy(time)
  BY DEF TypeInv, TypesBy, StatesBy
<1> DEFINE Some == [placed : 0..time, cook : Cooks, status : {"COOKING", "SERVED"}]
           old == table.dishes
           new == Append(table.dishes, Dish(cook))
<1>3. old \in Seq(Some)
  BY <1>2 DEF DishesBy
<1>4. Dish(cook) \in Some /\ Cooking(Dish(cook))
  BY <1>1 DEF Dish, Cooking
<1>5. /\ new \in Seq(Some)
      /\ Len(new) = Len(old) + 1
      /\ \A i \in 1..Len(old) : new[i] = old[i]
      /\ new[Len(old) + 1] = Dish(cook)
  <2> HIDE DEF Some
  <2> QED
    BY <1>3, <1>4, AppendProperties
<1>6. Served(new) = Served(old)
  <2>1. Len(old) \in Nat
    BY <1>3
  <2>2. \A i \in 1..Len(new) : ~ Cooking(new[i]) => i \in 1..Len(old)
    <3> HIDE DEF new
    <3> QED
      BY <1>4, <1>5, <2>1
  <2>3. 1..Len(old) \subseteq 1..Len(new)
    BY <1>5, <2>1
  <2> HIDE DEF new, old
  <2> QED
    BY <1>5, <2>2, <2>3 DEF Served
<1>7. table' = [version |-> table.version + 1, dishes |-> new]
  BY DEF Place
<1>8. table'.dishes = new /\ table'.version = table.version + 1
  BY <1>7
<1>9. table'.dishes \in DishesBy(time)
  BY <1>5, <1>8 DEF DishesBy
<1>10. VersionCounts'
  <2>1. Len(old) < MaxDishes /\ Len(old) \in Nat
    BY <1>3 DEF Place
  <2>2. Len(new) <= MaxDishes
    BY <1>1, <1>5, <2>1
  <2>3. Cardinality(Served(old)) \in Nat
    BY <1>1, <1>3, <2>1, ServedAreFew
  <2>4. table.version = Len(old) + Cardinality(Served(old))
    BY DEF TypeInv, VersionCounts
  <2>5. table'.version = Len(new) + Cardinality(Served(new))
    <3> HIDE DEF new, old
    <3> QED
      BY <1>5, <1>6, <1>8, <2>1, <2>3, <2>4
  <2>6. Served(table'.dishes) = Served(new)
    BY <1>8
  <2> QED
    BY <1>8, <2>2, <2>5, <2>6 DEF VersionCounts, Served, Cooking
<1>11. table' = [version |-> table'.version, dishes |-> table'.dishes]
  BY <1>7
<1> QED
  BY <1>9, <1>10, <1>11, ChangeKeepsTypes DEF Place

LEMMA ServeKeepsTypes ==
    ASSUME TypeInv, NEW n \in DOMAIN table.dishes, Serve(n)
    PROVE  TypeInv'
<1>1. time \in Nat /\ MaxDishes \in Nat
  BY DisplayAssumption DEF TypeInv
<1>2. table.dishes \in DishesBy(time)
  BY DEF TypeInv, TypesBy, StatesBy
<1> DEFINE Some == [placed : 0..time, cook : Cooks, status : {"COOKING", "SERVED"}]
           old == table.dishes
           served == [table.dishes[n] EXCEPT !.status = "SERVED"]
           new == [table.dishes EXCEPT ![n].status = "SERVED"]
<1>3. old \in Seq(Some)
  BY <1>2 DEF DishesBy
<1>4. n \in 1..Len(old)
  BY <1>3
<1>5. served \in Some /\ ~ Cooking(served)
  <2>1. old[n] \in Some
    <3> HIDE DEF old, Some
    <3> QED
      BY <1>3, <1>4
  <2>2. served \in Some
    BY <2>1
  <2>3. served.status = "SERVED"
    BY <2>1
  <2>4. ~ Cooking(served)
    BY <2>3 DEF Cooking
  <2> QED
    BY <2>2, <2>4
<1>6. new = [old EXCEPT ![n] = served]
  OBVIOUS
<1>7. /\ new \in Seq(Some) /\ Len(new) = Len(old)
      /\ \A i \in 1..Len(old) : new[i] = IF i = n THEN served ELSE old[i]
  <2> HIDE DEF Some, served, new
  <2> QED
    BY <1>3, <1>4, <1>5, <1>6, ExceptSeq
<1>8. Served(new) = Served(old) \cup {n} /\ n \notin Served(old)
  <2>1. Cooking(old[n])
    BY DEF Serve
  <2> HIDE DEF new, old, served, Some
  <2> QED
    BY <1>4, <1>5, <1>7, <2>1 DEF Served
<1>9. table' = [version |-> table.version + 1, dishes |-> new]
  BY DEF Serve
<1>10. table'.dishes = new /\ table'.version = table.version + 1
  BY <1>9
<1>11. table'.dishes \in DishesBy(time)
  BY <1>7, <1>10 DEF DishesBy
<1>12. VersionCounts'
  <2>1. Len(old) <= MaxDishes /\ Len(old) \in Nat
    BY <1>3 DEF TypeInv, VersionCounts
  <2>2. IsFiniteSet(Served(old)) /\ Cardinality(Served(old)) \in Nat
    BY <1>1, <1>3, <2>1, ServedAreFew
  <2>3. table.version = Len(old) + Cardinality(Served(old))
    BY DEF TypeInv, VersionCounts
  <2>4. Cardinality(Served(new)) = Cardinality(Served(old)) + 1
    <3> HIDE DEF new, old
    <3> QED
      BY <1>8, <2>2, FS_AddElement
  <2>5. table'.version = Len(new) + Cardinality(Served(new))
    <3> HIDE DEF new, old
    <3> QED
      BY <1>7, <1>10, <2>1, <2>2, <2>3, <2>4
  <2>6. Served(table'.dishes) = Served(new)
    BY <1>10
  <2> QED
    BY <1>7, <1>10, <2>1, <2>5, <2>6 DEF VersionCounts, Served, Cooking
<1>13. table' = [version |-> table'.version, dishes |-> table'.dishes]
  BY <1>9
<1> QED
  BY <1>11, <1>12, <1>13, ChangeKeepsTypes DEF Serve

\* The steps that leave the kitchen's table alone.
LEMMA OtherStepsKeepTypes ==
    ASSUME TypeInv,
           TakeSnapshot \/ PublishSnapshot \/ Connect \/ Disconnect \/ Ingest
           \/ StopReading \/ TimePasses
    PROVE  TypeInv'
<1>1. /\ TypesBy(time) /\ time \in Nat /\ time \in 0..MaxTime /\ skew \in Skews
      /\ MaxUpsets \in Nat /\ MaxTime \in Nat
  BY DisplayAssumption DEF TypeInv
<1>2. VersionCounts'
  <2>1. table' = table
    BY DEF TakeSnapshot, PublishSnapshot, Connect, Disconnect, Ingest, StopReading,
           TimePasses, kitchenVars
  <2> QED
    BY <2>1 DEF TypeInv, VersionCounts, Served, Cooking
<1>3. SUFFICES /\ time' \in 0..MaxTime /\ skew' = skew
               /\ TypesBy(time)'
  BY <1>1, <1>2 DEF TypeInv, Skews
<1>4. CASE TakeSnapshot
  <2>1. Snapshot \in MessagesBy(time)
    BY <1>1 DEF Snapshot, MessagesBy, TypesBy
  <2>2. /\ announcing' = <<Snapshot>> /\ upsets < MaxUpsets /\ upsets' = upsets + 1
        /\ UNCHANGED <<time, skew, table, linkVars, windowVars>>
    BY <1>4 DEF TakeSnapshot
  <2>3. upsets' \in 0..MaxUpsets
    BY <1>1, <2>2 DEF TypesBy
  <2>4. <<Snapshot>> \in Seq(MessagesBy(time)) /\ Len(<<Snapshot>>) = 1
    BY <2>1
  <2> QED
    BY <1>1, <2>2, <2>3, <2>4
    DEF TypesBy, StatesBy, DishesBy, MessagesBy, linkVars, windowVars
<1>5. CASE PublishSnapshot
  <2>1. announcing # << >> /\ announcing \in Seq(MessagesBy(time))
    BY <1>1, <1>5 DEF PublishSnapshot, TypesBy
  <2>2. PICK message \in MessagesBy(time) : message = Head(announcing)
    BY <2>1, HeadTailProperties
  <2>3. /\ Publish(message) /\ announcing' = << >>
        /\ UNCHANGED <<time, skew, upsets, table, windowVars>>
    BY <1>5, <2>2 DEF PublishSnapshot
  <2>4. /\ slot' \in Seq(MessagesBy(time)) /\ Len(slot') <= 1
        /\ wire' \in Seq(MessagesBy(time)) /\ connected' = connected
    BY <1>1, <2>3, PublishKeepsTypes
  <2>5. << >> \in Seq(MessagesBy(time)) /\ Len(<< >>) = 0
    OBVIOUS
  <2> QED
    BY <1>1, <2>3, <2>4, <2>5 DEF TypesBy, StatesBy, DishesBy, MessagesBy, windowVars
<1>6. CASE Connect \/ Disconnect
  <2>1. /\ wire' \in {slot, << >>} /\ connected' \in BOOLEAN
        /\ UNCHANGED <<time, skew, kitchenVars, slot, windowVars>>
    BY <1>6 DEF Connect, Disconnect
  <2>2. upsets' \in 0..MaxUpsets
    BY <1>1, <1>6 DEF Connect, Disconnect, TypesBy
  <2>3. wire' \in Seq(MessagesBy(time))
    BY <1>1, <2>1, EmptySeq DEF TypesBy
  <2> QED
    BY <1>1, <2>1, <2>2, <2>3
    DEF TypesBy, StatesBy, DishesBy, MessagesBy, kitchenVars, windowVars
<1>7. CASE Ingest
  <2>1. wire # << >> /\ wire \in Seq(MessagesBy(time))
    BY <1>1, <1>7 DEF Ingest, TypesBy
  <2>2. PICK message \in MessagesBy(time) : message = Head(wire)
    BY <2>1, HeadTailProperties
  <2>3. /\ wire' = Tail(wire) /\ view' \in {message.state, view} /\ Measure(message)
        /\ UNCHANGED <<time, skew, upsets, kitchenVars, slot, connected>>
    BY <1>7, <2>2 DEF Ingest
  <2>4. wire' \in Seq(MessagesBy(time))
    BY <2>1, <2>3, HeadTailProperties
  <2>5. message.state \in StatesBy(time) /\ message.made \in 0..time
    BY DEF MessagesBy
  <2>6. view' \in StatesBy(time)
    BY <1>1, <2>3, <2>5 DEF TypesBy
  <2>7. heardOf' \in {heardOf, message.made}
    BY <2>3 DEF Measure
  <2>8. heardOf' \in {NotYet} \cup (0..time)
    BY <1>1, <2>5, <2>7 DEF TypesBy
  <2> QED
    BY <1>1, <2>3, <2>4, <2>6, <2>8 DEF TypesBy, StatesBy, DishesBy, MessagesBy, kitchenVars
<1>8. CASE StopReading
  <2>1. UNCHANGED <<time, skew, upsets, kitchenVars, linkVars, view, heardOf>>
    BY <1>8 DEF StopReading
  <2> QED
    BY <1>1, <2>1 DEF TypesBy, StatesBy, DishesBy, MessagesBy, kitchenVars, linkVars
<1>9. CASE TimePasses
  <2>1. /\ time < MaxTime /\ time' = time + 1
        /\ UNCHANGED <<skew, upsets, kitchenVars, linkVars, view, heardOf>>
    BY <1>9 DEF TimePasses
  <2>2. PICK later \in Nat : later = time + 1
    BY <1>1
  <2>3. time' = later /\ later \in 0..MaxTime /\ time <= later /\ 0..time \subseteq 0..later
    BY <1>1, <2>1, <2>2
  <2>4. TypesBy(later)
    BY <1>1, <2>2, <2>3, TypesGrow DEF TypesBy
  <2>5. TypesBy(later)'
    BY <2>1, <2>4 DEF TypesBy, kitchenVars, linkVars
  <2> QED
    BY <2>1, <2>3, <2>5
<1> QED
  BY <1>4, <1>5, <1>6, <1>7, <1>8, <1>9

LEMMA StepKeepsTypes ==
    ASSUME TypeInv, [DisplayNext]_displayVars
    PROVE  TypeInv'
<1>1. CASE UNCHANGED displayVars
  BY <1>1 DEF displayVars, kitchenVars, linkVars, windowVars, TypeInv, TypesBy, StatesBy,
              DishesBy, MessagesBy, Skews, VersionCounts, Served, Cooking
<1>2. CASE DisplayNext
  BY <1>2, PlaceKeepsTypes, ServeKeepsTypes, OtherStepsKeepTypes DEF DisplayNext
<1> QED
  BY <1>1, <1>2

\* Stamps are never in the future, cook times are drawn by the kitchen, and a version
\* counts no more than two changes of a dish, in the kitchen and everywhere its table
\* has been sent to.
THEOREM DisplayTypesAreCorrect == DisplaySpec => []DisplayTypeOK
<1>1. DisplaySpec => []TypeInv
  <2>1. DisplayInit => TypeInv
    BY TypeInit
  <2>2. TypeInv /\ [DisplayNext]_displayVars => TypeInv'
    BY StepKeepsTypes
  <2> QED
    BY <2>1, <2>2, PTL DEF DisplaySpec
<1>2. DisplayInv /\ TypeInv => DisplayTypeOK
  <2> SUFFICES ASSUME DisplayInv, TypeInv
               PROVE  DisplayTypeOK
    OBVIOUS
  <2>1. TypesBy(time) /\ time \in 0..MaxTime /\ skew \in Skews
    BY DEF TypeInv
  <2>2. Dishes = DishesBy(time)
    BY DEF Dishes, DishesBy
  <2>3. States = StatesBy(time)
    BY <2>2 DEF States, StatesBy
  <2>4. Messages = MessagesBy(time)
    BY <2>3 DEF Messages, MessagesBy
  <2>5. ticking \in BOOLEAN /\ nowMs \in Int /\ offset \in Int
    BY DEF DisplayInv, Types
  <2> QED
    BY <2>1, <2>3, <2>4, <2>5 DEF DisplayTypeOK, TypesBy
<1> QED
  BY <1>1, <1>2, DisplayKeepsInv, PTL
=============================================================================
