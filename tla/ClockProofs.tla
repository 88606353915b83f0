----------------------------- MODULE ClockProofs -----------------------------
(***************************************************************************)
(* Facts about the clock server, proved for any clocks and any readings of *)
(* the local time.                                                         *)
(***************************************************************************)
EXTENDS Clock, TLAPS

\* Converting to minutes or hours keeps the order of seconds.
LEMMA Converted ==
  ASSUME NEW i \in Interval, NEW a \in Nat, NEW b \in Nat, a <= b
  PROVE  /\ ConvertSeconds(i, a) \in Nat
         /\ ConvertSeconds(i, a) <= ConvertSeconds(i, b)
<1>1. /\ a \div 60 \in Nat /\ b \div 60 \in Nat /\ a \div 60 <= b \div 60
  OBVIOUS
<1>2. /\ a \div 3600 \in Nat /\ b \div 3600 \in Nat /\ a \div 3600 <= b \div 3600
  OBVIOUS
<1>3. 60 * 60 = 3600
  OBVIOUS
<1> QED BY <1>1, <1>2, <1>3 DEF Interval, ConvertSeconds

\* Days and the seconds of one more stay below the next day.
LEMMA Days ==
  ASSUME NEW n \in Nat, NEW d \in 0..n, NEW m \in Nat, m < SecsPerDay
  PROVE  /\ d * SecsPerDay + m \in Nat
         /\ (n + 1) * SecsPerDay - 1 \in Nat
         /\ d * SecsPerDay + m <= (n + 1) * SecsPerDay - 1
<1>1. SecsPerDay = 86400
  BY DEF SecsPerDay
<1> QED BY <1>1

\* The seconds since a wrap are less than its longest period.
LEMMA SecondsBelow ==
  ASSUME NEW w \in Wrap, NEW t \in LocalTime
  PROVE  /\ Seconds(w, t) \in Nat
         /\ w # "never" => /\ Period(w) - 1 \in Nat
                           /\ Seconds(w, t) <= Period(w) - 1
<1>1. /\ t.timestamp \in Nat /\ t.ordinal \in 1..366 /\ t.day0 \in 0..30
      /\ t.weekday \in 0..6 /\ t.midnight \in 0..(SecsPerDay - 1)
  BY DEF LocalTime
<1>2. 60 * 60 = 3600 /\ SecsPerDay = 86400
  BY DEF SecsPerDay
<1>3. t.midnight \in Nat /\ t.midnight < SecsPerDay
  <2>1. SecsPerDay \in Int
    BY <1>2
  <2> QED BY <2>1, <1>1
<1>4. /\ t.midnight % 60 \in Nat /\ t.midnight % 60 < 60
      /\ t.midnight % 3600 \in Nat /\ t.midnight % 3600 < 3600
  <2>1. \A m \in Nat : /\ m % 60 \in Nat /\ m % 60 < 60
                       /\ m % 3600 \in Nat /\ m % 3600 < 3600
    OBVIOUS
  <2> QED BY <2>1, <1>3
<1>5. CASE w = "never"
  BY <1>1, <1>5 DEF Seconds
<1>6. CASE w = "minutly"
  BY <1>4, <1>6 DEF Seconds, Period
<1>7. CASE w = "hourly"
  BY <1>2, <1>4, <1>7 DEF Seconds, Period
<1>8. CASE w = "daily"
  BY <1>2, <1>3, <1>8 DEF Seconds, Period
<1>9. CASE w = "weekly"
  <2>1. Seconds(w, t) = t.weekday * SecsPerDay + t.midnight /\ Period(w) = 7 * SecsPerDay
    BY <1>9 DEF Seconds, Period
  <2>2. t.weekday \in 0..6
    BY <1>1
  <2> QED BY <1>2, <1>3, <1>9, <2>1, <2>2, Days
<1>10. CASE w = "monthly"
  <2>1. Seconds(w, t) = t.day0 * SecsPerDay + t.midnight /\ Period(w) = 31 * SecsPerDay
    BY <1>10 DEF Seconds, Period
  <2>2. t.day0 \in 0..30
    BY <1>1
  <2> QED BY <1>2, <1>3, <1>10, <2>1, <2>2, Days
<1>11. CASE w = "yearly"
  <2>1. Seconds(w, t) = (t.ordinal - 1) * SecsPerDay + t.midnight /\ Period(w) = 366 * SecsPerDay
    BY <1>11 DEF Seconds, Period
  <2>2. t.ordinal - 1 \in 0..365
    BY <1>1
  <2> QED BY <1>2, <1>3, <1>11, <2>1, <2>2, Days
<1> QED BY <1>5, <1>6, <1>7, <1>8, <1>9, <1>10, <1>11 DEF Wrap

\* A clock is in range at every reading, and at 0.
LEMMA ReadingsInRange ==
  ASSUME NEW c \in Clocks
  PROVE  InRange(c, 0) /\ \A t \in 1..Last : InRange(c, ValueAt(c, t))
<1>1. c.interval \in Interval /\ c.wrap \in Wrap
  BY ClockAssumption
<1>2. ASSUME NEW s \in Nat,
             c.wrap # "never" => Period(c.wrap) - 1 \in Nat /\ s <= Period(c.wrap) - 1
      PROVE  InRange(c, ConvertSeconds(c.interval, s))
  BY <1>1, <1>2, Converted DEF InRange
<1>3. InRange(c, ConvertSeconds(c.interval, 0))
  <2>1. c.wrap # "never" => Period(c.wrap) - 1 \in Nat
    BY <1>1 DEF Wrap, Period, SecsPerDay
  <2> QED BY <1>2, <2>1
<1>4. ConvertSeconds(c.interval, 0) = 0
  BY <1>1 DEF ConvertSeconds, Interval
<1>5. ASSUME NEW t \in 1..Last
      PROVE  InRange(c, ValueAt(c, t))
  <2>1. Readings[t] \in LocalTime
    BY <1>5, ReadingAssumption DEF Last
  <2> QED BY <1>1, <1>2, <2>1, SecondsBelow DEF ValueAt
<1> QED BY <1>3, <1>4, <1>5

-----------------------------------------------------------------------------
\* A tick works with one reading: the clocks it has come to hold the value at that
\* reading, and the tree holds what each of them holds, but for the one whose event
\* is under way.
Working == pc \in {"ticking", "awaiting"}

TickInv ==
  /\ Working => now # 0
  /\ pc # "awaiting" => asking = {}
  /\ ~Working => todo = {}
  /\ Working \/ (pc = "sleeping" /\ now # 0) =>
       \A c \in Clocks \ todo : lastValue[c] = ValueAt(c, now)
  /\ pc # "err" =>
       \A c \in Clocks \ asking :
         \/ treeValue[c] = lastValue[c]
         \/ treeValue[c] = Unset /\ lastValue[c] = 0

LEMMA InitHolds == Init => TypeOK /\ TickInv
<1> SUFFICES ASSUME Init PROVE TypeOK /\ TickInv
  OBVIOUS
<1>1. Last \in Nat \ {0}
  BY ReadingAssumption DEF Last
<1>2. TypeOK
  BY <1>1, ReadingsInRange DEF Init, TypeOK
<1>3. TickInv
  BY DEF Init, TickInv, Working
<1> QED BY <1>2, <1>3

LEMMA StepHolds == TypeOK /\ TickInv /\ [Next]_vars => TypeOK' /\ TickInv'
<1> SUFFICES ASSUME TypeOK, TickInv, [Next]_vars PROVE TypeOK' /\ TickInv'
  OBVIOUS
<1>0. Last \in Nat \ {0}
  BY ReadingAssumption DEF Last
<1>1. CASE TimePasses
  BY <1>0, <1>1 DEF TimePasses, TypeOK, TickInv, Working
<1>2. CASE Wake
  BY <1>0, <1>2 DEF Wake, TypeOK, TickInv, Working
<1>3. ASSUME NEW c \in Clocks, Tick(c)
      PROVE  TypeOK' /\ TickInv'
  <2> DEFINE v == ValueAt(c, now)
  <2>1. /\ pc = "ticking" /\ c \in todo /\ todo' = todo \ {c} /\ now # 0 /\ asking = {}
        /\ UNCHANGED <<time, since, now, treeValue>>
    BY <1>3 DEF Tick, TickInv, Working
  <2>2. now \in 1..Last /\ InRange(c, v)
    BY <2>1, ReadingsInRange DEF TypeOK
  <2> HIDE DEF v
  <2>3. CASE v = lastValue[c]
    <3>1. UNCHANGED <<pc, asking, lastValue>>
      BY <1>3, <2>3 DEF Tick, v
    <3>2. TypeOK'
      BY <2>1, <3>1 DEF TypeOK
    <3> QED BY <2>1, <2>3, <3>1, <3>2 DEF TickInv, Working, v
  <2>4. CASE v # lastValue[c]
    <3>1. /\ asking' = {c} /\ pc' = "awaiting"
          /\ lastValue' = [lastValue EXCEPT ![c] = v]
      BY <1>3, <2>4 DEF Tick, v
    <3>2. DOMAIN lastValue = Clocks
      BY DEF TypeOK
    <3>3. /\ DOMAIN lastValue' = Clocks
          /\ \A e \in Clocks : lastValue'[e] = IF e = c THEN v ELSE lastValue[e]
      BY <3>1, <3>2
    <3>4. TypeOK'
      BY <2>1, <2>2, <3>1, <3>3 DEF TypeOK
    <3>5. \A e \in Clocks \ todo' : lastValue'[e] = ValueAt(e, now)
      BY <2>1, <3>3 DEF TickInv, Working, v
    <3>6. \A e \in Clocks \ asking' :
            \/ treeValue'[e] = lastValue'[e]
            \/ treeValue'[e] = Unset /\ lastValue'[e] = 0
      BY <2>1, <3>1, <3>3 DEF TickInv, Working
    <3>7. \A e \in Clocks : ValueAt(e, now)' = ValueAt(e, now)
      BY <2>1 DEF ValueAt
    <3> QED BY <2>1, <3>1, <3>4, <3>5, <3>6, <3>7 DEF TickInv, Working
  <2> QED BY <2>3, <2>4
<1>4. CASE EventHandled
  <2>1. TypeOK'
    BY <1>4 DEF EventHandled, TypeOK
  <2> QED BY <1>4, <2>1 DEF EventHandled, TypeOK, TickInv, Working
<1>5. CASE EventFails
  BY <1>5 DEF EventFails, TypeOK, TickInv, Working
<1>6. CASE Sleep
  BY <1>6 DEF Sleep, TypeOK, TickInv, Working
<1>7. CASE Finish
  BY <1>7 DEF Finish, TypeOK, TickInv, Working
<1>8. CASE UNCHANGED vars
  BY <1>8 DEF vars, TypeOK, TickInv, Working
<1> QED
  BY <1>1, <1>2, <1>3, <1>4, <1>5, <1>6, <1>7, <1>8 DEF Next, ServerStep

LEMMA AlwaysHolds == Spec => [](TypeOK /\ TickInv)
BY InitHolds, StepHolds, PTL DEF Spec

\* Every variable keeps its type, and a clock that wraps stays within its period
\* whatever the local time does: for any clocks and readings.
THEOREM TypeCorrect == Spec => []TypeOK
BY AlwaysHolds, PTL

LEMMA AtRest == TypeOK /\ TickInv => OneReading
<1> SUFFICES ASSUME TypeOK, TickInv, pc = "sleeping", now # 0, NEW c \in Clocks
             PROVE  Shows(c, now)
  BY DEF OneReading
<1>1. lastValue[c] = ValueAt(c, now)
  BY DEF TickInv, Working
<1>2. asking = {} /\ pc # "err"
  BY DEF TickInv
<1>3. \/ treeValue[c] = lastValue[c]
      \/ treeValue[c] = Unset /\ lastValue[c] = 0
  BY <1>2 DEF TickInv
<1> QED BY <1>1, <1>3 DEF Shows

\* Between two ticks all clocks of the tree stand at one reading: ClockServer's loop
\* reads the time once for all of them, however many there are and however long the
\* tree and the update server keep it waiting.
THEOREM OneReadingAlways == Spec => []OneReading
BY AlwaysHolds, AtRest, PTL
=============================================================================
