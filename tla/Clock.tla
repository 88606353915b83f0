-------------------------------- MODULE Clock --------------------------------
(***************************************************************************)
(* The clock server.  A clock of the tree counts in an interval (seconds,  *)
(* minutes, hours) and starts again at a wrap (of the minute, ..., of the  *)
(* year, never).  The server sleeps for a second, reads the local time     *)
(* once, and goes through its clocks one by one: to each whose value has   *)
(* changed it sends an event, and it awaits the tree and the update server *)
(* before it comes to the next, while time goes on.                        *)
(*                                                                         *)
(* The calendar is the environment's: a sequence of the readings that the  *)
(* local clock shows, at least a second apart, which may step back.        *)
(***************************************************************************)
EXTENDS Integers, Sequences

CONSTANTS
  Clocks,    \* the clocks of the tree: records of an interval and a wrap
  Readings,  \* what the local clock shows, one after the other
  Unset      \* no value: the source has had no event

Interval == {"second", "minute", "hour"}
Wrap == {"never", "yearly", "monthly", "weekly", "daily", "hourly", "minutly"}

ASSUME ClockAssumption == Clocks \subseteq [interval : Interval, wrap : Wrap]
SecsPerDay == 60 * 60 * 24

LocalTime == [timestamp : Nat, ordinal : 1..366, day0 : 0..30, weekday : 0..6,
              midnight : 0..(SecsPerDay - 1)]

ASSUME ReadingAssumption == Readings \in Seq(LocalTime) /\ Readings # <<>>
ASSUME UnsetAssumption == Unset \notin Nat

VARIABLES
  time,      \* the reading the local clock is at
  pc,        \* sleeping, ticking, awaiting, or how the task ended: ok, err
  since,     \* the reading at which it fell asleep
  now,       \* the reading the tick works with, 0 before the first
  todo,      \* the clocks it has still to come to
  asking,    \* the clock whose event is under way
  lastValue, \* last_value of each clock
  treeValue  \* what the tree holds for the source

vars == <<time, pc, since, now, todo, asking, lastValue, treeValue>>

-----------------------------------------------------------------------------
\* Mutant of Seconds: the first day of the year is day 1.
SecondsOrdinal(wrap, t) ==
  CASE wrap = "minutly" -> t.midnight % 60
    [] wrap = "hourly"  -> t.midnight % (60 * 60)
    [] wrap = "daily"   -> t.midnight
    [] wrap = "weekly"  -> t.weekday * SecsPerDay + t.midnight
    [] wrap = "monthly" -> t.day0 * SecsPerDay + t.midnight
    [] wrap = "yearly"  -> t.ordinal * SecsPerDay + t.midnight
    [] wrap = "never"   -> t.timestamp

\* Seconds since the wrap.  (The time of the day, and what is left of it after
\* the whole minutes and hours.)
Seconds(wrap, t) ==
  CASE wrap = "minutly" -> t.midnight % 60
    [] wrap = "hourly"  -> t.midnight % (60 * 60)
    [] wrap = "daily"   -> t.midnight
    [] wrap = "weekly"  -> t.weekday * SecsPerDay + t.midnight
    [] wrap = "monthly" -> t.day0 * SecsPerDay + t.midnight
    [] wrap = "yearly"  -> (t.ordinal - 1) * SecsPerDay + t.midnight
    [] wrap = "never"   -> t.timestamp

ConvertSeconds(interval, s) ==
  CASE interval = "second" -> s
    [] interval = "minute" -> s \div 60
    [] interval = "hour"   -> s \div (60 * 60)

ValueAt(c, t) == ConvertSeconds(c.interval, Seconds(c.wrap, Readings[t]))

-----------------------------------------------------------------------------
Ended == pc \in {"ok", "err"}
Last == Len(Readings)

\* The length of the longest year, month, ... that a clock wraps at.
Period(wrap) ==
  CASE wrap = "minutly" -> 60
    [] wrap = "hourly"  -> 60 * 60
    [] wrap = "daily"   -> SecsPerDay
    [] wrap = "weekly"  -> 7 * SecsPerDay
    [] wrap = "monthly" -> 31 * SecsPerDay
    [] wrap = "yearly"  -> 366 * SecsPerDay

\* A clock that wraps does not pass the last second of its period; one that
\* counts in more than its period stays at 0.
InRange(c, v) ==
  v \in Nat /\ (c.wrap = "never" \/ v <= ConvertSeconds(c.interval, Period(c.wrap) - 1))

TypeOK ==
  /\ {time, since} \subseteq 1..Last /\ now \in 0..Last
  /\ pc \in {"sleeping", "ticking", "awaiting", "ok", "err"}
  /\ todo \in SUBSET Clocks /\ asking \in SUBSET Clocks
  /\ DOMAIN lastValue = Clocks /\ DOMAIN treeValue = Clocks
  /\ \A c \in Clocks :
       InRange(c, lastValue[c]) /\ (treeValue[c] = Unset \/ InRange(c, treeValue[c]))

Init ==
  /\ time = 1 /\ since = 1 /\ now = 0
  /\ pc = "sleeping"
  /\ todo = {} /\ asking = {}
  /\ lastValue = [c \in Clocks |-> 0]
  /\ treeValue = [c \in Clocks |-> Unset]

-----------------------------------------------------------------------------
\* Time goes on, until the last reading.
TimePasses ==
  /\ time < Last
  /\ time' = time + 1
  /\ UNCHANGED <<pc, since, now, todo, asking, lastValue, treeValue>>

\* Mutant of Wake: the delay is made once, before the loop.
WakeOnce ==
  /\ pc = "sleeping" /\ time > since
  /\ now = 0
  /\ now' = time
  /\ todo' = Clocks
  /\ pc' = "ticking"
  /\ UNCHANGED <<time, since, asking, lastValue, treeValue>>

\* The sleep is over a second after it began, and the delay is looked at before
\* the mailbox.
Wake ==
  /\ pc = "sleeping" /\ (time > since \/ time = Last)
  /\ now' = time
  /\ todo' = Clocks
  /\ pc' = "ticking"
  /\ UNCHANGED <<time, since, asking, lastValue, treeValue>>

\* Mutant of Tick: the time is read anew for every clock.
TickReadsTime(c) ==
  /\ pc = "ticking" /\ c \in todo
  /\ todo' = todo \ {c}
  /\ LET v == ValueAt(c, time)
     IN IF v = lastValue[c]
        THEN UNCHANGED <<pc, asking, lastValue>>
        ELSE /\ asking' = {c}
             /\ lastValue' = [lastValue EXCEPT ![c] = v]
             /\ pc' = "awaiting"
  /\ UNCHANGED <<time, since, now, treeValue>>

\* A clock starts at 0, so it says nothing while its value is 0.
Tick(c) ==
  /\ pc = "ticking" /\ c \in todo
  /\ todo' = todo \ {c}
  /\ LET v == ValueAt(c, now)
     IN IF v = lastValue[c]
        THEN UNCHANGED <<pc, asking, lastValue>>
        ELSE /\ asking' = {c}
             /\ lastValue' = [lastValue EXCEPT ![c] = v]
             /\ pc' = "awaiting"
  /\ UNCHANGED <<time, since, now, treeValue>>

\* The tree has handled the event, and the update server has the result.
EventHandled ==
  /\ pc = "awaiting"
  /\ treeValue' = [c \in Clocks |-> IF c \in asking THEN lastValue[c]
                                                     ELSE treeValue[c]]
  /\ asking' = {}
  /\ pc' = "ticking"
  /\ UNCHANGED <<time, since, now, todo, lastValue>>

\* Either of them has closed its mailbox: the error ends the task.
EventFails ==
  /\ pc = "awaiting"
  /\ asking' = {} /\ todo' = {}
  /\ pc' = "err"
  /\ UNCHANGED <<time, since, now, lastValue, treeValue>>

Sleep ==
  /\ pc = "ticking" /\ todo = {}
  /\ pc' = "sleeping"
  /\ since' = time
  /\ UNCHANGED <<time, now, todo, asking, lastValue, treeValue>>

Finish ==
  /\ pc = "sleeping"
  /\ pc' = "ok"
  /\ UNCHANGED <<time, since, now, todo, asking, lastValue, treeValue>>

ServerStep ==
  \/ Wake \/ Sleep \/ EventHandled \/ EventFails
  \/ \E c \in Clocks : Tick(c)

Next == TimePasses \/ ServerStep \/ Finish

Spec == Init /\ [][Next]_vars

\* Time passes and the task runs; nobody has to finish it.
FairSpec == Spec /\ WF_vars(TimePasses) /\ WF_vars(ServerStep)

-----------------------------------------------------------------------------
\* The tree has the value of a clock at a reading, or has none because it has
\* been 0 since the server started.
Shows(c, t) ==
  \/ treeValue[c] = ValueAt(c, t)
  \/ treeValue[c] = Unset /\ ValueAt(c, t) = 0

\* Between two ticks all the clocks of the tree stand at one and the same
\* reading, however long it took to go through them, and also after a wrap or
\* after the local time stepped back.
OneReading ==
  pc = "sleeping" /\ now # 0 => \A c \in Clocks : Shows(c, now)

\* The clocks catch up with the time, unless the server ends: a reading that was
\* missed while an event was awaited is made good.
CatchesUp == <>[](Ended \/ \A c \in Clocks : Shows(c, Last))
=============================================================================
