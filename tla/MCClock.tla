------------------------------ MODULE MCClock ------------------------------
(***************************************************************************)
(* Eight clocks, one of which counts in more than it wraps at, over the    *)
(* end of a leap year, on the night of a Thursday, and over the end of     *)
(* summer time.                                                            *)
(***************************************************************************)
EXTENDS Clock

House == {[interval |-> "second", wrap |-> "minutly"],
          [interval |-> "hour", wrap |-> "minutly"],
          [interval |-> "minute", wrap |-> "hourly"],
          [interval |-> "hour", wrap |-> "daily"],
          [interval |-> "second", wrap |-> "yearly"],
          [interval |-> "hour", wrap |-> "weekly"],
          [interval |-> "minute", wrap |-> "monthly"],
          [interval |-> "hour", wrap |-> "never"]}

Reading(ts, o, d, w, m) ==
  [timestamp |-> ts, ordinal |-> o, day0 |-> d, weekday |-> w, midnight |-> m]

\* 2020-12-31 23:59:58 to 2021-01-01 00:00:00, 2021-10-31 02:59:59 and again
\* 02:00:00 an hour after it was first shown.
Night == <<Reading(1609455598, 366, 30, 4, 86398),
           Reading(1609455599, 366, 30, 4, 86399),
           Reading(1609455600, 1, 0, 5, 0),
           Reading(1635641999, 304, 30, 0, 10799),
           Reading(1635642000, 304, 30, 0, 7200)>>
=============================================================================
