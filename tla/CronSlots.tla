------------------------------- MODULE CronSlots -------------------------------
(***************************************************************************)
(* The slot a schedule entry is due for at a given minute:                 *)
(* ScheduleEntry.slot and CronExpression.matches of scheduler.py.          *)
(*                                                                         *)
(* Minutes are counted from the epoch, at which every check interval       *)
(* starts; a datetime is given by the fields that cron looks at.           *)
(***************************************************************************)
EXTENDS Integers

NoSlot == -1

\* A parsed cron field that selects its whole domain counts as a wildcard,
\* however it was written.
Unrestricted(field, domain) == field = domain

\* Five fields, all in UTC.  Restricted day fields are alternatives.
CronMatches(cron, at) ==
    LET day == at.day \in cron.day_of_month
        weekday == at.weekday \in cron.day_of_week
    IN  /\ at.minute \in cron.minute
        /\ at.hour \in cron.hour
        /\ at.month \in cron.month
        /\ IF Unrestricted(cron.day_of_month, 1..31) \/ Unrestricted(cron.day_of_week, 0..6)
           THEN day /\ weekday
           ELSE day \/ weekday

FloorTo(minute, step) == (minute \div step) * step

\* What a catch-up at this minute may still deliver: it looks back from the
\* last check boundary only, and no further than the window.
Missed(matches, minute, window, check) ==
    {m \in matches : m <= FloorTo(minute, check) /\ minute - m <= window}

\* A catch-up that works off the oldest slot first.
Earliest(S) == CHOOSE m \in S : \A n \in S : m <= n

Latest(S) == CHOOSE m \in S : \A n \in S : n <= m

\* An entry without catch-up has a window of 0.
CronSlot(matches, minute, window, check) ==
    LET missed == Missed(matches, minute, window, check)
    IN  IF minute \in matches THEN minute
        ELSE IF missed = {} THEN NoSlot
        ELSE Latest(missed)

IntervalSlot(minute, interval) == FloorTo(minute, interval)
===============================================================================
