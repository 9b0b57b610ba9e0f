--------------------------- MODULE MCScheduleCalendar ---------------------------
(* The daily calendar of the default configuration, with a quarter of an   *)
(* hour for a minute and the hourly source family behind it, and one in    *)
(* which an operator schedules the catalog once a week.  A scheduler of an *)
(* older release may enqueue the catalog on the second afternoon.          *)
EXTENDS ScheduleSlots, TLC

CONSTANTS catalog_sync, public_study, cleanup, source_family, scheduler

MCOrder == <<catalog_sync, public_study, cleanup, source_family>>

MCEntries == {MCOrder[i] : i \in DOMAIN MCOrder}

EachDay(minutes, hours) == [minute |-> minutes, hour |-> hours, day_of_month |-> 1..31,
                          month |-> 1..12, day_of_week |-> 0..6]
MCCron == (catalog_sync :> EachDay({0}, {2, 14})) @@ (public_study :> EachDay({15}, {4}))
              @@ (cleanup :> EachDay({30}, {3}))
              @@ (source_family :> EachDay({}, {}))
MCWeeklyCron == [MCCron EXCEPT ![catalog_sync] = [EachDay({0}, {2}) EXCEPT !.day_of_week = {4}]]
MCCivil == [m \in 0..LastMinute |->
               [minute |-> (m % 4) * 15, hour |-> (m \div 4) % 24, day |-> m \div 96 + 1,
                month |-> 1, weekday |-> (m \div 96 + 4) % 7]]
Hours(n) == 4 * n
MCInterval == [e \in MCEntries |-> IF e = source_family THEN Hours(1) ELSE 0]
MCWindow == (catalog_sync :> Hours(36)) @@ (public_study :> Hours(12))
                @@ (cleanup :> Hours(36)) @@ (source_family :> 0)
MCCheck == [e \in MCEntries |-> Hours(1)]
MCMaxAge == [e \in MCEntries |-> IF e = source_family THEN Hours(2) ELSE Hours(36)]
MCLegacyKeys == {<<catalog_sync, Hours(24 + 14)>>}
===============================================================================
