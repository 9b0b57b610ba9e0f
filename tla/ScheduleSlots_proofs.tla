-------------------------- MODULE ScheduleSlots_proofs --------------------------
(***************************************************************************)
(* Proofs about CronSlots and ScheduleSlots, for every calendar, every set *)
(* of schedulers and every bound.                                          *)
(*                                                                         *)
(* That a slot is enqueued once rests on its row alone: the rows' types    *)
(* are invariant because a process only ever holds a position of           *)
(* EntryOrder whose slot is a minute of the calendar, which in turn needs  *)
(* the clock that a cycle started from to be within the calendar.          *)
(***************************************************************************)
EXTENDS ScheduleSlots, WellFoundedInduction, SequenceTheorems, TLAPS

-------------------------------------------------------------------------------
(* Numbers.                                                                *)

LEMMA DivisionOfNat ==
    ASSUME NEW n \in Nat, NEW d \in Nat \ {0}
    PROVE  /\ n \div d \in Nat
           /\ (n \div d) * d <= n /\ n < (n \div d) * d + d
           /\ FloorTo(n, d) \in Nat /\ FloorTo(n, d) <= n /\ n < FloorTo(n, d) + d
BY SMTT(30) DEF FloorTo

LEMMA DivisionBelow ==
    ASSUME NEW n \in Nat, NEW d \in Nat \ {0}, NEW b \in Nat, n < (b + 1) * d
    PROVE  n \div d <= b
<1>1. n \div d \in Nat /\ (n \div d) * d <= n
    BY DivisionOfNat
<1>2. ASSUME b + 1 <= n \div d PROVE FALSE
    <2>1. (b + 1) * d <= (n \div d) * d
        BY <1>1, <1>2, SMTT(30)
    <2> QED BY <1>1, <2>1
<1> QED BY <1>1, <1>2

LEMMA LeastExists ==
    ASSUME NEW S \in SUBSET Nat, S # {}
    PROVE  \E m \in S : \A n \in S : m <= n
<1>1. PICK m \in S : \A n \in S : <<n, m>> \notin OpToRel(<, Nat)
    BY NatLessThanWellFounded, WFMin
<1>2. \A n \in S : ~(n < m)
    BY <1>1 DEF OpToRel
<1> QED BY <1>2

LEMMA LatestExists ==
    ASSUME NEW b \in Nat, NEW S \in SUBSET (0..b), S # {}
    PROVE  Latest(S) \in S /\ \A n \in S : n <= Latest(S)
<1> DEFINE T == {b - n : n \in S}
<1>1. T \in SUBSET Nat /\ T # {}
    <2>1. \A n \in S : b - n \in Nat
        OBVIOUS
    <2> QED BY <2>1
<1>2. PICK t \in T : \A n \in T : t <= n
    BY <1>1, LeastExists
<1>3. PICK m \in S : t = b - m
    OBVIOUS
<1>4. \A n \in S : n <= m
    <2> TAKE n \in S
    <2>1. b - n \in T
        OBVIOUS
    <2> QED BY <1>2, <1>3, <2>1
<1> QED BY <1>3, <1>4 DEF Latest
-------------------------------------------------------------------------------
(* The catch-up algorithm.                                                 *)

LEMMA MissedType ==
    ASSUME NEW matches \in SUBSET Nat, NEW minute \in Nat,
           NEW win \in Nat, NEW step \in Nat \ {0}
    PROVE  /\ Missed(matches, minute, win, step) \in SUBSET (0..minute)
           /\ \A m \in Missed(matches, minute, win, step) : m \in matches /\ minute - m <= win
<1>1. FloorTo(minute, step) \in Nat /\ FloorTo(minute, step) <= minute
    BY DivisionOfNat
<1>2. ASSUME NEW m \in Missed(matches, minute, win, step)
      PROVE  m \in 0..minute /\ m \in matches /\ minute - m <= win
    <2>1. m \in matches /\ m <= FloorTo(minute, step) /\ minute - m <= win
        BY <1>2 DEF Missed
    <2> QED BY <1>1, <2>1
<1> QED BY <1>2

(* ScheduleEntry.slot returns nothing, or a minute that the cron selects,   *)
(* which is not in the future and within the window.                       *)
THEOREM CronSlotSound ==
    ASSUME NEW matches \in SUBSET Nat, NEW minute \in Nat,
           NEW win \in Nat, NEW step \in Nat \ {0},
           NEW slot, slot = CronSlot(matches, minute, win, step)
    PROVE  \/ slot = NoSlot
           \/ slot \in matches /\ slot <= minute /\ minute - slot <= win
<1> DEFINE missed == Missed(matches, minute, win, step)
<1>1. CASE minute \in matches
    BY <1>1 DEF CronSlot
<1>2. CASE minute \notin matches /\ missed = {}
    BY <1>2 DEF CronSlot
<1>3. CASE minute \notin matches /\ missed # {}
    <2>1. slot = Latest(missed)
        BY <1>3 DEF CronSlot
    <2>2. slot \in missed
        <3>1. missed \in SUBSET (0..minute)
            BY MissedType
        <3> HIDE DEF missed
        <3> QED BY <1>3, <2>1, <3>1, LatestExists
    <2>3. slot \in 0..minute /\ slot \in matches /\ minute - slot <= win
        BY <2>2, MissedType
    <2> QED BY <2>3
<1> QED BY <1>1, <1>2, <1>3

(* Catch-up: the last slot that the cron selected is the one returned, from *)
(* the next check boundary on until its window ends.                       *)
THEOREM CronSlotCatchesUp ==
    ASSUME NEW matches \in SUBSET Nat, NEW minute \in Nat,
           NEW win \in Nat, NEW step \in Nat \ {0}, NEW m \in matches,
           m <= FloorTo(minute, step), minute - m <= win,
           \A n \in matches : n <= m \/ minute < n
    PROVE  CronSlot(matches, minute, win, step) = m
<1> DEFINE missed == Missed(matches, minute, win, step)
<1>1. m \in missed
    BY DEF Missed
<1>2. CASE minute \in matches
    <2>1. m <= minute /\ minute <= m
        BY <1>1, <1>2, MissedType
    <2> QED BY <1>2, <2>1 DEF CronSlot
<1>3. CASE minute \notin matches
    <2>1. Latest(missed) \in missed /\ m <= Latest(missed)
        BY <1>1, MissedType, LatestExists
    <2>2. Latest(missed) \in matches /\ Latest(missed) \in 0..minute
        BY <2>1, MissedType
    <2>3. Latest(missed) = m
        <3> HIDE DEF missed
        <3> QED BY <2>1, <2>2
    <2> QED BY <1>1, <1>3, <2>3 DEF CronSlot
<1> QED BY <1>2, <1>3
-------------------------------------------------------------------------------
(* What a process holds is a slot of the calendar.                         *)

\* The clock stays within the calendar, and with it the instant at which a
\* cycle began.
ClockInv ==
    /\ ticks \in Nat /\ ticks < (LastMinute + 1) * TicksPerMinute
    /\ moment \in [Schedulers -> Nat]
    /\ \A p \in Schedulers : moment[p] <= ticks

\* A process that is enqueueing holds a key; one that reserves, a cron slot.
HoldsKey(p) ==
    /\ pc[p] \in {"lookup", "reserve"} => KeyOf(p) \in SlotKeys
    /\ pc[p] = "reserve" => interval[KeyOf(p)[1]] = 0

SlotInv ==
    /\ ScheduleTypeOK
    /\ ClockInv
    /\ \A p \in Schedulers : HoldsKey(p)

LEMMA EntriesType ==
    /\ EntryOrder \in Seq(Entries) /\ Len(EntryOrder) \in Nat
    /\ DOMAIN EntryOrder = 1..Len(EntryOrder)
    /\ \A i \in 1..Len(EntryOrder) : EntryOrder[i] \in Entries
BY ScheduleAssumption DEF Entries

LEMMA SlotAtType ==
    ASSUME NEW e \in Entries, NEW minute \in Minutes
    PROVE  SlotAt(e, minute) \in Minutes \cup {NoSlot}
<1>1. minute \in Nat /\ LastMinute \in Nat /\ interval[e] \in Nat /\ window[e] \in Nat
      /\ check[e] \in Nat \ {0} /\ Matches[e] \in SUBSET Minutes
    BY ScheduleAssumption DEF Minutes, Matches
<1>2. CASE interval[e] > 0
    <2>1. FloorTo(minute, interval[e]) \in Nat /\ FloorTo(minute, interval[e]) <= minute
        BY <1>1, <1>2, DivisionOfNat
    <2> QED BY <1>1, <1>2, <2>1 DEF SlotAt, IntervalSlot, Minutes
<1>3. CASE ~(interval[e] > 0)
    <2>1. Matches[e] \in SUBSET Nat
        BY <1>1 DEF Minutes
    <2>2. \/ SlotAt(e, minute) = NoSlot
          \/ SlotAt(e, minute) \in Matches[e]
        BY <1>1, <1>3, <2>1, CronSlotSound DEF SlotAt
    <2> QED BY <1>1, <2>2
<1> QED BY <1>2, <1>3

LEMMA NextDueType ==
    ASSUME NEW tick \in Nat, tick < (LastMinute + 1) * TicksPerMinute,
           NEW i \in Nat \ {0}, NEW k, k = NextDue(tick, i)
    PROVE  /\ k \in 1..Done
           /\ k # Done => <<EntryOrder[k], SlotAt(EntryOrder[k], MinuteOf(tick))>> \in SlotKeys
<1> DEFINE due == {n \in i..Len(EntryOrder) : SlotAt(EntryOrder[n], MinuteOf(tick)) # NoSlot}
<1>1. MinuteOf(tick) \in Minutes
    <2>1. TicksPerMinute \in Nat \ {0} /\ LastMinute \in Nat
        BY ScheduleAssumption
    <2>2. tick \div TicksPerMinute \in Nat /\ tick \div TicksPerMinute <= LastMinute
        BY <2>1, DivisionOfNat, DivisionBelow
    <2> QED BY <2>1, <2>2 DEF MinuteOf, Minutes
<1>2. Len(EntryOrder) \in Nat
    BY EntriesType
<1>3. CASE due = {}
    <2>1. k = Done
        BY <1>3 DEF NextDue
    <2> QED BY <1>2, <2>1 DEF Done
<1>4. CASE due # {}
    <2>1. due \in SUBSET Nat
        BY <1>2
    <2>2. \E m \in due : \A n \in due : m <= n
        BY <1>4, <2>1, LeastExists
    <2>3. k \in due
        BY <1>4, <2>2 DEF NextDue
    <2>4. k \in 1..Len(EntryOrder)
        BY <1>2, <2>3
    <2>5. EntryOrder[k] \in Entries
        BY <2>4, EntriesType
    <2>6. SlotAt(EntryOrder[k], MinuteOf(tick)) \in Minutes
        BY <1>1, <2>3, <2>5, SlotAtType
    <2> QED BY <1>2, <2>4, <2>5, <2>6 DEF SlotKeys, Done
<1> QED BY <1>3, <1>4

LEMMA InitSlotInv == Init => SlotInv
<1> SUFFICES ASSUME Init PROVE SlotInv
    OBVIOUS
<1> USE ScheduleAssumption DEF Init
<1>1. TicksPerMinute \in Nat \ {0} /\ LastMinute \in Nat /\ Len(EntryOrder) \in Nat
    BY EntriesType
<1>2. 0 < (LastMinute + 1) * TicksPerMinute
    BY <1>1, SMTT(30)
<1>3. (LastMinute + 1) * TicksPerMinute \in Nat
    BY <1>1, SMTT(30)
<1>4. ScheduleTypeOK
    BY <1>1, <1>3 DEF ScheduleTypeOK, Done, JobRow
<1>5. ClockInv
    BY <1>2 DEF ClockInv
<1>6. \A p \in Schedulers : HoldsKey(p)
    BY DEF HoldsKey
<1> QED BY <1>4, <1>5, <1>6 DEF SlotInv

\* A process that goes on holds a key again, and is looking it up.
LEMMA GoOnType ==
    ASSUME ScheduleTypeOK, NEW p \in Schedulers, NEW tick \in Nat,
           tick < (LastMinute + 1) * TicksPerMinute, NEW i \in Nat \ {0},
           GoOn(p, NextDue(tick, i)), moment' \in [Schedulers -> Nat], moment'[p] = tick,
           \A q \in Schedulers : q # p => moment'[q] = moment[q] /\ HoldsKey(q)
    PROVE  /\ pc' \in [Schedulers -> {"asleep", "lookup", "reserve", "finish", "down"}]
           /\ entry' \in [Schedulers -> 1..Done]
           /\ \A q \in Schedulers : HoldsKey(q)'
<1>1. PICK k : k = NextDue(tick, i)
    OBVIOUS
<1>2. /\ k \in 1..Done
      /\ k # Done => <<EntryOrder[k], SlotAt(EntryOrder[k], MinuteOf(tick))>> \in SlotKeys
    BY <1>1, NextDueType
<1>3. entry' = [entry EXCEPT ![p] = k] /\ pc' = [pc EXCEPT ![p] = IF k = Done THEN "finish" ELSE "lookup"]
    BY <1>1 DEF GoOn
<1>4. /\ pc' \in [Schedulers -> {"asleep", "lookup", "reserve", "finish", "down"}]
      /\ entry' \in [Schedulers -> 1..Done]
    BY <1>2, <1>3 DEF ScheduleTypeOK
<1>5. HoldsKey(p)'
    <2>1. entry'[p] = k /\ pc'[p] = IF k = Done THEN "finish" ELSE "lookup"
        BY <1>3 DEF ScheduleTypeOK
    <2>2. KeyOf(p)' = <<EntryOrder[k], SlotAt(EntryOrder[k], MinuteOf(tick))>>
        BY <2>1 DEF KeyOf, SlotAt, MinuteOf
    <2> QED BY <1>2, <2>1, <2>2 DEF HoldsKey
<1>6. ASSUME NEW q \in Schedulers, q # p PROVE HoldsKey(q)'
    <2>1. pc'[q] = pc[q] /\ KeyOf(q)' = KeyOf(q)
        BY <1>3, <1>6 DEF ScheduleTypeOK, KeyOf, SlotAt, MinuteOf
    <2> QED BY <1>6, <2>1 DEF HoldsKey
<1> QED BY <1>4, <1>5, <1>6

\* A job that is appended, by whomever.
LEMMA AppendType ==
    ASSUME ScheduleTypeOK, NEW k \in SlotKeys, NEW row \in JobRow,
           jobs' = [jobs EXCEPT ![k] = Append(@, row)]
    PROVE  /\ jobs' \in [SlotKeys -> Seq(JobRow)]
           /\ \A q \in SlotKeys : q # k => jobs'[q] = jobs[q]
           /\ jobs'[k] = Append(jobs[k], row) /\ Len(jobs'[k]) = Len(jobs[k]) + 1
           /\ \A q \in SlotKeys : slot_job[q] <= Len(jobs'[q])
<1>1. jobs[k] \in Seq(JobRow)
    BY DEF ScheduleTypeOK
<1>2. Append(jobs[k], row) \in Seq(JobRow) /\ Len(Append(jobs[k], row)) = Len(jobs[k]) + 1
    BY <1>1
<1> QED BY <1>1, <1>2 DEF ScheduleTypeOK

\* A job that ends keeps its place and its origin.
LEMMA EndedType ==
    ASSUME NEW rows \in Seq(JobRow), NEW i \in DOMAIN rows,
           NEW ended, ended = [rows EXCEPT ![i].active = FALSE]
    PROVE  /\ ended \in Seq(JobRow) /\ Len(ended) = Len(rows)
           /\ \A n \in DOMAIN rows : ended[n].by = rows[n].by
<1>1. /\ Len(rows) \in Nat /\ DOMAIN rows = 1..Len(rows)
      /\ \A n \in 1..Len(rows) : rows[n] \in JobRow
    BY LenProperties, ElementOfSeq
<1>2. \A n \in 1..Len(rows) : ended[n] \in JobRow /\ ended[n].by = rows[n].by
    BY <1>1 DEF JobRow
<1>3. ended \in [1..Len(rows) -> JobRow]
    BY <1>1, <1>2
<1>4. ended \in Seq(JobRow)
    BY <1>1, <1>3, SeqDef
<1>5. Len(ended) = Len(rows)
    BY <1>1, <1>3, <1>4, LenProperties
<1> QED BY <1>1, <1>2, <1>4, <1>5

\* Steps of a process that does not go on, whatever they do to the rows.
LEMMA StopsHolding ==
    ASSUME ScheduleTypeOK, ClockInv, \A q \in Schedulers : HoldsKey(q),
           NEW p \in Schedulers, NEW state \in {"asleep", "finish", "down"},
           pc' = [pc EXCEPT ![p] = state],
           \A q \in Schedulers : q # p => entry'[q] = entry[q] /\ moment'[q] = moment[q]
    PROVE  /\ pc' \in [Schedulers -> {"asleep", "lookup", "reserve", "finish", "down"}]
           /\ \A q \in Schedulers : HoldsKey(q)'
<1>1. HoldsKey(p)'
    BY DEF ScheduleTypeOK, HoldsKey
<1>2. ASSUME NEW q \in Schedulers, q # p PROVE HoldsKey(q)'
    <2>1. pc'[q] = pc[q] /\ KeyOf(q)' = KeyOf(q)
        BY <1>2 DEF ScheduleTypeOK, KeyOf, SlotAt, MinuteOf
    <2> QED BY <1>2, <2>1 DEF HoldsKey
<1> QED BY <1>1, <1>2 DEF ScheduleTypeOK

LEMMA FallKeepsInv ==
    ASSUME SlotInv, NEW p \in Schedulers, Fall(p), faults' \in Nat,
           UNCHANGED <<ticks, jobs, slot_job, enabled>>
    PROVE  SlotInv'
<1>1. /\ pc' \in [Schedulers -> {"asleep", "lookup", "reserve", "finish", "down"}]
      /\ \A q \in Schedulers : HoldsKey(q)'
    <2>1. \A q \in Schedulers : q # p => entry'[q] = entry[q] /\ moment'[q] = moment[q]
        BY DEF SlotInv, ScheduleTypeOK, Fall
    <2> QED BY <2>1, StopsHolding DEF SlotInv, Fall
<1>2. moment' \in [Schedulers -> Nat] /\ \A q \in Schedulers : moment'[q] <= ticks
    BY DEF SlotInv, ClockInv, Fall
<1>3. entry' \in [Schedulers -> 1..Done] /\ wake' \in [Schedulers -> Nat]
    <2>1. Done \in 1..Done /\ ticks + MaxRestart \in Nat
        BY EntriesType, ScheduleAssumption DEF Done, SlotInv, ClockInv
    <2> QED BY <2>1 DEF SlotInv, ScheduleTypeOK, Fall
<1> QED BY <1>1, <1>2, <1>3 DEF SlotInv, ScheduleTypeOK, ClockInv

LEMMA ProceedKeepsInv ==
    ASSUME SlotInv, NEW p \in Schedulers, Proceed(p), UNCHANGED <<ticks, enabled, faults>>,
           jobs' \in [SlotKeys -> Seq(JobRow)], slot_job' \in [SlotKeys -> Nat],
           \A k \in SlotKeys : slot_job'[k] <= Len(jobs'[k])
    PROVE  SlotInv'
<1>1. /\ pc' \in [Schedulers -> {"asleep", "lookup", "reserve", "finish", "down"}]
      /\ entry' \in [Schedulers -> 1..Done]
      /\ \A q \in Schedulers : HoldsKey(q)'
    <2>1. entry[p] + 1 \in Nat \ {0} /\ moment[p] \in Nat
          /\ moment[p] < (LastMinute + 1) * TicksPerMinute
        <3>1. (LastMinute + 1) * TicksPerMinute \in Int
            BY ScheduleAssumption, SMTT(30)
        <3> QED BY <3>1, EntriesType DEF SlotInv, ScheduleTypeOK, ClockInv, Done
    <2>2. moment' = moment
        BY DEF Proceed
    <2> QED BY <2>1, <2>2, GoOnType DEF SlotInv, Proceed, ClockInv
<1>2. moment' = moment /\ wake' = wake
    BY DEF Proceed
<1> QED BY <1>1, <1>2 DEF SlotInv, ScheduleTypeOK, ClockInv

LEMMA NextSlotInv == SlotInv /\ [Next]_vars => SlotInv'
<1> SUFFICES ASSUME SlotInv, [Next]_vars PROVE SlotInv'
    OBVIOUS
<1> USE DEF SlotInv
<1>1. ASSUME NEW p \in Schedulers, StartCycle(p) PROVE SlotInv'
    <2>1. ticks \in Nat /\ ticks < (LastMinute + 1) * TicksPerMinute /\ MaxCycle \in Nat
        BY ScheduleAssumption DEF ClockInv
    <2>2. moment' \in [Schedulers -> Nat] /\ moment'[p] = ticks
          /\ (\A q \in Schedulers : q # p => moment'[q] = moment[q])
          /\ wake' \in [Schedulers -> Nat]
        BY <1>1, <2>1 DEF StartCycle, ScheduleTypeOK
    <2>3. /\ pc' \in [Schedulers -> {"asleep", "lookup", "reserve", "finish", "down"}]
          /\ entry' \in [Schedulers -> 1..Done]
          /\ \A q \in Schedulers : HoldsKey(q)'
        BY <1>1, <2>1, <2>2, GoOnType DEF StartCycle
    <2> QED BY <1>1, <2>1, <2>2, <2>3 DEF StartCycle, ScheduleTypeOK, ClockInv
<1>2. ASSUME NEW p \in Schedulers, EndCycle(p) PROVE SlotInv'
    <2>1. ticks + LoopSleep \in Nat
        BY ScheduleAssumption DEF ClockInv
    <2>2. /\ pc' \in [Schedulers -> {"asleep", "lookup", "reserve", "finish", "down"}]
          /\ \A q \in Schedulers : HoldsKey(q)'
        BY <1>2, StopsHolding DEF EndCycle
    <2> QED BY <1>2, <2>1, <2>2 DEF EndCycle, ScheduleTypeOK, ClockInv
<1>3. ASSUME NEW p \in Schedulers, Lookup(p) PROVE SlotInv'
    <2>1. KeyOf(p) \in SlotKeys /\ pc[p] = "lookup" /\ interval[KeyOf(p)[1]] = 0
        BY <1>3 DEF Lookup, HoldsKey
    <2>2. CASE jobs[KeyOf(p)] = << >>
        <3>1. /\ pc' = [pc EXCEPT ![p] = "reserve"]
              /\ UNCHANGED <<ticks, jobs, slot_job, enabled, moment, entry, wake, faults>>
            BY <1>3, <2>2 DEF Lookup
        <3>2. \A q \in Schedulers : KeyOf(q)' = KeyOf(q)
            BY <3>1 DEF KeyOf, SlotAt, MinuteOf
        <3>3. \A q \in Schedulers : HoldsKey(q)'
            BY <2>1, <3>1, <3>2 DEF HoldsKey, ScheduleTypeOK
        <3> QED BY <3>1, <3>3 DEF ScheduleTypeOK, ClockInv
    <2>3. CASE jobs[KeyOf(p)] # << >>
        <3>1. slot_job' = [slot_job EXCEPT ![KeyOf(p)] = IF @ = 0 THEN 1 ELSE @]
              /\ Proceed(p) /\ UNCHANGED <<ticks, jobs, enabled, faults>>
            BY <1>3, <2>3 DEF Lookup
        <3>2. jobs[KeyOf(p)] \in Seq(JobRow) /\ 1 <= Len(jobs[KeyOf(p)])
            BY <2>1, <2>3 DEF ScheduleTypeOK
        <3>3. slot_job' \in [SlotKeys -> Nat] /\ jobs' \in [SlotKeys -> Seq(JobRow)]
              /\ \A k \in SlotKeys : slot_job'[k] <= Len(jobs'[k])
            BY <2>1, <3>1, <3>2 DEF ScheduleTypeOK
        <3> QED BY <3>1, <3>3, ProceedKeepsInv
    <2> QED BY <2>2, <2>3
<1>4. ASSUME NEW p \in Schedulers, Reserve(p) PROVE SlotInv'
    <2>1. KeyOf(p) \in SlotKeys /\ Proceed(p) /\ UNCHANGED <<ticks, enabled, faults>>
        BY <1>4 DEF Reserve, HoldsKey
    <2>2. CASE UNCHANGED <<jobs, slot_job>>
        BY <2>1, <2>2, ProceedKeepsInv DEF ScheduleTypeOK
    <2>3. CASE /\ jobs' = [jobs EXCEPT ![KeyOf(p)] = Append(@, [by |-> "slot", active |-> TRUE])]
               /\ slot_job' = [slot_job EXCEPT ![KeyOf(p)] = Len(jobs[KeyOf(p)]) + 1]
        <3>1. [by |-> "slot", active |-> TRUE] \in JobRow
            BY DEF JobRow
        <3>2. /\ jobs' \in [SlotKeys -> Seq(JobRow)]
              /\ \A k \in SlotKeys : slot_job[k] <= Len(jobs'[k])
              /\ Len(jobs'[KeyOf(p)]) = Len(jobs[KeyOf(p)]) + 1
            BY <2>1, <2>3, <3>1, AppendType
        <3>3. Len(jobs[KeyOf(p)]) \in Nat
            BY <2>1 DEF ScheduleTypeOK
        <3>4. slot_job' \in [SlotKeys -> Nat] /\ \A k \in SlotKeys : slot_job'[k] <= Len(jobs'[k])
            BY <2>1, <2>3, <3>2, <3>3 DEF ScheduleTypeOK
        <3> QED BY <2>1, <3>2, <3>4, ProceedKeepsInv
    <2> QED BY <1>4, <2>2, <2>3 DEF Reserve
<1>5. ASSUME NEW p \in Schedulers, EnqueueFamily(p) PROVE SlotInv'
    <2>1. KeyOf(p) \in SlotKeys /\ Proceed(p) /\ UNCHANGED <<ticks, slot_job, enabled, faults>>
        BY <1>5 DEF EnqueueFamily, HoldsKey
    <2>2. CASE jobs' = jobs
        BY <2>1, <2>2, ProceedKeepsInv DEF ScheduleTypeOK
    <2>3. CASE /\ jobs[KeyOf(p)] = << >>
               /\ jobs' = [jobs EXCEPT ![KeyOf(p)] = << [by |-> "slot", active |-> TRUE] >>]
        <3>1. << [by |-> "slot", active |-> TRUE] >> \in Seq(JobRow)
            BY DEF JobRow
        <3>2. jobs' \in [SlotKeys -> Seq(JobRow)] /\ \A k \in SlotKeys : slot_job'[k] <= Len(jobs'[k])
            BY <2>1, <2>3, <3>1 DEF ScheduleTypeOK
        <3> QED BY <2>1, <3>2, ProceedKeepsInv DEF ScheduleTypeOK
    <2> QED BY <1>5, <2>2, <2>3 DEF EnqueueFamily
<1>6. ASSUME NEW p \in Schedulers, Collide(p) \/ Refuse(p) PROVE SlotInv'
    BY <1>6, FallKeepsInv DEF Collide, Refuse, ScheduleTypeOK
<1>7. ASSUME NEW p \in Schedulers, Crash(p) PROVE SlotInv'
    BY <1>7, FallKeepsInv DEF Crash, ScheduleTypeOK
<1>8. ASSUME NEW p \in Schedulers, Restart(p) PROVE SlotInv'
    <2>1. /\ pc' \in [Schedulers -> {"asleep", "lookup", "reserve", "finish", "down"}]
          /\ \A q \in Schedulers : HoldsKey(q)'
        BY <1>8, StopsHolding DEF Restart
    <2> QED BY <1>8, <2>1 DEF Restart, ScheduleTypeOK, ClockInv
<1>9. ASSUME NEW k \in LegacyKeys, LegacyEnqueue(k) PROVE SlotInv'
    <2>1. k \in SlotKeys /\ [by |-> "legacy", active |-> TRUE] \in JobRow
        BY ScheduleAssumption DEF JobRow
    <2>2. /\ jobs' \in [SlotKeys -> Seq(JobRow)]
          /\ \A q \in SlotKeys : slot_job[q] <= Len(jobs'[q])
        BY <1>9, <2>1, AppendType DEF LegacyEnqueue
    <2>3. \A q \in Schedulers : KeyOf(q)' = KeyOf(q)
        BY <1>9 DEF LegacyEnqueue, KeyOf, SlotAt, MinuteOf
    <2> QED BY <1>9, <2>2, <2>3 DEF LegacyEnqueue, ScheduleTypeOK, ClockInv, HoldsKey
<1>10. ASSUME NEW k \in LegacyKeys, JobEnds(k) PROVE SlotInv'
    <2>1. PICK i \in DOMAIN jobs[k] : jobs' = [jobs EXCEPT ![k][i].active = FALSE]
        BY <1>10 DEF JobEnds
    <2>2. k \in SlotKeys /\ jobs[k] \in Seq(JobRow)
        BY ScheduleAssumption DEF ScheduleTypeOK
    <2>3. PICK ended : ended = [jobs[k] EXCEPT ![i].active = FALSE]
        OBVIOUS
    <2>4. jobs' = [jobs EXCEPT ![k] = ended] /\ ended \in Seq(JobRow) /\ Len(ended) = Len(jobs[k])
        BY <2>1, <2>2, <2>3, EndedType
    <2>5. jobs' \in [SlotKeys -> Seq(JobRow)] /\ \A q \in SlotKeys : slot_job[q] <= Len(jobs'[q])
        BY <2>2, <2>4 DEF ScheduleTypeOK
    <2>6. \A q \in Schedulers : KeyOf(q)' = KeyOf(q)
        BY <1>10 DEF JobEnds, KeyOf, SlotAt, MinuteOf
    <2> QED BY <1>10, <2>5, <2>6 DEF JobEnds, ScheduleTypeOK, ClockInv, HoldsKey
<1>11. ASSUME NEW e \in Gated, Disable(e) PROVE SlotInv'
    <2>1. \A q \in Schedulers : KeyOf(q)' = KeyOf(q)
        BY <1>11 DEF Disable, KeyOf, SlotAt, MinuteOf
    <2> QED BY <1>11, <2>1 DEF Disable, ScheduleTypeOK, ClockInv, HoldsKey
<1>12. CASE Advance
    <2>1. \A q \in Schedulers : KeyOf(q)' = KeyOf(q)
        BY <1>12 DEF Advance, KeyOf, SlotAt, MinuteOf
    <2>2. (LastMinute + 1) * TicksPerMinute \in Nat
        BY ScheduleAssumption, SMTT(30)
    <2>3. ticks' = ticks + 1 /\ ticks' < (LastMinute + 1) * TicksPerMinute
        BY <1>12, <2>2 DEF Advance, ClockInv
    <2> QED BY <1>12, <2>1, <2>2, <2>3 DEF Advance, ScheduleTypeOK, ClockInv, HoldsKey
<1>13. CASE UNCHANGED vars
    <2>1. \A q \in Schedulers : KeyOf(q)' = KeyOf(q)
        BY <1>13 DEF vars, KeyOf, SlotAt, MinuteOf
    <2> QED BY <1>13, <2>1 DEF vars, ScheduleTypeOK, ClockInv, HoldsKey
<1> QED BY <1>1, <1>2, <1>3, <1>4, <1>5, <1>6, <1>7, <1>8, <1>9, <1>10, <1>11, <1>12, <1>13
        DEF Next
-------------------------------------------------------------------------------
(* Slots and jobs.                                                         *)

(* The rows of a schedule have their types, and a slot refers to a job that *)
(* exists.                                                                 *)
THEOREM ScheduleTypes == Spec => []ScheduleTypeOK
<1>1. SlotInv => ScheduleTypeOK
    BY DEF SlotInv
<1> QED BY <1>1, InitSlotInv, NextSlotInv, PTL DEF Spec

\* The steps that touch the jobs of a key, and what they do to its slot.
LEMMA JobSteps ==
    ASSUME SlotInv, [Next]_vars, NEW k \in SlotKeys
    PROVE  \/ jobs'[k] = jobs[k] /\ (slot_job'[k] = slot_job[k] \/ slot_job[k] = 0)
           \/ /\ interval[k[1]] = 0 /\ slot_job[k] = 0 /\ slot_job'[k] = Len(jobs[k]) + 1
              /\ jobs'[k] = Append(jobs[k], [by |-> "slot", active |-> TRUE])
           \/ /\ interval[k[1]] > 0 /\ slot_job'[k] = slot_job[k]
              /\ jobs'[k] = << [by |-> "slot", active |-> TRUE] >>
           \/ /\ interval[k[1]] = 0 /\ slot_job'[k] = slot_job[k] /\ k \in LegacyKeys
              /\ jobs'[k] = Append(jobs[k], [by |-> "legacy", active |-> TRUE])
           \/ /\ interval[k[1]] = 0 /\ slot_job'[k] = slot_job[k]
              /\ \E i \in DOMAIN jobs[k] : jobs'[k] = [jobs[k] EXCEPT ![i].active = FALSE]
<1> USE DEF SlotInv, ScheduleTypeOK
<1>1. ASSUME NEW p \in Schedulers, Lookup(p)
      PROVE  jobs'[k] = jobs[k] /\ (slot_job'[k] = slot_job[k] \/ slot_job[k] = 0)
    <2>1. jobs' = jobs
        BY <1>1 DEF Lookup
    <2>2. CASE UNCHANGED slot_job
        BY <2>1, <2>2
    <2>3. CASE slot_job' = [slot_job EXCEPT ![KeyOf(p)] = IF @ = 0 THEN 1 ELSE @]
        BY <2>1, <2>3
    <2> QED BY <1>1, <2>2, <2>3 DEF Lookup
<1>2. ASSUME NEW p \in Schedulers, Reserve(p)
      PROVE  \/ jobs'[k] = jobs[k] /\ slot_job'[k] = slot_job[k]
             \/ /\ interval[k[1]] = 0 /\ slot_job[k] = 0 /\ slot_job'[k] = Len(jobs[k]) + 1
                /\ jobs'[k] = Append(jobs[k], [by |-> "slot", active |-> TRUE])
    <2>1. interval[KeyOf(p)[1]] = 0
        BY <1>2 DEF Reserve, HoldsKey
    <2>2. CASE k = KeyOf(p)
        BY <1>2, <2>1, <2>2 DEF Reserve
    <2>3. CASE k # KeyOf(p)
        BY <1>2, <2>3 DEF Reserve
    <2> QED BY <2>2, <2>3
<1>3. ASSUME NEW p \in Schedulers, EnqueueFamily(p)
      PROVE  /\ slot_job'[k] = slot_job[k]
             /\ \/ jobs'[k] = jobs[k]
                \/ interval[k[1]] > 0 /\ jobs'[k] = << [by |-> "slot", active |-> TRUE] >>
    <2>1. CASE k = KeyOf(p)
        BY <1>3, <2>1 DEF EnqueueFamily
    <2>2. CASE k # KeyOf(p)
        BY <1>3, <2>2 DEF EnqueueFamily
    <2> QED BY <2>1, <2>2
<1>4. ASSUME NEW q \in LegacyKeys, LegacyEnqueue(q)
      PROVE  /\ slot_job' = slot_job
             /\ \/ jobs'[k] = jobs[k]
                \/ interval[k[1]] = 0 /\ k \in LegacyKeys
                   /\ jobs'[k] = Append(jobs[k], [by |-> "legacy", active |-> TRUE])
    BY <1>4, ScheduleAssumption DEF LegacyEnqueue
<1>5. ASSUME NEW q \in LegacyKeys, JobEnds(q)
      PROVE  /\ slot_job' = slot_job
             /\ \/ jobs'[k] = jobs[k]
                \/ /\ interval[k[1]] = 0
                   /\ \E i \in DOMAIN jobs[k] : jobs'[k] = [jobs[k] EXCEPT ![i].active = FALSE]
    <2>1. q \in SlotKeys /\ interval[q[1]] = 0 /\ slot_job' = slot_job
        BY <1>5, ScheduleAssumption DEF JobEnds
    <2>2. PICK i \in DOMAIN jobs[q] : jobs' = [jobs EXCEPT ![q][i].active = FALSE]
        BY <1>5 DEF JobEnds
    <2>3. CASE k = q
        BY <2>1, <2>2, <2>3
    <2>4. CASE k # q
        BY <2>1, <2>2, <2>4
    <2> QED BY <2>3, <2>4
<1>6. ASSUME \/ \E p \in Schedulers :
                   \/ StartCycle(p) \/ EndCycle(p)
                   \/ Collide(p) \/ Refuse(p) \/ Crash(p) \/ Restart(p)
             \/ \E e \in Gated : Disable(e)
             \/ Advance \/ UNCHANGED vars
      PROVE  UNCHANGED <<jobs, slot_job>>
    BY <1>6 DEF StartCycle, EndCycle, Collide, Refuse, Crash, Restart, Disable, Advance, vars
<1> QED BY <1>1, <1>2, <1>3, <1>4, <1>5, <1>6 DEF Next

(* The job that a slot was reserved for, or adopted, stays its job.         *)
THEOREM SlotsKeepTheirJobs == Spec => SlotKeepsJob
<1>1. SlotInv /\ [Next]_vars => [\A k \in SlotKeys : slot_job[k] # 0 => slot_job'[k] = slot_job[k]]_vars
    <2> SUFFICES ASSUME SlotInv, [Next]_vars, NEW k \in SlotKeys, slot_job[k] # 0
                 PROVE  slot_job'[k] = slot_job[k]
        OBVIOUS
    <2> QED BY JobSteps
<1> QED BY <1>1, InitSlotInv, NextSlotInv, PTL DEF Spec, SlotKeepsJob

LEMMA OneJobPerSlotStep == SlotInv /\ OneJobPerSlot /\ [Next]_vars => OneJobPerSlot'
<1> SUFFICES ASSUME SlotInv, OneJobPerSlot, [Next]_vars, NEW k \in SlotKeys
             PROVE  IF interval[k[1]] = 0 THEN ScheduledJobs(k)' \subseteq {slot_job'[k]}
                                          ELSE Len(jobs'[k]) <= 1
    BY DEF OneJobPerSlot
<1>1. jobs[k] \in Seq(JobRow) /\ interval[k[1]] \in Nat /\ slot_job[k] \in Nat
    BY ScheduleAssumption DEF SlotInv, ScheduleTypeOK, SlotKeys
<1>2. IF interval[k[1]] = 0 THEN ScheduledJobs(k) \subseteq {slot_job[k]} ELSE Len(jobs[k]) <= 1
    BY DEF OneJobPerSlot
<1>3. slot_job[k] = 0 /\ interval[k[1]] = 0 => ScheduledJobs(k) = {}
    BY <1>1, <1>2 DEF ScheduledJobs
<1>4. CASE jobs'[k] = jobs[k] /\ (slot_job'[k] = slot_job[k] \/ slot_job[k] = 0)
    BY <1>2, <1>3, <1>4 DEF ScheduledJobs
<1>5. CASE /\ interval[k[1]] = 0 /\ slot_job[k] = 0 /\ slot_job'[k] = Len(jobs[k]) + 1
           /\ jobs'[k] = Append(jobs[k], [by |-> "slot", active |-> TRUE])
    <2>1. \A i \in DOMAIN jobs'[k] :
              i = Len(jobs[k]) + 1 \/ (i \in DOMAIN jobs[k] /\ jobs'[k][i] = jobs[k][i])
        BY <1>1, <1>5
    <2>2. \A i \in ScheduledJobs(k)' : i = Len(jobs[k]) + 1
        BY <1>3, <1>5, <2>1 DEF ScheduledJobs
    <2> QED BY <1>5, <2>2
<1>6. CASE interval[k[1]] > 0 /\ jobs'[k] = << [by |-> "slot", active |-> TRUE] >>
    BY <1>1, <1>6
<1>7. CASE /\ interval[k[1]] = 0 /\ slot_job'[k] = slot_job[k]
           /\ jobs'[k] = Append(jobs[k], [by |-> "legacy", active |-> TRUE])
    BY <1>1, <1>2, <1>7 DEF ScheduledJobs
<1>8. CASE /\ interval[k[1]] = 0 /\ slot_job'[k] = slot_job[k]
           /\ \E i \in DOMAIN jobs[k] : jobs'[k] = [jobs[k] EXCEPT ![i].active = FALSE]
    <2>1. PICK i \in DOMAIN jobs[k] : jobs'[k] = [jobs[k] EXCEPT ![i].active = FALSE]
        BY <1>8
    <2>2. \A n \in DOMAIN jobs[k] : jobs'[k][n].by = jobs[k][n].by
        BY <1>1, <2>1, EndedType
    <2>3. DOMAIN jobs'[k] = DOMAIN jobs[k]
        BY <2>1
    <2> QED BY <1>2, <1>8, <2>2, <2>3 DEF ScheduledJobs
<1> QED BY <1>4, <1>5, <1>6, <1>7, <1>8, JobSteps

(* However many schedulers look, race, crash and run again, a slot has at   *)
(* most one scheduled job, the one its row refers to.                      *)
THEOREM SlotsAreEnqueuedOnce == Spec => []OneJobPerSlot
<1>1. Init => OneJobPerSlot
    BY ScheduleAssumption DEF Init, OneJobPerSlot, ScheduledJobs
<1> QED BY <1>1, InitSlotInv, NextSlotInv, OneJobPerSlotStep, PTL DEF Spec
-------------------------------------------------------------------------------
(* Why a scheduler fails.                                                  *)

\* Every slot that an entry computes at some minute is still young enough for
\* the database when a cycle that began within that minute enqueues it last.
SlotsStayFresh ==
    \A e \in Entries : \A m \in Minutes :
        SlotAt(e, m) # NoSlot =>
            (m + 1 - SlotAt(e, m)) * TicksPerMinute + MaxCycle <= max_age[e] * TicksPerMinute

\* No process is behind its clock, and a cycle has its time from the instant at
\* which it began.
InTime ==
    \A p \in Schedulers :
        /\ ticks <= wake[p]
        /\ pc[p] \in {"lookup", "reserve", "finish"} => wake[p] <= moment[p] + MaxCycle

LEMMA InTimeStep == SlotInv /\ InTime /\ [Next]_vars => InTime'
<1> SUFFICES ASSUME SlotInv, InTime, [Next]_vars PROVE InTime'
    OBVIOUS
<1> USE DEF InTime
<1>0. /\ ticks \in Nat /\ MaxCycle \in Nat /\ LoopSleep \in Nat /\ MaxRestart \in Nat
      /\ moment \in [Schedulers -> Nat] /\ wake \in [Schedulers -> Nat]
      /\ pc \in [Schedulers -> {"asleep", "lookup", "reserve", "finish", "down"}]
    BY ScheduleAssumption DEF SlotInv, ScheduleTypeOK, ClockInv
<1>1. ASSUME NEW p \in Schedulers, StartCycle(p) PROVE InTime'
    <2>1. /\ moment'[p] = ticks /\ wake'[p] = ticks + MaxCycle /\ ticks' = ticks
          /\ \A q \in Schedulers : q # p => wake'[q] = wake[q] /\ moment'[q] = moment[q]
        BY <1>0, <1>1 DEF StartCycle
    <2>2. \A q \in Schedulers : q # p => pc'[q] = pc[q]
        BY <1>0, <1>1 DEF StartCycle, GoOn
    <2> QED BY <1>0, <2>1, <2>2
<1>2. ASSUME NEW p \in Schedulers, EndCycle(p) PROVE InTime'
    BY <1>0, <1>2 DEF EndCycle
<1>3. ASSUME NEW p \in Schedulers, pc[p] \in {"lookup", "reserve"}, UNCHANGED <<ticks, moment, wake>>,
             pc' = [pc EXCEPT ![p] = "reserve"] \/ \E i : GoOn(p, i)
      PROVE  InTime'
    <2>1. \A q \in Schedulers : q # p => pc'[q] = pc[q]
        BY <1>0, <1>3 DEF GoOn
    <2> QED BY <1>0, <1>3, <2>1
<1>4. ASSUME NEW p \in Schedulers, Lookup(p) \/ Reserve(p) \/ EnqueueFamily(p) PROVE InTime'
    <2>1. pc[p] \in {"lookup", "reserve"} /\ UNCHANGED <<ticks, moment, wake>>
        BY <1>4 DEF Lookup, Reserve, EnqueueFamily, Proceed
    <2>2. pc' = [pc EXCEPT ![p] = "reserve"] \/ \E i : GoOn(p, i)
        BY <1>4 DEF Lookup, Reserve, EnqueueFamily, Proceed
    <2> QED BY <1>3, <2>1, <2>2
<1>5. ASSUME NEW p \in Schedulers, Fall(p), ticks' = ticks PROVE InTime'
    BY <1>0, <1>5 DEF Fall
<1>6. ASSUME NEW p \in Schedulers, Collide(p) \/ Refuse(p) \/ Crash(p) PROVE InTime'
    BY <1>5, <1>6 DEF Collide, Refuse, Crash
<1>7. ASSUME NEW p \in Schedulers, Restart(p) PROVE InTime'
    BY <1>0, <1>7 DEF Restart
<1>8. CASE Advance
    BY <1>0, <1>8 DEF Advance
<1>9. CASE \/ \E k \in LegacyKeys : LegacyEnqueue(k) \/ JobEnds(k)
           \/ \E e \in Gated : Disable(e)
           \/ UNCHANGED vars
    BY <1>9 DEF LegacyEnqueue, JobEnds, Disable, vars
<1> QED BY <1>1, <1>2, <1>4, <1>6, <1>7, <1>8, <1>9 DEF Next

\* A process that looks a key up does so before the slot is too old.
LEMMA SlotIsYoung ==
    ASSUME SlotsStayFresh, SlotInv, InTime, NEW p \in Schedulers, pc[p] = "lookup"
    PROVE  ~TooOld(KeyOf(p))
<1> DEFINE e == EntryOrder[entry[p]]
           m == MinuteOf(moment[p])
           slot == SlotAt(e, m)
<1>1. KeyOf(p) = <<e, slot>> /\ e \in Entries /\ slot \in Minutes
    BY DEF SlotInv, HoldsKey, KeyOf, SlotKeys
<1>2. /\ ticks \in Nat /\ moment[p] \in Nat /\ moment[p] <= ticks
      /\ ticks < (LastMinute + 1) * TicksPerMinute
      /\ TicksPerMinute \in Nat \ {0} /\ LastMinute \in Nat /\ MaxCycle \in Nat
      /\ wake[p] \in Nat /\ max_age[e] \in Nat
    BY <1>1, ScheduleAssumption DEF SlotInv, ClockInv, ScheduleTypeOK
<1>3. m \in Nat /\ m <= LastMinute /\ moment[p] < m * TicksPerMinute + TicksPerMinute
    <2>1. (LastMinute + 1) * TicksPerMinute \in Int
        BY <1>2, SMTT(30)
    <2>2. moment[p] < (LastMinute + 1) * TicksPerMinute
        BY <1>2, <2>1
    <2> QED BY <1>2, <2>2, DivisionOfNat, DivisionBelow DEF MinuteOf
<1>4. ticks <= moment[p] + MaxCycle
    BY <1>2 DEF InTime
<1>5. slot # NoSlot
    BY <1>1, <1>2 DEF NoSlot, Minutes
<1>6. (m + 1 - slot) * TicksPerMinute + MaxCycle <= max_age[e] * TicksPerMinute
    BY <1>1, <1>2, <1>3, <1>5 DEF SlotsStayFresh, Minutes
<1>7. slot \in Nat
    BY <1>1, <1>2 DEF Minutes
<1> HIDE DEF e, m, slot
<1>8. (m + 1 - slot) * TicksPerMinute = m * TicksPerMinute + TicksPerMinute - slot * TicksPerMinute
    BY <1>2, <1>3, <1>7, SMTT(30)
<1>9. /\ m * TicksPerMinute \in Int /\ slot * TicksPerMinute \in Int
      /\ max_age[e] * TicksPerMinute \in Int
    BY <1>2, <1>3, <1>7, SMTT(30)
<1>10. ticks - max_age[e] * TicksPerMinute < slot * TicksPerMinute
    BY <1>2, <1>3, <1>4, <1>6, <1>8, <1>9
<1> QED BY <1>1, <1>2, <1>9, <1>10 DEF TooOld

(* Where no slot an entry computes can outlive its admission, a scheduler   *)
(* only fails for a crash, a kill switch, or the job of an older scheduler  *)
(* that holds the slot's key, however many of them race.                   *)
THEOREM FreshSlotsAreAccepted == SlotsStayFresh => (Spec => OnlyKillSwitchFails)
<1> SUFFICES ASSUME SlotsStayFresh PROVE Spec => OnlyKillSwitchFails
    OBVIOUS
<1> DEFINE Blamed(p) == ~enabled[EntryOrder[entry[p]]] \/ HeldByLegacy(KeyOf(p))
<1>1. SlotInv /\ OneJobPerSlot /\ InTime /\ [Next]_vars =>
          [\A p \in Schedulers :
              (pc'[p] = "down" /\ pc[p] # "down" /\ faults' = faults) => Blamed(p)]_vars
    <2> SUFFICES ASSUME SlotInv, OneJobPerSlot, InTime, [Next]_vars, NEW p \in Schedulers,
                        pc'[p] = "down", pc[p] # "down", faults' = faults
                 PROVE  Blamed(p)
        OBVIOUS
    <2>0. /\ pc \in [Schedulers -> {"asleep", "lookup", "reserve", "finish", "down"}]
          /\ faults \in Nat
        BY DEF SlotInv, ScheduleTypeOK
    <2>1. Collide(p) \/ Refuse(p)
        <3>1. ASSUME NEW q \in Schedulers, Collide(q) \/ Refuse(q) PROVE q = p
            BY <2>0, <3>1 DEF Collide, Refuse, Fall
        <3>2. ASSUME NEW q \in Schedulers, Crash(q) PROVE FALSE
            BY <2>0, <3>2 DEF Crash
        <3>3. ASSUME NEW q \in Schedulers,
                     \/ StartCycle(q) \/ EndCycle(q) \/ Lookup(q)
                     \/ Reserve(q) \/ EnqueueFamily(q) \/ Restart(q)
              PROVE  FALSE
            BY <2>0, <3>3
               DEF StartCycle, EndCycle, Lookup, Reserve, EnqueueFamily, Restart, Proceed, GoOn
        <3>4. CASE \/ \E k \in LegacyKeys : LegacyEnqueue(k) \/ JobEnds(k)
                   \/ \E e \in Gated : Disable(e)
                   \/ Advance \/ UNCHANGED vars
            BY <3>4 DEF LegacyEnqueue, JobEnds, Disable, Advance, vars
        <3> QED BY <3>1, <3>2, <3>3, <3>4 DEF Next
    <2>2. KeyOf(p) \in SlotKeys
        BY <2>1 DEF SlotInv, HoldsKey, Collide, Refuse
    <2>3. CASE Refuse(p)
        <3>1. ~TooOld(KeyOf(p))
            BY <2>3, SlotIsYoung DEF Refuse
        <3>2. ~Available(KeyOf(p)[1])
            BY <2>3, <3>1 DEF Refuse, Refused
        <3> QED BY <3>2 DEF Available, KeyOf
    <2>4. CASE Collide(p)
        <3>1. interval[KeyOf(p)[1]] = 0 /\ slot_job[KeyOf(p)] = 0 /\ ActiveJob(KeyOf(p))
            BY <2>4 DEF Collide, SlotInv, HoldsKey
        <3>2. PICK i \in DOMAIN jobs[KeyOf(p)] : jobs[KeyOf(p)][i].active
            BY <3>1 DEF ActiveJob
        <3>3. jobs[KeyOf(p)] \in Seq(JobRow)
            BY <2>2 DEF SlotInv, ScheduleTypeOK
        <3>4. i # 0 /\ jobs[KeyOf(p)][i] \in JobRow
            BY <3>2, <3>3
        <3>5. ScheduledJobs(KeyOf(p)) \subseteq {0}
            BY <2>2, <3>1 DEF OneJobPerSlot
        <3>6. jobs[KeyOf(p)][i].by # "slot"
            BY <3>2, <3>4, <3>5 DEF ScheduledJobs
        <3>7. jobs[KeyOf(p)][i].by = "legacy"
            BY <3>4, <3>6 DEF JobRow
        <3> QED BY <3>2, <3>7 DEF HeldByLegacy
    <2> QED BY <2>1, <2>3, <2>4
<1>2. Init => OneJobPerSlot /\ InTime
    BY ScheduleAssumption DEF Init, OneJobPerSlot, ScheduledJobs, InTime
<1> QED BY <1>1, <1>2, InitSlotInv, NextSlotInv, OneJobPerSlotStep, InTimeStep, PTL
        DEF Spec, OnlyKillSwitchFails

(* Windows that are shorter than the admission by the length of a cycle and *)
(* a minute are enough, whatever the calendar; the equality that the        *)
(* entries accept is not.                                                   *)
THEOREM ShorterWindowsSuffice ==
    (\A e \in Entries :
        ((IF interval[e] > 0 THEN interval[e] - 1 ELSE window[e]) + 1) * TicksPerMinute + MaxCycle
            <= max_age[e] * TicksPerMinute)
        => SlotsStayFresh
<1> SUFFICES ASSUME NEW e \in Entries, NEW m \in Minutes, SlotAt(e, m) # NoSlot,
                    NEW reach, reach = IF interval[e] > 0 THEN interval[e] - 1 ELSE window[e],
                    (reach + 1) * TicksPerMinute + MaxCycle <= max_age[e] * TicksPerMinute
             PROVE  (m + 1 - SlotAt(e, m)) * TicksPerMinute + MaxCycle <= max_age[e] * TicksPerMinute
    BY DEF SlotsStayFresh
<1> DEFINE slot == SlotAt(e, m)
<1>1. /\ m \in Nat /\ interval[e] \in Nat /\ window[e] \in Nat /\ check[e] \in Nat \ {0}
      /\ Matches[e] \in SUBSET Nat /\ max_age[e] \in Nat /\ reach \in Nat
      /\ TicksPerMinute \in Nat \ {0} /\ MaxCycle \in Nat
    <2>1. LastMinute \in Nat
        BY ScheduleAssumption
    <2>2. interval[e] \in Nat /\ window[e] \in Nat
        BY ScheduleAssumption
    <2>3. reach \in Nat
        BY <2>2
    <2> QED BY <2>1, <2>2, <2>3, ScheduleAssumption DEF Matches, Minutes
<1>2. slot \in Nat /\ m - slot <= reach
    <2>1. CASE interval[e] > 0
        <3>1. slot = FloorTo(m, interval[e])
            BY <2>1 DEF SlotAt, IntervalSlot
        <3>2. FloorTo(m, interval[e]) \in Nat /\ m < FloorTo(m, interval[e]) + interval[e]
            <4>1. interval[e] \in Nat \ {0}
                BY <1>1, <2>1
            <4> QED BY <1>1, <4>1, DivisionOfNat
        <3> HIDE DEF slot
        <3> QED BY <1>1, <2>1, <3>1, <3>2
    <2>2. CASE ~(interval[e] > 0)
        <3>1. slot = CronSlot(Matches[e], m, window[e], check[e])
            BY <2>2 DEF SlotAt
        <3>2. slot \in Matches[e] /\ m - slot <= window[e]
            BY <1>1, <3>1, CronSlotSound
        <3> HIDE DEF slot
        <3> QED BY <1>1, <2>2, <3>2
    <2> QED BY <2>1, <2>2
<1> HIDE DEF slot
<1>3. (m + 1 - slot) * TicksPerMinute <= (reach + 1) * TicksPerMinute
    <2>1. m + 1 - slot <= reach + 1 /\ m + 1 - slot \in Int /\ reach + 1 \in Int
        BY <1>1, <1>2
    <2> QED BY <1>1, <2>1, SMTT(30)
<1>4. (m + 1 - slot) * TicksPerMinute \in Int /\ (reach + 1) * TicksPerMinute \in Int
      /\ max_age[e] * TicksPerMinute \in Int
    BY <1>1, <1>2, SMTT(30)
<1> QED BY <1>1, <1>3, <1>4 DEF slot
-------------------------------------------------------------------------------
(* Catch-up.  A cycle that begins in the window of a slot is due for it,    *)
(* and takes the entries in their order; so the slot is served by the first *)
(* such cycle that is not cut off.                                         *)

LEMMA DivisionAbove ==
    ASSUME NEW n \in Nat, NEW d \in Nat \ {0}, NEW b \in Nat, b * d <= n
    PROVE  b <= n \div d
<1>1. n \div d \in Nat /\ n < (n \div d) * d + d
    BY DivisionOfNat
<1>2. ASSUME n \div d + 1 <= b PROVE FALSE
    <2>1. (n \div d + 1) * d <= b * d
        BY <1>1, <1>2, SMTT(30)
    <2>2. (n \div d + 1) * d = (n \div d) * d + d
        BY <1>1, SMTT(30)
    <2>3. (n \div d) * d \in Int /\ b * d \in Int
        BY <1>1, SMTT(30)
    <2> QED BY <1>1, <2>1, <2>2, <2>3
<1> QED BY <1>1, <1>2

\* From the first check on, a check boundary lies between the slot and now.
LEMMA FirstCheckSees ==
    ASSUME NEW e \in Entries, NEW m \in Nat
    PROVE  /\ FirstCheck(e, m) \in Nat
           /\ \A minute \in Nat : FirstCheck(e, m) <= minute => m <= FloorTo(minute, check[e])
<1> DEFINE d == check[e]
           q == m \div d
<1>1. d \in Nat \ {0} /\ q \in Nat /\ q * d <= m /\ m < q * d + d /\ FloorTo(m, d) = q * d
    BY ScheduleAssumption, DivisionOfNat DEF FloorTo
<1>2. q * d \in Nat
    BY <1>1, SMTT(30)
<1> HIDE DEF d, q
<1>3. CASE m % d = 0
    <2>1. FirstCheck(e, m) = m
        BY <1>3 DEF FirstCheck, d
    <2>2. m = q * d
        BY <1>1, <1>3, SMTT(30) DEF q
    <2>3. ASSUME NEW minute \in Nat, m <= minute PROVE m <= FloorTo(minute, d)
        <3>1. q <= minute \div d /\ minute \div d \in Nat
            BY <1>1, <2>2, <2>3, DivisionAbove, DivisionOfNat
        <3>2. q * d <= (minute \div d) * d
            BY <1>1, <3>1, SMTT(30)
        <3> QED BY <2>2, <3>2 DEF FloorTo
    <2> QED BY <2>1, <2>3 DEF d
<1>4. CASE m % d # 0
    <2>1. FirstCheck(e, m) = q * d + d
        BY <1>1, <1>4 DEF FirstCheck, d
    <2>2. (q + 1) * d = q * d + d
        BY <1>1, SMTT(30)
    <2>3. ASSUME NEW minute \in Nat, q * d + d <= minute PROVE m <= FloorTo(minute, d)
        <3>1. q + 1 <= minute \div d /\ minute \div d \in Nat
            <4>1. q + 1 \in Nat /\ (q + 1) * d <= minute
                BY <1>1, <2>2, <2>3
            <4> QED BY <1>1, <4>1, DivisionAbove, DivisionOfNat
        <3>2. (q + 1) * d <= (minute \div d) * d
            BY <1>1, <3>1, SMTT(30)
        <3>3. (minute \div d) * d \in Nat
            BY <1>1, <3>1, SMTT(30)
        <3> QED BY <1>1, <1>2, <2>2, <3>2, <3>3 DEF FloorTo
    <2> QED BY <1>1, <1>2, <2>1, <2>3 DEF d
<1> QED BY <1>3, <1>4

\* Up to the last check, the window is open and the cron selects no later slot.
LEMMA LastCheckSees ==
    ASSUME NEW e \in Entries, NEW m \in Matches[e]
    PROVE  /\ LastCheck(e, m) \in Nat /\ LastCheck(e, m) <= m + window[e]
           /\ \A n \in Matches[e] : n <= m \/ LastCheck(e, m) < n
<1> DEFINE later == {n \in Matches[e] : m < n /\ n <= m + window[e]}
<1>1. m \in Nat /\ Matches[e] \subseteq Nat /\ window[e] \in Nat
    BY ScheduleAssumption DEF Matches, Minutes
<1>2. CASE later = {}
    <2>1. LastCheck(e, m) = m + window[e]
        BY <1>2 DEF LastCheck
    <2>2. \A n \in Matches[e] : n <= m \/ m + window[e] < n
        BY <1>1, <1>2
    <2> QED BY <1>1, <2>1, <2>2
<1>3. CASE later # {}
    <2>1. LastCheck(e, m) = (CHOOSE n \in later : \A i \in later : n <= i) - 1
        BY <1>3 DEF LastCheck
    <2>2. \E n \in later : \A i \in later : n <= i
        BY <1>1, <1>3, LeastExists
    <2>3. PICK n \in later : LastCheck(e, m) = n - 1 /\ \A i \in later : n <= i
        BY <2>1, <2>2
    <2>4. n \in Nat /\ m < n /\ n <= m + window[e]
        BY <1>1, <2>3
    <2>5. \A i \in Matches[e] : i <= m \/ n - 1 < i
        <3> SUFFICES ASSUME NEW i \in Matches[e], m < i, i < n PROVE FALSE
            BY <1>1, <2>4
        <3>1. i \in later
            BY <1>1, <2>4
        <3> QED BY <1>1, <2>3, <2>4, <3>1
    <2> QED BY <1>1, <2>3, <2>4, <2>5
<1> QED BY <1>2, <1>3

\* So every minute in between is due for the slot.
LEMMA WindowIsDue ==
    ASSUME NEW e \in Entries, NEW m \in Matches[e], interval[e] = 0, NEW minute \in Nat,
           FirstCheck(e, m) <= minute, minute <= LastCheck(e, m)
    PROVE  SlotAt(e, minute) = m
<1>1. m \in Nat /\ Matches[e] \in SUBSET Nat /\ window[e] \in Nat /\ check[e] \in Nat \ {0}
    BY ScheduleAssumption DEF Matches, Minutes
<1>2. m <= FloorTo(minute, check[e])
    BY <1>1, FirstCheckSees
<1>3. /\ LastCheck(e, m) \in Nat /\ LastCheck(e, m) <= m + window[e]
      /\ \A n \in Matches[e] : n <= m \/ LastCheck(e, m) < n
    BY LastCheckSees
<1>4. minute - m <= window[e]
    BY <1>1, <1>3
<1>5. \A n \in Matches[e] : n <= m \/ minute < n
    BY <1>1, <1>3
<1>6. CronSlot(Matches[e], minute, window[e], check[e]) = m
    BY <1>1, <1>2, <1>4, <1>5, CronSlotCatchesUp
<1> QED BY <1>6 DEF SlotAt

\* The entries are taken in their order: none that is due is passed over.
LEMMA NextDueReaches ==
    ASSUME NEW tick, NEW i \in Nat \ {0}, NEW k \in i..Len(EntryOrder),
           SlotAt(EntryOrder[k], MinuteOf(tick)) # NoSlot
    PROVE  NextDue(tick, i) \in i..k
<1> DEFINE due == {n \in i..Len(EntryOrder) : SlotAt(EntryOrder[n], MinuteOf(tick)) # NoSlot}
<1>1. Len(EntryOrder) \in Nat
    BY EntriesType
<1>2. k \in due /\ due \in SUBSET Nat /\ \A n \in due : i <= n
    BY <1>1
<1>3. NextDue(tick, i) = IF due = {} THEN Done ELSE CHOOSE n \in due : \A q \in due : n <= q
    BY DEF NextDue
<1> HIDE DEF due
<1>4. \E n \in due : \A q \in due : n <= q
    BY <1>2, LeastExists
<1>5. NextDue(tick, i) \in due /\ \A q \in due : NextDue(tick, i) <= q
    BY <1>2, <1>3, <1>4
<1>6. PICK x : x = NextDue(tick, i)
    OBVIOUS
<1>7. x \in Nat /\ i <= x /\ x <= k
    BY <1>2, <1>5, <1>6
<1> QED BY <1>6, <1>7

\* The first and the last tick of a slot's window, and how long after its
\* first a scheduler that was interrupted n times begins a cycle at the latest.
Opens(e, m) == FirstCheck(e, m) * TicksPerMinute
Closes(e, m) == (LastCheck(e, m) + 1) * TicksPerMinute
Delay(n) == LoopSleep + MaxCycle + n * (MaxCycle + MaxRestart)

LEMMA DelayGrows ==
    /\ \A n \in Nat : Delay(n) \in Nat /\ LoopSleep + MaxCycle <= Delay(n)
                      /\ Delay(n + 1) = Delay(n) + MaxCycle + MaxRestart
    /\ \A n, l \in Nat : n <= l => Delay(n) <= Delay(l)
<1> DEFINE d == MaxCycle + MaxRestart
<1>1. LoopSleep \in Nat /\ MaxCycle \in Nat /\ MaxRestart \in Nat /\ d \in Nat
    BY ScheduleAssumption
<1>2. \A n \in Nat : Delay(n) = LoopSleep + MaxCycle + n * d
    BY DEF Delay
<1>3. d = MaxCycle + MaxRestart
    OBVIOUS
<1> HIDE DEF d
<1>4. ASSUME NEW n \in Nat PROVE n * d \in Nat /\ (n + 1) * d = n * d + d
    BY <1>1, SMTT(30)
<1>5. ASSUME NEW n \in Nat, NEW l \in Nat, n <= l PROVE n * d <= l * d
    BY <1>1, <1>5, SMTT(30)
<1>6. ASSUME NEW n \in Nat
      PROVE  /\ Delay(n) \in Nat /\ LoopSleep + MaxCycle <= Delay(n)
             /\ Delay(n + 1) = Delay(n) + MaxCycle + MaxRestart
    <2>1. n + 1 \in Nat
        OBVIOUS
    <2> QED BY <1>1, <1>2, <1>3, <1>4, <2>1
<1>7. ASSUME NEW n \in Nat, NEW l \in Nat, n <= l PROVE Delay(n) <= Delay(l)
    <2>1. n * d \in Nat /\ l * d \in Nat /\ n * d <= l * d
        BY <1>4, <1>5, <1>7
    <2> QED BY <1>1, <1>2, <2>1
<1> QED BY <1>6, <1>7

\* The interruptions that may happen, and the last cycle, end with the window.
WindowIsLong(e, m) == Opens(e, m) + Delay(MaxFaults) + MaxCycle < Closes(e, m)

\* Scheduler p has served slot m of entry i, or it is on its way.
Comes(p, i, m) ==
    LET e == EntryOrder[i]
    IN  \/ slot_job[<<e, m>>] # 0
        \/ pc[p] \in {"asleep", "down"} /\ wake[p] <= Opens(e, m) + Delay(faults)
        \/ pc[p] \in {"lookup", "reserve", "finish"} /\ moment[p] < Opens(e, m)
        \/ /\ pc[p] \in {"lookup", "reserve"} /\ entry[p] <= i
           /\ Opens(e, m) <= moment[p] /\ moment[p] <= Opens(e, m) + Delay(faults)

\* No more crashes than there may be, and no job but of a slot where no older
\* scheduler writes.
CalmInv ==
    /\ faults <= MaxFaults
    /\ \A k \in SlotKeys \ LegacyKeys : \A i \in DOMAIN jobs[k] : jobs[k][i].by = "slot"

LEMMA CalmStep == SlotInv /\ CalmInv /\ [Next]_vars => CalmInv'
<1> SUFFICES ASSUME SlotInv, CalmInv, [Next]_vars PROVE CalmInv'
    OBVIOUS
<1>1. faults' <= MaxFaults
    <2>1. faults \in Nat /\ MaxFaults \in Nat /\ faults <= MaxFaults
        BY ScheduleAssumption DEF SlotInv, ScheduleTypeOK, CalmInv
    <2>2. faults' = faults \/ (faults' = faults + 1 /\ faults < MaxFaults)
        BY DEF Next, vars, StartCycle, EndCycle, Lookup, Reserve, EnqueueFamily, Collide, Refuse,
               Crash, Restart, LegacyEnqueue, JobEnds, Disable, Advance
    <2> QED BY <2>1, <2>2
<1>2. ASSUME NEW k \in SlotKeys \ LegacyKeys
      PROVE  \A i \in DOMAIN jobs'[k] : jobs'[k][i].by = "slot"
    <2>1. jobs[k] \in Seq(JobRow) /\ \A i \in DOMAIN jobs[k] : jobs[k][i].by = "slot"
        BY DEF SlotInv, ScheduleTypeOK, CalmInv
    <2>2. CASE jobs'[k] = jobs[k]
        BY <2>1, <2>2
    <2>3. CASE jobs'[k] = Append(jobs[k], [by |-> "slot", active |-> TRUE])
        <3>1. \A i \in DOMAIN jobs'[k] :
                  jobs'[k][i].by = "slot" \/ (i \in DOMAIN jobs[k] /\ jobs'[k][i] = jobs[k][i])
            BY <2>1, <2>3
        <3> QED BY <2>1, <3>1
    <2>4. CASE jobs'[k] = << [by |-> "slot", active |-> TRUE] >>
        BY <2>4
    <2>5. CASE \E i \in DOMAIN jobs[k] : jobs'[k] = [jobs[k] EXCEPT ![i].active = FALSE]
        <3>1. PICK i \in DOMAIN jobs[k] : jobs'[k] = [jobs[k] EXCEPT ![i].active = FALSE]
            BY <2>5
        <3>2. \A n \in DOMAIN jobs[k] : jobs'[k][n].by = jobs[k][n].by
            BY <2>1, <3>1, EndedType
        <3> QED BY <2>1, <3>1, <3>2
    <2> QED BY <1>2, <2>2, <2>3, <2>4, <2>5, JobSteps
<1> QED BY <1>1, <1>2 DEF CalmInv

\* Without older schedulers and kill switches, only a crash ends a cycle.
LEMMA NothingRefused ==
    ASSUME SlotsStayFresh, SlotInv, OneJobPerSlot, InTime, CalmInv, Gated = {}, LegacyKeys = {},
           NEW p \in Schedulers
    PROVE  ~ Refuse(p) /\ ~ Collide(p)
<1>1. ~ Refuse(p)
    <2> SUFFICES ASSUME Refuse(p) PROVE FALSE
        OBVIOUS
    <2>1. ~ TooOld(KeyOf(p))
        BY SlotIsYoung DEF Refuse
    <2> QED BY <2>1 DEF Refuse, Refused, Available
<1>2. ~ Collide(p)
    <2> SUFFICES ASSUME Collide(p) PROVE FALSE
        OBVIOUS
    <2> DEFINE k == KeyOf(p)
    <2>1. k \in SlotKeys /\ interval[k[1]] = 0 /\ slot_job[k] = 0 /\ ActiveJob(k)
        BY DEF Collide, SlotInv, HoldsKey
    <2>2. PICK i \in DOMAIN jobs[k] : jobs[k][i].active
        BY <2>1 DEF ActiveJob
    <2>3. jobs[k] \in Seq(JobRow)
        BY <2>1 DEF SlotInv, ScheduleTypeOK
    <2>4. i # 0 /\ jobs[k][i].by = "slot"
        BY <2>1, <2>2, <2>3 DEF CalmInv
    <2>5. ScheduledJobs(k) \subseteq {0}
        BY <2>1 DEF OneJobPerSlot
    <2> QED BY <2>2, <2>4, <2>5 DEF ScheduledJobs
<1> QED BY <1>1, <1>2

LEMMA DueInWindow ==
    ASSUME NEW e \in Entries, NEW m \in Matches[e], interval[e] = 0, NEW tick \in Nat,
           Opens(e, m) <= tick, tick < Closes(e, m)
    PROVE  SlotAt(e, MinuteOf(tick)) = m
<1>1. FirstCheck(e, m) \in Nat /\ LastCheck(e, m) \in Nat /\ TicksPerMinute \in Nat \ {0}
    BY FirstCheckSees, LastCheckSees, ScheduleAssumption DEF Matches, Minutes
<1>2. MinuteOf(tick) \in Nat
    BY <1>1, DivisionOfNat DEF MinuteOf
<1>3. FirstCheck(e, m) <= MinuteOf(tick)
    BY <1>1, DivisionAbove DEF MinuteOf, Opens
<1>4. MinuteOf(tick) <= LastCheck(e, m)
    BY <1>1, DivisionBelow DEF MinuteOf, Closes
<1> QED BY <1>2, <1>3, <1>4, WindowIsDue

\* What is known of the instants of a process.
LEMMA InstantsType ==
    ASSUME SlotInv, InTime, CalmInv, NEW p \in Schedulers, NEW e \in Entries, NEW m \in Matches[e]
    PROVE  /\ ticks \in Nat /\ wake[p] \in Nat /\ moment[p] \in Nat /\ faults \in Nat
           /\ MaxCycle \in Nat /\ LoopSleep \in Nat /\ MaxRestart \in Nat /\ MaxFaults \in Nat
           /\ Opens(e, m) \in Nat /\ Closes(e, m) \in Nat
           /\ ticks <= wake[p]
           /\ pc[p] \in {"lookup", "reserve", "finish"} => wake[p] <= moment[p] + MaxCycle
           /\ Delay(faults) \in Nat /\ LoopSleep + MaxCycle <= Delay(faults)
           /\ Delay(faults) <= Delay(MaxFaults) /\ Delay(MaxFaults) \in Nat
           /\ Delay(faults + 1) = Delay(faults) + MaxCycle + MaxRestart
<1>1. /\ ticks \in Nat /\ wake[p] \in Nat /\ moment[p] \in Nat /\ faults \in Nat
      /\ MaxCycle \in Nat /\ LoopSleep \in Nat /\ MaxRestart \in Nat /\ MaxFaults \in Nat
      /\ faults <= MaxFaults /\ TicksPerMinute \in Nat
    BY ScheduleAssumption DEF SlotInv, ScheduleTypeOK, ClockInv, CalmInv
<1>2. FirstCheck(e, m) \in Nat /\ LastCheck(e, m) + 1 \in Nat
    BY FirstCheckSees, LastCheckSees DEF Matches, Minutes
<1>3. \A a, b \in Nat : a * b \in Nat
    BY SMTT(30)
<1>4. Opens(e, m) \in Nat /\ Closes(e, m) \in Nat
    BY <1>1, <1>2, <1>3 DEF Opens, Closes
<1>5. /\ ticks <= wake[p]
      /\ pc[p] \in {"lookup", "reserve", "finish"} => wake[p] <= moment[p] + MaxCycle
    BY DEF InTime
<1> QED BY <1>1, <1>4, <1>5, DelayGrows

\* A process that goes on with its cycle at position n at the latest of the
\* slot's entry: it stops there, or before, if the slot is due.
LEMMA GoesToIt ==
    ASSUME SlotInv, NEW p \in Schedulers, NEW i \in 1..Len(EntryOrder), NEW m \in Matches[EntryOrder[i]],
           interval[EntryOrder[i]] = 0, NEW tick \in Nat, NEW n \in Nat \ {0}, n <= i,
           Opens(EntryOrder[i], m) <= tick, tick < Closes(EntryOrder[i], m),
           GoOn(p, NextDue(tick, n))
    PROVE  pc'[p] = "lookup" /\ entry'[p] <= i
<1> DEFINE e == EntryOrder[i]
           x == NextDue(tick, n)
<1>1. e \in Entries /\ Len(EntryOrder) \in Nat
    BY EntriesType
<1>2. SlotAt(e, MinuteOf(tick)) = m
    BY <1>1, DueInWindow
<1>3. m # NoSlot
    BY ScheduleAssumption DEF Matches, Minutes, NoSlot
<1>4. x \in n..i
    BY <1>1, <1>2, <1>3, NextDueReaches
<1>5. entry' = [entry EXCEPT ![p] = x] /\ pc' = [pc EXCEPT ![p] = IF x = Done THEN "finish" ELSE "lookup"]
    BY DEF GoOn
<1> HIDE DEF x
<1>6. x # Done /\ x <= i
    BY <1>1, <1>4 DEF Done
<1> QED BY <1>5, <1>6 DEF SlotInv, ScheduleTypeOK

LEMMA ComesStep ==
    ASSUME SlotsStayFresh, SlotInv, OneJobPerSlot, InTime, CalmInv, Gated = {}, LegacyKeys = {},
           [Next]_vars, NEW p \in Schedulers, NEW i \in 1..Len(EntryOrder),
           NEW m \in Matches[EntryOrder[i]], interval[EntryOrder[i]] = 0,
           WindowIsLong(EntryOrder[i], m), Comes(p, i, m)
    PROVE  Comes(p, i, m)'
<1> DEFINE e == EntryOrder[i]
           S == Opens(e, m)
<1>1. e \in Entries /\ m \in Minutes /\ <<e, m>> \in SlotKeys
    BY EntriesType DEF Matches, SlotKeys
<1>2. CASE slot_job[<<e, m>>] # 0
    <2>1. slot_job'[<<e, m>>] # 0
        <3>1. jobs[<<e, m>>] \in Seq(JobRow)
            BY <1>1 DEF SlotInv, ScheduleTypeOK
        <3> QED BY <1>1, <1>2, <3>1, JobSteps
    <2> QED BY <2>1 DEF Comes
<1>3. /\ ticks \in Nat /\ wake[p] \in Nat /\ moment[p] \in Nat /\ faults \in Nat
      /\ MaxCycle \in Nat /\ LoopSleep \in Nat /\ MaxRestart \in Nat
      /\ S \in Nat /\ Closes(e, m) \in Nat /\ ticks <= wake[p]
      /\ pc[p] \in {"lookup", "reserve", "finish"} => wake[p] <= moment[p] + MaxCycle
      /\ Delay(faults) \in Nat /\ LoopSleep + MaxCycle <= Delay(faults)
      /\ Delay(faults + 1) = Delay(faults) + MaxCycle + MaxRestart
      /\ \A t \in Nat : t <= S + Delay(faults) => t < Closes(e, m)
    <2>1. /\ Delay(faults) <= Delay(MaxFaults) /\ Delay(MaxFaults) \in Nat /\ Delay(faults) \in Nat
          /\ S \in Nat /\ Closes(e, m) \in Nat /\ MaxCycle \in Nat
        BY <1>1, InstantsType
    <2>2. S + Delay(MaxFaults) + MaxCycle < Closes(e, m)
        BY DEF WindowIsLong
    <2>3. \A t \in Nat : t <= S + Delay(faults) => t < Closes(e, m)
        BY <2>1, <2>2
    <2> QED BY <1>1, <2>3, InstantsType
<1>4. /\ pc \in [Schedulers -> {"asleep", "lookup", "reserve", "finish", "down"}]
      /\ entry \in [Schedulers -> 1..Done] /\ moment \in [Schedulers -> Nat]
      /\ wake \in [Schedulers -> Nat] /\ slot_job \in [SlotKeys -> Nat]
      /\ jobs[<<e, m>>] \in Seq(JobRow)
    BY <1>1 DEF SlotInv, ScheduleTypeOK
<1>5. \/ slot_job[<<e, m>>] # 0
      \/ pc[p] \in {"asleep", "down"} /\ wake[p] <= S + Delay(faults)
      \/ pc[p] \in {"lookup", "reserve", "finish"} /\ moment[p] < S
      \/ /\ pc[p] \in {"lookup", "reserve"} /\ entry[p] <= i
         /\ S <= moment[p] /\ moment[p] <= S + Delay(faults)
    BY DEF Comes
<1>6. Comes(p, i, m)' <=>
      \/ slot_job'[<<e, m>>] # 0
      \/ pc'[p] \in {"asleep", "down"} /\ wake'[p] <= S + Delay(faults')
      \/ pc'[p] \in {"lookup", "reserve", "finish"} /\ moment'[p] < S
      \/ /\ pc'[p] \in {"lookup", "reserve"} /\ entry'[p] <= i
         /\ S <= moment'[p] /\ moment'[p] <= S + Delay(faults')
    BY DEF Comes, Opens, FirstCheck, FloorTo, Delay
<1> SUFFICES ASSUME slot_job[<<e, m>>] = 0 PROVE Comes(p, i, m)'
    BY <1>2
<1>7. ASSUME pc'[p] = pc[p], wake'[p] = wake[p], moment'[p] = moment[p], entry'[p] = entry[p],
             faults' \in {faults, faults + 1}
      PROVE  Comes(p, i, m)'
    <2>1. Delay(faults) <= Delay(faults')
        BY <1>3, <1>7
    <2>2. Delay(faults') \in Nat
        BY <1>3, <1>7
    <2> HIDE DEF S, e
    <2>3. \A t \in Nat : t <= S + Delay(faults) => t <= S + Delay(faults')
        BY <1>3, <2>1, <2>2
    <2>4. CASE pc[p] \in {"asleep", "down"} /\ wake[p] <= S + Delay(faults)
        BY <1>3, <1>6, <1>7, <2>3, <2>4
    <2>5. CASE pc[p] \in {"lookup", "reserve", "finish"} /\ moment[p] < S
        BY <1>6, <1>7, <2>5
    <2>6. CASE /\ pc[p] \in {"lookup", "reserve"} /\ entry[p] <= i
               /\ S <= moment[p] /\ moment[p] <= S + Delay(faults)
        BY <1>3, <1>6, <1>7, <2>3, <2>6
    <2> QED BY <1>5, <2>4, <2>5, <2>6
<1>5a. pc[p] \in {"lookup", "reserve"} =>
           \/ moment[p] < S
           \/ entry[p] <= i /\ S <= moment[p] /\ moment[p] <= S + Delay(faults)
    <2> HIDE DEF S, e
    <2> QED BY <1>5
<1>8. ASSUME NEW q \in Schedulers, q # p,
             \/ StartCycle(q) \/ EndCycle(q) \/ Lookup(q) \/ Reserve(q)
             \/ EnqueueFamily(q) \/ Collide(q) \/ Refuse(q) \/ Crash(q) \/ Restart(q)
      PROVE  Comes(p, i, m)'
    <2>1. \/ faults' = faults \/ faults' = faults + 1
        BY <1>8 DEF StartCycle, EndCycle, Lookup, Reserve, EnqueueFamily, Collide, Refuse, Crash,
                    Restart
    <2>2. pc'[p] = pc[p] /\ entry'[p] = entry[p] /\ wake'[p] = wake[p] /\ moment'[p] = moment[p]
        <3>1. CASE StartCycle(q) \/ EndCycle(q) \/ Restart(q)
            BY <1>4, <1>8, <3>1 DEF StartCycle, EndCycle, Restart, GoOn
        <3>2. CASE Lookup(q) \/ Reserve(q) \/ EnqueueFamily(q)
            BY <1>4, <1>8, <3>2 DEF Lookup, Reserve, EnqueueFamily, Proceed, GoOn
        <3>3. CASE Collide(q) \/ Refuse(q) \/ Crash(q)
            BY <1>4, <1>8, <3>3 DEF Collide, Refuse, Crash, Fall
        <3> QED BY <1>8, <3>1, <3>2, <3>3
    <2> QED BY <1>7, <2>1, <2>2
<1>9. CASE \/ \E k \in LegacyKeys : LegacyEnqueue(k) \/ JobEnds(k)
           \/ \E o \in Gated : Disable(o)
           \/ Advance \/ UNCHANGED vars
    BY <1>7, <1>9 DEF LegacyEnqueue, JobEnds, Disable, Advance, vars
<1>10. CASE StartCycle(p)
    <2>1. /\ pc[p] = "asleep" /\ moment'[p] = ticks /\ faults' = faults
          /\ GoOn(p, NextDue(ticks, 1))
        BY <1>4, <1>10 DEF StartCycle
    <2>2. ticks <= S + Delay(faults)
        <3> HIDE DEF S
        <3> QED BY <1>3, <1>5, <2>1
    <2>3. pc'[p] \in {"lookup", "finish"}
        BY <1>4, <2>1 DEF GoOn
    <2>4. CASE ticks < S
        BY <1>6, <2>1, <2>3, <2>4
    <2>5. CASE S <= ticks
        <3>1. pc'[p] = "lookup" /\ entry'[p] <= i
            <4>1. ticks < Closes(e, m) /\ 1 \in Nat \ {0} /\ 1 <= i
                BY <1>3, <2>2
            <4> QED BY <1>3, <2>1, <2>5, <4>1, GoesToIt
        <3> QED BY <1>6, <2>1, <2>2, <2>5, <3>1
    <2> HIDE DEF S
    <2> QED BY <1>3, <2>4, <2>5
<1>11. CASE EndCycle(p)
    <2>1. /\ pc[p] = "finish" /\ pc'[p] = "asleep" /\ wake'[p] = ticks + LoopSleep
          /\ faults' = faults
        BY <1>4, <1>11 DEF EndCycle
    <2> HIDE DEF S
    <2>2. ticks <= S + MaxCycle
        BY <1>3, <1>5, <2>1
    <2> QED BY <1>3, <1>6, <2>1, <2>2
\* A cycle that goes on, before the slot's entry or before its window.
<1>12. ASSUME pc[p] \in {"lookup", "reserve"}, Proceed(p), faults' = faults,
              entry[p] < i \/ moment[p] < S
       PROVE  Comes(p, i, m)'
    <2>1. pc'[p] \in {"lookup", "finish"} /\ moment' = moment
        BY <1>4, <1>12 DEF Proceed, GoOn
    <2>2. CASE moment[p] < S
        BY <1>6, <2>1, <2>2
    <2>3. CASE ~ (moment[p] < S)
        <3>1. S <= moment[p] /\ moment[p] <= S + Delay(faults) /\ entry[p] + 1 <= i
              /\ entry[p] + 1 \in Nat \ {0}
            <4>1. entry[p] \in Nat /\ i \in Nat
                BY <1>4, EntriesType DEF Done
            <4> HIDE DEF S, e
            <4> QED BY <1>5a, <1>12, <2>3, <4>1
        <3>2. GoOn(p, NextDue(moment[p], entry[p] + 1)) /\ moment[p] < Closes(e, m)
            BY <1>3, <1>12, <3>1 DEF Proceed
        <3>3. pc'[p] = "lookup" /\ entry'[p] <= i
            BY <1>3, <3>1, <3>2, GoesToIt
        <3> QED BY <1>6, <1>12, <2>1, <3>1, <3>3
    <2> QED BY <2>2, <2>3
\* At its entry, within its window, the slot is what the process holds.
<1>13. ASSUME pc[p] \in {"lookup", "reserve"}, ~ (entry[p] < i), ~ (moment[p] < S)
       PROVE  KeyOf(p) = <<e, m>> /\ entry[p] = i /\ S <= moment[p] /\ moment[p] <= S + Delay(faults)
    <2>1. S <= moment[p] /\ moment[p] <= S + Delay(faults) /\ entry[p] = i
        <3>1. entry[p] \in Nat /\ i \in Nat
            BY <1>4, EntriesType DEF Done
        <3> HIDE DEF S, e
        <3> QED BY <1>5a, <1>13, <3>1
    <2>2. SlotAt(e, MinuteOf(moment[p])) = m
        BY <1>1, <1>3, <2>1, DueInWindow
    <2> QED BY <2>1, <2>2 DEF KeyOf
<1>14. CASE Lookup(p)
    <2>1. pc[p] = "lookup" /\ faults' = faults
        BY <1>14 DEF Lookup
    <2>2. CASE jobs[KeyOf(p)] = << >>
        <3>1. pc'[p] = "reserve" /\ UNCHANGED <<moment, entry>>
            BY <1>4, <1>14, <2>2 DEF Lookup
        <3> HIDE DEF S
        <3> QED BY <1>5, <1>6, <2>1, <3>1
    <2>3. CASE jobs[KeyOf(p)] # << >>
        <3>1. /\ slot_job' = [slot_job EXCEPT ![KeyOf(p)] = IF @ = 0 THEN 1 ELSE @]
              /\ Proceed(p)
            BY <1>14, <2>3 DEF Lookup
        <3>2. CASE entry[p] < i \/ moment[p] < S
            BY <1>12, <2>1, <3>1, <3>2
        <3>3. CASE ~ (entry[p] < i) /\ ~ (moment[p] < S)
            <4>1. KeyOf(p) = <<e, m>>
                BY <1>13, <2>1, <3>3
            <4>2. slot_job'[<<e, m>>] # 0
                BY <1>1, <1>4, <3>1, <4>1
            <4> QED BY <1>6, <4>2
        <3> QED BY <3>2, <3>3
    <2> QED BY <2>2, <2>3
<1>15. CASE Reserve(p)
    <2>1. pc[p] = "reserve" /\ faults' = faults /\ Proceed(p)
        BY <1>15 DEF Reserve
    <2>2. CASE entry[p] < i \/ moment[p] < S
        BY <1>12, <2>1, <2>2
    <2>3. CASE ~ (entry[p] < i) /\ ~ (moment[p] < S)
        <3>1. KeyOf(p) = <<e, m>>
            BY <1>13, <2>1, <2>3
        <3>2. slot_job' = [slot_job EXCEPT ![<<e, m>>] = Len(jobs[<<e, m>>]) + 1]
            BY <1>15, <3>1 DEF Reserve
        <3>3. slot_job'[<<e, m>>] # 0
            BY <1>1, <1>4, <3>2
        <3> QED BY <1>6, <3>3
    <2> QED BY <2>2, <2>3
<1>16. CASE EnqueueFamily(p)
    <2>1. pc[p] = "lookup" /\ faults' = faults /\ Proceed(p) /\ interval[KeyOf(p)[1]] > 0
        BY <1>16 DEF EnqueueFamily
    <2>2. entry[p] < i \/ moment[p] < S
        <3> SUFFICES ASSUME ~ (entry[p] < i) /\ ~ (moment[p] < S) PROVE FALSE
            OBVIOUS
        <3>1. KeyOf(p) = <<e, m>>
            BY <1>13, <2>1
        <3> QED BY <2>1, <3>1
    <2> QED BY <1>12, <2>1, <2>2
<1>17. CASE Crash(p)
    <2>1. /\ pc[p] \notin {"asleep", "down"} /\ faults' = faults + 1
          /\ pc'[p] = "down" /\ wake'[p] = ticks + MaxRestart
        BY <1>4, <1>17 DEF Crash, Fall
    <2> HIDE DEF S
    <2>2. pc[p] \in {"lookup", "reserve", "finish"} /\ ticks <= S + Delay(faults) + MaxCycle
        BY <1>3, <1>4, <1>5, <2>1
    <2> QED BY <1>3, <1>6, <2>1, <2>2
<1>18. CASE Restart(p)
    <2>1. /\ pc[p] = "down" /\ pc'[p] = "asleep" /\ wake'[p] = ticks /\ faults' = faults
        BY <1>4, <1>18 DEF Restart
    <2> HIDE DEF S
    <2> QED BY <1>3, <1>5, <1>6, <2>1
<1>19. ~ Refuse(p) /\ ~ Collide(p)
    BY NothingRefused
<1> QED BY <1>8, <1>9, <1>10, <1>11, <1>14, <1>15, <1>16, <1>17, <1>18, <1>19 DEF Next

\* The entries whose slots have to be served are on their way in every process.
AllCome ==
    \A p \in Schedulers : \A i \in 1..Len(EntryOrder) : \A m \in Matches[EntryOrder[i]] :
        interval[EntryOrder[i]] = 0 /\ WindowIsLong(EntryOrder[i], m) => Comes(p, i, m)

CatchUpInv == SlotInv /\ OneJobPerSlot /\ InTime /\ CalmInv /\ AllCome

LEMMA CatchUpInitial ==
    ASSUME Init
    PROVE  CatchUpInv
<1>1. SlotInv
    BY InitSlotInv
<1>2. OneJobPerSlot /\ InTime /\ CalmInv
    BY ScheduleAssumption DEF Init, OneJobPerSlot, ScheduledJobs, InTime, CalmInv
<1>3. ASSUME NEW p \in Schedulers, NEW i \in 1..Len(EntryOrder), NEW m \in Matches[EntryOrder[i]]
      PROVE  Comes(p, i, m)
    <2>1. /\ EntryOrder[i] \in Entries /\ pc[p] = "asleep" /\ wake[p] = 0
        BY <1>3, EntriesType DEF Init
    <2>2. Opens(EntryOrder[i], m) \in Nat /\ Delay(faults) \in Nat
        BY <1>1, <1>2, <2>1, InstantsType
    <2> QED BY <2>1, <2>2 DEF Comes
<1> QED BY <1>1, <1>2, <1>3 DEF CatchUpInv, AllCome

LEMMA CatchUpStep ==
    ASSUME SlotsStayFresh, Gated = {}, LegacyKeys = {}, CatchUpInv, [Next]_vars
    PROVE  CatchUpInv'
<1> USE DEF CatchUpInv
<1>1. SlotInv' /\ OneJobPerSlot' /\ InTime' /\ CalmInv'
    BY NextSlotInv, OneJobPerSlotStep, InTimeStep, CalmStep
<1>2. ASSUME NEW p \in Schedulers, NEW i \in 1..Len(EntryOrder), NEW m \in Matches[EntryOrder[i]],
             interval[EntryOrder[i]] = 0, WindowIsLong(EntryOrder[i], m)
      PROVE  Comes(p, i, m)'
    <2>1. Comes(p, i, m)
        BY <1>2 DEF AllCome
    <2> QED BY <1>2, <2>1, ComesStep
<1>3. AllCome'
    BY <1>2 DEF AllCome, WindowIsLong, Opens, Closes, Delay, FirstCheck, LastCheck, FloorTo, Matches
<1> QED BY <1>1, <1>3

\* What the property asks of a window leaves room for the interruptions.
LEMMA WindowsAreLong ==
    ASSUME MaxFaults * (MaxCycle + MaxRestart) + MaxCycle <= MaxRestart + TicksPerMinute,
           NEW e \in Entries, NEW m \in Matches[e],
           (LastCheck(e, m) - FirstCheck(e, m)) * TicksPerMinute > LoopSleep + MaxCycle + MaxRestart
    PROVE  WindowIsLong(e, m)
<1> DEFINE f == FirstCheck(e, m)
           l == LastCheck(e, m)
           T == TicksPerMinute
           x == MaxFaults * (MaxCycle + MaxRestart)
<1>1. f \in Nat /\ l \in Nat
    BY FirstCheckSees, LastCheckSees DEF Matches, Minutes
<1>2. /\ T \in Nat /\ LoopSleep \in Nat /\ MaxCycle \in Nat /\ MaxRestart \in Nat /\ MaxFaults \in Nat
      /\ MaxCycle + MaxRestart \in Nat
    BY ScheduleAssumption
<1>3. /\ Opens(e, m) = f * T /\ Closes(e, m) = (l + 1) * T
      /\ Delay(MaxFaults) = LoopSleep + MaxCycle + x
      /\ x + MaxCycle <= MaxRestart + T
      /\ (l - f) * T > LoopSleep + MaxCycle + MaxRestart
    BY DEF Opens, Closes, Delay
<1>4. x \in Nat
    BY <1>2, SMTT(30)
<1> HIDE DEF f, l, T, x
<1>5. (l + 1) * T = l * T + T /\ (l - f) * T = l * T - f * T /\ l * T \in Int /\ f * T \in Int
    BY <1>1, <1>2, SMTT(30)
<1> QED BY <1>2, <1>3, <1>4, <1>5 DEF WindowIsLong

(* Catch-up serves every slot whose window leaves the loop time for one    *)
(* undisturbed cycle, for every calendar, every phase of the loop and any  *)
(* number of overlapping schedulers, where the crashes that may happen and *)
(* the last cycle together take no longer than one restart and a minute,   *)
(* and neither a kill switch nor an older scheduler ends cycles.           *)
THEOREM CatchUpIsEnough ==
    ASSUME Schedulers # {}, SlotsStayFresh, Gated = {}, LegacyKeys = {},
           MaxFaults * (MaxCycle + MaxRestart) + MaxCycle <= MaxRestart + TicksPerMinute
    PROVE  Spec => []CatchUpServes
<1>1. CatchUpInv => CatchUpServes
    <2> SUFFICES ASSUME CatchUpInv, NEW e \in Entries, NEW m \in Matches[e], interval[e] = 0,
                        (LastCheck(e, m) - FirstCheck(e, m)) * TicksPerMinute
                            > LoopSleep + MaxCycle + MaxRestart,
                        ticks > (LastCheck(e, m) + 1) * TicksPerMinute
                 PROVE  slot_job[<<e, m>>] # 0
        BY DEF CatchUpServes
    <2>1. PICK p \in Schedulers : TRUE
        OBVIOUS
    <2>2. PICK i \in 1..Len(EntryOrder) : e = EntryOrder[i]
        BY EntriesType DEF Entries
    <2>3. WindowIsLong(e, m) /\ Comes(p, i, m)
        BY <2>2, WindowsAreLong DEF CatchUpInv, AllCome
    <2> DEFINE S == Opens(e, m)
    <2>4. ticks > Closes(e, m) /\ S + Delay(MaxFaults) + MaxCycle < Closes(e, m)
        BY <2>3 DEF Closes, WindowIsLong
    <2>5. /\ ticks \in Nat /\ wake[p] \in Nat /\ moment[p] \in Nat /\ faults \in Nat
          /\ MaxCycle \in Nat /\ S \in Nat /\ Closes(e, m) \in Nat /\ ticks <= wake[p]
          /\ pc[p] \in {"lookup", "reserve", "finish"} => wake[p] <= moment[p] + MaxCycle
          /\ Delay(faults) \in Nat /\ Delay(faults) <= Delay(MaxFaults) /\ Delay(MaxFaults) \in Nat
        BY InstantsType DEF CatchUpInv
    <2>6. \/ slot_job[<<e, m>>] # 0
          \/ pc[p] \in {"asleep", "down"} /\ wake[p] <= S + Delay(faults)
          \/ pc[p] \in {"lookup", "reserve", "finish"} /\ moment[p] < S
          \/ pc[p] \in {"lookup", "reserve"} /\ moment[p] <= S + Delay(faults)
        BY <2>2, <2>3 DEF Comes
    <2> HIDE DEF S
    <2>7. /\ ~ (wake[p] <= S + Delay(faults))
          /\ ~ (wake[p] <= moment[p] + MaxCycle /\ moment[p] < S)
          /\ ~ (wake[p] <= moment[p] + MaxCycle /\ moment[p] <= S + Delay(faults))
        BY <2>4, <2>5
    <2> QED BY <2>5, <2>6, <2>7
<1>2. Init => CatchUpInv
    BY CatchUpInitial
<1>3. CatchUpInv /\ [Next]_vars => CatchUpInv'
    BY CatchUpStep
<1> QED BY <1>1, <1>2, <1>3, PTL DEF Spec
===============================================================================
