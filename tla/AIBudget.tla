------------------------------- MODULE AIBudget -------------------------------
(***************************************************************************)
(* Paid AI calls under one shared in-memory ledger (extraction/budget.py,    *)
(* extraction/providers.py): a call reserves an upper bound of its cost       *)
(* under the ledger's lock, is dispatched once, and is charged its usage, or  *)
(* the whole bound when its answer is lost, on the day of its reservation.   *)
(*                                                                         *)
(* Threads read the clock before they take the lock, so a reservation may   *)
(* be made for a day that is already over.  The provider may bill a call     *)
(* whose answer never arrives.                                              *)
(***************************************************************************)
EXTENDS Naturals, FiniteSets, FiniteSetsExt, Functions

CONSTANTS
    Callers,        \* threads that make AI calls
    Estimates,      \* upper bounds a request may have
    DailyLimit, MonthlyLimit,
    MonthLength,    \* days of a month
    LastDay         \* bound of the clock

\* Costs are counted in the ledger's smallest unit; none is negative.
ASSUME LimitsAssumption ==
    /\ IsFiniteSet(Callers) /\ Estimates \subseteq Nat
    /\ DailyLimit \in Nat /\ MonthlyLimit \in Nat
    /\ MonthLength \in Nat \ {0} /\ LastDay \in Nat \ {0}

VARIABLES
    today,
    charged,        \* [day -> recorded cost of the runs reserved on it]
    billed,         \* [day -> what the provider billed for them]
    caller          \* [Callers -> its call]

budgetVars == <<today, charged, billed, caller>>

BudgetDays == 1 .. LastDay
MonthOf(d) == (d - 1) \div MonthLength
Unused == [at |-> "rest", day |-> 1, bound |-> 0, attempts |-> 0, cost |-> 0]

BudgetInit ==
    /\ today = 1
    /\ charged = [d \in BudgetDays |-> 0] /\ billed = [d \in BudgetDays |-> 0]
    /\ caller = [c \in Callers |-> Unused]

Reserving == {c \in Callers : caller[c].at \in {"reserved", "answered", "lost"}}
Over(days) == SumFunctionOnSet(charged, days)
Reserved_(days) ==
    SumFunctionOnSet([c \in Callers |-> caller[c].bound], {c \in Reserving : caller[c].day \in days})

Spend(days) == Over(days) + Reserved_(days)
Month(d) == {e \in BudgetDays : MonthOf(e) = MonthOf(d)}
Affordable(d, bound) == Spend({d}) + bound <= DailyLimit /\ Spend(Month(d)) + bound <= MonthlyLimit

ReadClock(c, bound) ==
    /\ caller[c] = Unused
    /\ caller' = [caller EXCEPT ![c] = [Unused EXCEPT !.at = "asking", !.day = today, !.bound = bound]]
    /\ UNCHANGED <<today, charged, billed>>

(* A refused call leaves its job pending.                                   *)
ReserveBudget(c) ==
    /\ caller[c].at = "asking"
    /\ caller' = [caller EXCEPT ![c] =
          IF Affordable(caller[c].day, caller[c].bound) THEN [@ EXCEPT !.at = "reserved"] ELSE Unused]
    /\ UNCHANGED <<today, charged, billed>>

(* A budgeted provider makes no retries of its own.                         *)
Retries == 0

Dispatch(c, cost) ==
    /\ caller[c].at = "reserved" /\ cost <= caller[c].bound
    /\ billed' = [billed EXCEPT ![caller[c].day] = @ + cost]
    /\ \E seen \in {"answered", "lost"} :
          caller' = [caller EXCEPT
              ![c].at = IF seen = "lost" /\ caller[c].attempts < Retries THEN "reserved" ELSE seen,
              ![c].attempts = IF caller[c].attempts < Retries THEN @ + 1 ELSE @,
              ![c].cost = cost]
    /\ UNCHANGED <<today, charged>>

(* The cost that is committed: the reported usage, or the bound.            *)
Owed(c) == IF caller[c].at = "answered" THEN caller[c].cost ELSE caller[c].bound

ChargedWhenDone(c) == today
ChargedOn(c) == caller[c].day

Charge(c) ==
    /\ caller[c].at \in {"answered", "lost"}
    /\ charged' = [charged EXCEPT ![ChargedOn(c)] = @ + Owed(c)]
    /\ caller' = [caller EXCEPT ![c] = Unused]
    /\ UNCHANGED <<today, billed>>

NextDay ==
    /\ today < LastDay
    /\ today' = today + 1
    /\ UNCHANGED <<charged, billed, caller>>

BudgetNext ==
    \/ \E c \in Callers :
          \/ \E bound \in Estimates : ReadClock(c, bound)
          \/ \E cost \in 0 .. Max(Estimates) : Dispatch(c, cost)
          \/ ReserveBudget(c) \/ Charge(c)
    \/ NextDay

BudgetSpec == BudgetInit /\ [][BudgetNext]_budgetVars

----------------------------------------------------------------------------
(* A call is in one phase, for a day that has begun.                        *)
BudgetTypeOK ==
    \A c \in Callers :
        /\ caller[c].at \in {"rest", "asking", "reserved", "answered", "lost"}
        /\ caller[c].day <= today /\ caller[c].cost <= caller[c].bound
        /\ caller[c].attempts = 0

(* Whatever threads race for the last of the budget, around midnight and     *)
(* with calls still out, no day and no month is promised more than its       *)
(* limit.                                                                   *)
NeverOverLimit ==
    \A d \in BudgetDays : Spend({d}) <= DailyLimit /\ Spend(Month(d)) <= MonthlyLimit

(* The ledger covers what the provider may really bill for a day's calls,    *)
(* also the calls whose answer was lost.                                    *)
BillIsCovered == \A d \in BudgetDays : billed[d] <= Spend({d})

(* The ledger never promises more than the limits, nor less than is owed.   *)
BudgetInv == BudgetTypeOK /\ NeverOverLimit /\ BillIsCovered
================================================================================
