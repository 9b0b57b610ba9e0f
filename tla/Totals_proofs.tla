----------------------------- MODULE Totals_proofs -----------------------------
(***************************************************************************)
(* Proofs about what is counted, for every value of the constants: the     *)
(* budget that paid calls are promised from, the map cells that public     *)
(* studies publish, the text those studies are read from, and the tries of *)
(* a reported quantity.  The first two rest on sums over finite sets;      *)
(* beyond those the parts share nothing, and each has an inductive         *)
(* invariant of its own.                                                   *)
(***************************************************************************)
EXTENDS AIBudget, PublicStudies, StudyText, ReportedVolume, FiniteSetTheorems,
        WellFoundedInduction, TLAPS
-------------------------------------------------------------------------------
(* Sums over finite sets, as the community modules compute them: one       *)
(* element after the other, in an order that is not told.  An induction    *)
(* over the elements is done here by a smallest counterexample.            *)

FirstOf(s) == CHOOSE x \in s : TRUE
TableTerm(table, f, s) == IF s = {} THEN 0 ELSE f[FirstOf(s)] + table[s \ {FirstOf(s)}]
IsTable(table, f, I) == table = [s \in SUBSET I |-> TableTerm(table, f, s)]
Table(f, I) == CHOOSE table : IsTable(table, f, I)

LEMMA SumIsTabled ==
    ASSUME NEW f, NEW I
    PROVE  SumFunctionOnSet(f, I) = Table(f, I)[I]
BY DEF SumFunctionOnSet, FoldFunctionOnSet, MapThenFoldSet, Table, IsTable, TableTerm, FirstOf

LEMMA SmallestSubset ==
    ASSUME NEW I, IsFiniteSet(I), NEW F \in SUBSET (SUBSET I), F # {}
    PROVE  \E T \in F : \A U \in F : U \subseteq T => U = T
<1>1. \A T \in F : IsFiniteSet(T)
    BY FS_Subset
<1>2. F \subseteq FiniteSubsetsOf(I)
    BY <1>1 DEF FiniteSubsetsOf
<1>3. PICK T \in F : \A U \in F : ~ (<<U, T>> \in StrictSubsetOrdering(I))
    BY <1>2, FS_StrictSubsetOrderingWellFounded, WFMin
<1>4. ASSUME NEW U \in F, U \subseteq T PROVE U = T
    BY <1>3, <1>4 DEF StrictSubsetOrdering
<1> QED
    BY <1>4

LEMMA FirstIsIn ==
    ASSUME NEW s, s # {}
    PROVE  FirstOf(s) \in s
BY DEF FirstOf

LEMMA TableStep ==
    ASSUME NEW f, NEW I, NEW table, IsTable(table, f, I)
    PROVE  \A s \in SUBSET I : table[s] = TableTerm(table, f, s)
<1> DEFINE g == [s \in SUBSET I |-> TableTerm(table, f, s)]
<1>1. table = g
    BY DEF IsTable
<1>2. \A s \in SUBSET I : g[s] = TableTerm(table, f, s)
    OBVIOUS
<1> HIDE DEF g
<1> QED
    BY <1>1, <1>2

LEMMA TablesAgree ==
    ASSUME NEW f, NEW I, NEW J, NEW a, NEW b, IsTable(a, f, I), IsTable(b, f, J),
           NEW s \in SUBSET I, s \subseteq J, IsFiniteSet(s)
    PROVE  a[s] = b[s]
<1>1. ASSUME NEW t \in SUBSET s
      PROVE  a[t] = TableTerm(a, f, t) /\ b[t] = TableTerm(b, f, t)
    <2>1. t \in SUBSET I /\ t \in SUBSET J
        OBVIOUS
    <2>2. \A u \in SUBSET I : a[u] = TableTerm(a, f, u)
        BY TableStep
    <2>3. \A u \in SUBSET J : b[u] = TableTerm(b, f, u)
        BY TableStep
    <2> QED
        BY <2>1, <2>2, <2>3
<1> DEFINE F == {t \in SUBSET s : a[t] # b[t]}
<1>2. ASSUME F # {} PROVE FALSE
    <2>1. PICK t \in F : \A u \in F : u \subseteq t => u = t
        <3>1. F \in SUBSET (SUBSET s)
            OBVIOUS
        <3> HIDE DEF F
        <3> QED
            BY <1>2, <3>1, SmallestSubset
    <2>2. /\ t = {} => a[t] = 0 /\ b[t] = 0
          /\ t # {} => /\ a[t] = f[FirstOf(t)] + a[t \ {FirstOf(t)}]
                       /\ b[t] = f[FirstOf(t)] + b[t \ {FirstOf(t)}]
        BY <1>1 DEF TableTerm
    <2>3. CASE t = {}
        BY <2>2, <2>3
    <2>4. CASE t # {}
        <3>1. FirstOf(t) \in t
            BY <2>4, FirstIsIn
        <3>2. t \ {FirstOf(t)} \notin F
            BY <2>1, <3>1
        <3>3. a[t \ {FirstOf(t)}] = b[t \ {FirstOf(t)}]
            BY <3>2
        <3> QED
            BY <2>2, <2>4, <3>3
    <2> QED
        BY <2>3, <2>4
<1> QED
    BY <1>2

LEMMA TableExists ==
    ASSUME NEW f, NEW I, IsFiniteSet(I)
    PROVE  IsTable(Table(f, I), f, I)
<1> DEFINE F == {t \in SUBSET I : ~ IsTable(Table(f, t), f, t)}
<1>1. ASSUME F # {} PROVE FALSE
    <2>1. PICK t \in F : \A u \in F : u \subseteq t => u = t
        <3>1. F \in SUBSET (SUBSET I)
            OBVIOUS
        <3> HIDE DEF F
        <3> QED
            BY <1>1, <3>1, SmallestSubset
    <2>2. ASSUME NEW u \in SUBSET t, u # t PROVE IsTable(Table(f, u), f, u) /\ IsFiniteSet(u)
        BY <2>1, <2>2, FS_Subset
    <2> DEFINE rest(s) == s \ {FirstOf(s)}
               new == [s \in SUBSET t |->
                          IF s = {} THEN 0 ELSE f[FirstOf(s)] + Table(f, rest(s))[rest(s)]]
    <2>3. ASSUME NEW s \in SUBSET t, s # {} PROVE new[rest(s)] = Table(f, rest(s))[rest(s)]
        <3>1. FirstOf(s) \in s
            BY <2>3, FirstIsIn
        <3>2. PICK r \in SUBSET t : r = rest(s) /\ r # t
            <4>1. rest(s) \in SUBSET t /\ FirstOf(s) \in t \ rest(s)
                BY <3>1
            <4> HIDE DEF rest
            <4> QED
                BY <4>1
        <3>3. IsTable(Table(f, r), f, r) /\ IsFiniteSet(r)
            BY <2>2, <3>2
        <3>4. Table(f, r)[r] = IF r = {} THEN 0 ELSE f[FirstOf(r)] + Table(f, r)[rest(r)]
            <4>1. \A u \in SUBSET r : Table(f, r)[u] = TableTerm(Table(f, r), f, u)
                BY <3>3, TableStep
            <4> QED
                BY <4>1 DEF TableTerm
        <3>5. CASE r = {}
            BY <3>2, <3>4, <3>5
        <3>6. CASE r # {}
            <4>1. FirstOf(r) \in r
                BY <3>6, FirstIsIn
            <4>2. PICK q \in SUBSET r : q = rest(r) /\ q # t
                <5>1. rest(r) \in SUBSET r /\ FirstOf(r) \in t \ rest(r)
                    BY <4>1
                <5> HIDE DEF rest
                <5> QED
                    BY <5>1
            <4>3. IsTable(Table(f, q), f, q) /\ IsFiniteSet(q)
                BY <2>2, <4>2
            <4>4. Table(f, r)[q] = Table(f, q)[q]
                BY <3>3, <4>3, TablesAgree
            <4>5. new[r] = f[FirstOf(r)] + Table(f, rest(r))[rest(r)]
                BY <3>6
            <4> QED
                BY <3>2, <3>4, <3>6, <4>2, <4>4, <4>5
        <3> QED
            BY <3>5, <3>6
    <2>4. IsTable(new, f, t)
        <3> SUFFICES new = [s \in SUBSET t |->
                               IF s = {} THEN 0 ELSE f[FirstOf(s)] + new[rest(s)]]
            BY DEF IsTable, TableTerm
        <3>1. \A s \in SUBSET t : (IF s = {} THEN 0 ELSE f[FirstOf(s)] + Table(f, rest(s))[rest(s)])
                                     = IF s = {} THEN 0 ELSE f[FirstOf(s)] + new[rest(s)]
            <4> HIDE DEF new
            <4> QED
                BY <2>3
        <3> QED
            BY <3>1
    <2>5. IsTable(Table(f, t), f, t)
        <3> HIDE DEF new
        <3> QED
            BY <2>4 DEF Table
    <2> QED
        BY <2>1, <2>5
<1>2. I \notin F
    BY <1>1
<1> QED
    BY <1>2

LEMMA SumRecursion ==
    ASSUME NEW f, NEW I, IsFiniteSet(I)
    PROVE  SumFunctionOnSet(f, I) =
              IF I = {} THEN 0 ELSE f[FirstOf(I)] + SumFunctionOnSet(f, I \ {FirstOf(I)})
<1>1. IsTable(Table(f, I), f, I)
    BY TableExists
<1>2. Table(f, I)[I] = IF I = {} THEN 0 ELSE f[FirstOf(I)] + Table(f, I)[I \ {FirstOf(I)}]
    <2>1. \A u \in SUBSET I : Table(f, I)[u] = TableTerm(Table(f, I), f, u)
        BY <1>1, TableStep
    <2> QED
        BY <2>1 DEF TableTerm
<1>3. CASE I = {}
    BY <1>2, <1>3, SumIsTabled
<1>4. CASE I # {}
    <2>1. PICK r \in SUBSET I : r = I \ {FirstOf(I)}
        OBVIOUS
    <2>2. IsFiniteSet(r)
        BY FS_Subset
    <2>3. IsTable(Table(f, r), f, r)
        BY <2>2, TableExists
    <2>4. Table(f, I)[r] = Table(f, r)[r]
        BY <1>1, <2>2, <2>3, TablesAgree
    <2>5. SumFunctionOnSet(f, r) = Table(f, r)[r] /\ SumFunctionOnSet(f, I) = Table(f, I)[I]
        BY SumIsTabled
    <2> QED
        BY <1>2, <1>4, <2>1, <2>4, <2>5
<1> QED
    BY <1>3, <1>4

\* The sum of natural numbers is one, and each of them may be taken first.
LEMMA SumIsNat ==
    ASSUME NEW f, NEW I, IsFiniteSet(I), \A i \in I : f[i] \in Nat
    PROVE  SumFunctionOnSet(f, I) \in Nat
<1> DEFINE F == {t \in SUBSET I : SumFunctionOnSet(f, t) \notin Nat}
<1>1. ASSUME F # {} PROVE FALSE
    <2>1. PICK t \in F : \A u \in F : u \subseteq t => u = t
        <3>1. F \in SUBSET (SUBSET I)
            OBVIOUS
        <3> HIDE DEF F
        <3> QED
            BY <1>1, <3>1, SmallestSubset
    <2>2. IsFiniteSet(t)
        BY FS_Subset
    <2>3. SumFunctionOnSet(f, t) =
              IF t = {} THEN 0 ELSE f[FirstOf(t)] + SumFunctionOnSet(f, t \ {FirstOf(t)})
        BY <2>2, SumRecursion
    <2>4. t # {}
        BY <2>3
    <2>5. FirstOf(t) \in t
        BY <2>4, FirstIsIn
    <2>6. t \ {FirstOf(t)} \notin F
        BY <2>1, <2>5
    <2>7. SumFunctionOnSet(f, t \ {FirstOf(t)}) \in Nat /\ f[FirstOf(t)] \in Nat
        BY <2>5, <2>6
    <2> QED
        BY <2>3, <2>4, <2>7
<1> QED
    BY <1>1

LEMMA SumTakes ==
    ASSUME NEW f, NEW I, IsFiniteSet(I), \A i \in I : f[i] \in Nat, NEW x \in I
    PROVE  SumFunctionOnSet(f, I) = f[x] + SumFunctionOnSet(f, I \ {x})
<1> DEFINE Sum(s) == SumFunctionOnSet(f, s)
           F == {t \in SUBSET I : \E y \in t : Sum(t) # f[y] + Sum(t \ {y})}
<1>1. ASSUME F # {} PROVE FALSE
    <2>1. PICK t \in F : \A u \in F : u \subseteq t => u = t
        <3>1. F \in SUBSET (SUBSET I)
            OBVIOUS
        <3> HIDE DEF F
        <3> QED
            BY <1>1, <3>1, SmallestSubset
    <2>2. PICK y \in t : Sum(t) # f[y] + Sum(t \ {y})
        BY <2>1
    <2>3. PICK z \in t : z = FirstOf(t)
        BY FirstIsIn
    <2>4. IsFiniteSet(t)
        BY FS_Subset
    <2>5. Sum(t) = f[z] + Sum(t \ {z})
        BY <2>3, <2>4, SumRecursion
    <2>6. z # y
        BY <2>2, <2>5
    <2>7. t \ {z} \notin F /\ t \ {y} \notin F
        BY <2>1, <2>2, <2>3
    <2>8. PICK r \in SUBSET t : r = (t \ {z}) \ {y} /\ r = (t \ {y}) \ {z}
        OBVIOUS
    <2>9. Sum(t \ {z}) = f[y] + Sum(r) /\ Sum(t \ {y}) = f[z] + Sum(r)
        BY <2>6, <2>7, <2>8
    <2>10. Sum(r) \in Nat /\ f[y] \in Nat /\ f[z] \in Nat
        <3>1. IsFiniteSet(r)
            BY <2>4, FS_Subset
        <3> QED
            BY <3>1, SumIsNat
    <2> HIDE DEF Sum
    <2> QED
        BY <2>2, <2>5, <2>9, <2>10
<1> QED
    BY <1>1

LEMMA SumOfNone == ASSUME NEW f PROVE SumFunctionOnSet(f, {}) = 0
BY SumRecursion, FS_EmptySet

LEMMA SumOfOne ==
    ASSUME NEW f, NEW x, f[x] \in Nat
    PROVE  SumFunctionOnSet(f, {x}) = f[x]
<1>1. IsFiniteSet({x}) /\ {x} \ {x} = {}
    BY FS_Singleton
<1>2. SumFunctionOnSet(f, {x}) = f[x] + SumFunctionOnSet(f, {x} \ {x})
    BY <1>1, SumTakes
<1> QED
    BY <1>1, <1>2, SumOfNone

\* A sum is no larger than another whose terms are not smaller.
LEMMA SumIsMonotonic ==
    ASSUME NEW f, NEW g, NEW I, IsFiniteSet(I),
           \A i \in I : f[i] \in Nat /\ g[i] \in Nat /\ f[i] <= g[i]
    PROVE  SumFunctionOnSet(f, I) <= SumFunctionOnSet(g, I)
<1> DEFINE F == {t \in SUBSET I : ~ (SumFunctionOnSet(f, t) <= SumFunctionOnSet(g, t))}
<1>1. ASSUME F # {} PROVE FALSE
    <2>1. PICK t \in F : \A u \in F : u \subseteq t => u = t
        <3>1. F \in SUBSET (SUBSET I)
            OBVIOUS
        <3> HIDE DEF F
        <3> QED
            BY <1>1, <3>1, SmallestSubset
    <2>2. IsFiniteSet(t)
        BY FS_Subset
    <2>3. t # {}
        BY <2>1, SumOfNone
    <2>4. PICK z \in t : TRUE
        BY <2>3
    <2>5. PICK r \in SUBSET t : r = t \ {z}
        OBVIOUS
    <2>6. IsFiniteSet(r)
        BY <2>2, FS_Subset
    <2>7. /\ SumFunctionOnSet(f, t) = f[z] + SumFunctionOnSet(f, r)
          /\ SumFunctionOnSet(g, t) = g[z] + SumFunctionOnSet(g, r)
        BY <2>2, <2>5, SumTakes
    <2>8. SumFunctionOnSet(f, r) \in Nat /\ SumFunctionOnSet(g, r) \in Nat
        BY <2>6, SumIsNat
    <2>9. r \notin F
        BY <2>1, <2>4, <2>5
    <2>10. SumFunctionOnSet(f, r) <= SumFunctionOnSet(g, r)
        BY <2>9
    <2>11. f[z] \in Nat /\ g[z] \in Nat /\ f[z] <= g[z]
        OBVIOUS
    <2> QED
        BY <2>7, <2>8, <2>10, <2>11
<1>2. I \notin F
    BY <1>1
<1> QED
    BY <1>2

LEMMA SumOfSame ==
    ASSUME NEW f, NEW g, NEW I, IsFiniteSet(I), \A i \in I : f[i] \in Nat /\ g[i] = f[i]
    PROVE  SumFunctionOnSet(g, I) = SumFunctionOnSet(f, I)
<1>1. /\ SumFunctionOnSet(f, I) <= SumFunctionOnSet(g, I)
      /\ SumFunctionOnSet(g, I) <= SumFunctionOnSet(f, I)
    BY SumIsMonotonic
<1>2. SumFunctionOnSet(f, I) \in Nat /\ SumFunctionOnSet(g, I) \in Nat
    BY SumIsNat
<1> QED
    BY <1>1, <1>2

LEMMA SumOfZeros ==
    ASSUME NEW f, NEW I, IsFiniteSet(I), \A i \in I : f[i] = 0
    PROVE  SumFunctionOnSet(f, I) = 0
<1> DEFINE F == {t \in SUBSET I : SumFunctionOnSet(f, t) # 0}
<1>1. ASSUME F # {} PROVE FALSE
    <2>1. PICK t \in F : \A u \in F : u \subseteq t => u = t
        <3>1. F \in SUBSET (SUBSET I)
            OBVIOUS
        <3> HIDE DEF F
        <3> QED
            BY <1>1, <3>1, SmallestSubset
    <2>2. IsFiniteSet(t)
        BY FS_Subset
    <2>3. t # {}
        BY <2>1, SumOfNone
    <2>4. FirstOf(t) \in t
        BY <2>3, FirstIsIn
    <2>5. t \ {FirstOf(t)} \notin F
        BY <2>1, <2>4
    <2>6. SumFunctionOnSet(f, t) = f[FirstOf(t)] + SumFunctionOnSet(f, t \ {FirstOf(t)})
        BY <2>2, <2>3, SumRecursion
    <2> QED
        BY <2>4, <2>5, <2>6
<1> QED
    BY <1>1

\* Where two functions differ in one place at most, and two sets too, so do
\* their sums.
LEMMA SumChanges ==
    ASSUME NEW f, NEW g, NEW I, NEW J, NEW x, IsFiniteSet(I), IsFiniteSet(J),
           I \ {x} = J \ {x}, \A i \in I : f[i] \in Nat, \A i \in J : g[i] \in Nat,
           \A i \in I \ {x} : g[i] = f[i]
    PROVE  \E rest \in Nat :
              /\ SumFunctionOnSet(f, I) = rest + IF x \in I THEN f[x] ELSE 0
              /\ SumFunctionOnSet(g, J) = rest + IF x \in J THEN g[x] ELSE 0
<1>1. PICK K \in SUBSET I : K = I \ {x} /\ K = J \ {x}
    OBVIOUS
<1>2. IsFiniteSet(K) /\ \A i \in K : f[i] \in Nat /\ g[i] = f[i]
    BY <1>1, FS_Subset
<1>3. SumFunctionOnSet(g, K) = SumFunctionOnSet(f, K) /\ SumFunctionOnSet(f, K) \in Nat
    BY <1>2, SumOfSame, SumIsNat
<1>4. SumFunctionOnSet(f, I) = SumFunctionOnSet(f, K) + IF x \in I THEN f[x] ELSE 0
    <2>1. CASE x \in I
        <3>1. SumFunctionOnSet(f, I) = f[x] + SumFunctionOnSet(f, I \ {x})
            BY <2>1, SumTakes
        <3> QED
            BY <1>1, <1>3, <2>1, <3>1
    <2>2. CASE x \notin I
        <3>1. K = I
            BY <1>1, <2>2
        <3> QED
            BY <1>3, <2>2, <3>1
    <2> QED
        BY <2>1, <2>2
<1>5. SumFunctionOnSet(g, J) = SumFunctionOnSet(f, K) + IF x \in J THEN g[x] ELSE 0
    <2>1. CASE x \in J
        <3>1. SumFunctionOnSet(g, J) = g[x] + SumFunctionOnSet(g, J \ {x}) /\ g[x] \in Nat
            BY <2>1, SumTakes
        <3>2. SumFunctionOnSet(g, J \ {x}) = SumFunctionOnSet(g, K)
            BY <1>1
        <3> QED
            BY <1>3, <2>1, <3>1, <3>2
    <2>2. CASE x \notin J
        <3>1. K = J
            BY <1>1, <2>2
        <3> QED
            BY <1>3, <2>2, <3>1
    <2> QED
        BY <2>1, <2>2
<1> QED
    BY <1>3, <1>4, <1>5

-------------------------------------------------------------------------------
(* The budget.  What the provider billed for a call is below what the      *)
(* ledger holds for it until the call is charged at least as much.         *)

PaidCall ==
    [at : {"rest", "asking", "reserved", "answered", "lost"}, day : BudgetDays,
     bound : Nat, attempts : {0}, cost : Nat]

BudgetTypes ==
    /\ today \in BudgetDays
    /\ charged \in [BudgetDays -> Nat] /\ billed \in [BudgetDays -> Nat]
    /\ caller \in [Callers -> PaidCall]

Held(days) == {c \in Reserving : caller[c].day \in days}
Bounds == [c \in Callers |-> caller[c].bound]
Bills == [c \in Callers |-> IF caller[c].at \in {"answered", "lost"} THEN caller[c].cost ELSE 0]

BilledIsHeld ==
    \A d \in BudgetDays : billed[d] <= charged[d] + SumFunctionOnSet(Bills, Held({d}))

BudgetIInv == BudgetTypes /\ BudgetTypeOK /\ NeverOverLimit /\ BilledIsHeld

LEMMA HeldIsFinite ==
    ASSUME BudgetTypes, NEW days
    PROVE  /\ Held(days) \subseteq Callers /\ IsFiniteSet(Held(days))
           /\ \A c \in Callers : Bounds[c] \in Nat /\ Bills[c] \in Nat
<1>1. Held(days) \in SUBSET Callers
    BY DEF Held, Reserving
<1>2. IsFiniteSet(Held(days))
    BY <1>1, LimitsAssumption, FS_Subset
<1>3. ASSUME NEW c \in Callers PROVE Bounds[c] \in Nat /\ Bills[c] \in Nat
    <2>1. caller[c] \in PaidCall
        BY DEF BudgetTypes
    <2>2. caller[c].bound \in Nat /\ caller[c].cost \in Nat
        BY <2>1 DEF PaidCall
    <2> QED
        BY <2>2 DEF Bounds, Bills
<1> QED
    BY <1>1, <1>2, <1>3

LEMMA ReservedIsSum ==
    ASSUME NEW days
    PROVE  Reserved_(days) = SumFunctionOnSet(Bounds, Held(days))
BY DEF Reserved_, Bounds, Held

LEMMA DaysAreFinite ==
    /\ IsFiniteSet(BudgetDays) /\ BudgetDays \subseteq Nat
    /\ \A days \in SUBSET BudgetDays : IsFiniteSet(days)
    /\ \A d \in BudgetDays : {d} \subseteq BudgetDays /\ Month(d) \subseteq BudgetDays
    /\ \A d, e \in BudgetDays : d \in Month(e) => Month(d) = Month(e)
<1>1. IsFiniteSet(BudgetDays) /\ BudgetDays \subseteq Nat
    BY LimitsAssumption, FS_Interval DEF BudgetDays
<1>2. \A days \in SUBSET BudgetDays : IsFiniteSet(days)
    BY <1>1, FS_Subset
<1> QED
    BY <1>1, <1>2 DEF Month

\* What one step does to one call changes what is held by that call only.
LEMMA OneCallChanges ==
    ASSUME BudgetTypes, BudgetTypes', NEW c \in Callers,
           \A b \in Callers \ {c} : caller'[b] = caller[b], NEW days
    PROVE  /\ \E rest \in Nat :
                 /\ Reserved_(days) = rest + IF c \in Held(days) THEN caller[c].bound ELSE 0
                 /\ Reserved_(days)' = rest + IF c \in Held(days)' THEN caller'[c].bound ELSE 0
           /\ \E rest \in Nat :
                 /\ SumFunctionOnSet(Bills, Held(days)) = rest + IF c \in Held(days) THEN Bills[c] ELSE 0
                 /\ SumFunctionOnSet(Bills, Held(days))' = rest + IF c \in Held(days)' THEN Bills'[c] ELSE 0
<1>1. Held(days) \ {c} = Held(days)' \ {c}
    BY DEF Held, Reserving
<1>2. /\ Held(days) \subseteq Callers /\ IsFiniteSet(Held(days))
      /\ \A b \in Callers : Bounds[b] \in Nat /\ Bills[b] \in Nat
    BY HeldIsFinite
<1>3. /\ Held(days)' \subseteq Callers /\ IsFiniteSet(Held(days)')
      /\ \A b \in Callers : Bounds'[b] \in Nat /\ Bills'[b] \in Nat
    <2>1. Held(days)' \in SUBSET Callers
        BY DEF Held, Reserving
    <2>2. IsFiniteSet(Held(days)')
        BY <2>1, LimitsAssumption, FS_Subset
    <2>3. ASSUME NEW b \in Callers PROVE Bounds'[b] \in Nat /\ Bills'[b] \in Nat
        <3>1. caller'[b] \in PaidCall
            BY DEF BudgetTypes
        <3>2. caller'[b].bound \in Nat /\ caller'[b].cost \in Nat
            BY <3>1 DEF PaidCall
        <3> QED
            BY <3>2 DEF Bounds, Bills
    <2> QED
        BY <2>1, <2>2, <2>3
<1>4. \A b \in Callers \ {c} : Bounds'[b] = Bounds[b] /\ Bills'[b] = Bills[b]
    BY DEF Bounds, Bills
<1>5. PICK I, J, f, g, p, q :
          /\ I = Held(days) /\ J = Held(days)' /\ f = Bounds /\ g = Bounds' /\ p = Bills /\ q = Bills'
    OBVIOUS
<1>6. /\ I \ {c} = J \ {c} /\ IsFiniteSet(I) /\ IsFiniteSet(J) /\ I \subseteq Callers /\ J \subseteq Callers
      /\ \A b \in Callers : f[b] \in Nat /\ g[b] \in Nat /\ p[b] \in Nat /\ q[b] \in Nat
      /\ \A b \in Callers \ {c} : g[b] = f[b] /\ q[b] = p[b]
    BY <1>1, <1>2, <1>3, <1>4, <1>5
<1>7. \E rest \in Nat :
         /\ SumFunctionOnSet(f, I) = rest + IF c \in I THEN f[c] ELSE 0
         /\ SumFunctionOnSet(g, J) = rest + IF c \in J THEN g[c] ELSE 0
    BY <1>6, SumChanges
<1>8. \E rest \in Nat :
         /\ SumFunctionOnSet(p, I) = rest + IF c \in I THEN p[c] ELSE 0
         /\ SumFunctionOnSet(q, J) = rest + IF c \in J THEN q[c] ELSE 0
    BY <1>6, SumChanges
<1>9. /\ Reserved_(days) = SumFunctionOnSet(f, I) /\ Reserved_(days)' = SumFunctionOnSet(g, J)
      /\ SumFunctionOnSet(Bills, Held(days)) = SumFunctionOnSet(p, I)
      /\ SumFunctionOnSet(Bills, Held(days))' = SumFunctionOnSet(q, J)
      /\ f[c] = caller[c].bound /\ g[c] = caller'[c].bound
    BY <1>5 DEF Reserved_, Bounds, Held
<1> QED
    BY <1>5, <1>7, <1>8, <1>9

LEMMA BudgetInitial == BudgetInit => BudgetIInv
<1> SUFFICES ASSUME BudgetInit PROVE BudgetIInv
    OBVIOUS
<1>1. /\ today = 1 /\ charged = [d \in BudgetDays |-> 0] /\ billed = [d \in BudgetDays |-> 0]
      /\ caller = [c \in Callers |-> Unused]
    BY DEF BudgetInit
<1>2. 1 \in BudgetDays
    BY LimitsAssumption DEF BudgetDays
<1>3. /\ Unused \in PaidCall /\ Unused.at = "rest" /\ Unused.day = 1
      /\ Unused.cost = 0 /\ Unused.bound = 0 /\ Unused.attempts = 0
    BY <1>2 DEF Unused, PaidCall
<1>4. BudgetTypes
    BY <1>1, <1>2, <1>3 DEF BudgetTypes
<1>5. BudgetTypeOK
    BY <1>1, <1>3 DEF BudgetTypeOK
<1>6. \A days : Held(days) = {}
    BY <1>1, <1>3 DEF Held, Reserving
<1>7. ASSUME NEW days \in SUBSET BudgetDays PROVE Spend(days) = 0
    <2>1. Reserved_(days) = 0
        BY <1>6, ReservedIsSum, SumOfNone
    <2>2. Over(days) = 0
        <3>1. IsFiniteSet(days)
            BY DaysAreFinite
        <3> QED
            BY <1>1, <3>1, SumOfZeros DEF Over
    <2> QED
        BY <2>1, <2>2 DEF Spend
<1>8. NeverOverLimit
    <2>1. \A d \in BudgetDays : Spend({d}) = 0 /\ Spend(Month(d)) = 0
        BY <1>7, DaysAreFinite
    <2> QED
        BY <2>1, LimitsAssumption DEF NeverOverLimit
<1>9. BilledIsHeld
    <2>1. \A d \in BudgetDays : SumFunctionOnSet(Bills, Held({d})) = 0
        BY <1>6, SumOfNone
    <2> QED
        BY <1>1, <2>1 DEF BilledIsHeld
<1> QED
    BY <1>4, <1>5, <1>8, <1>9 DEF BudgetIInv

\* Limits are kept where no sum grows.
LEMMA SmallerStays ==
    ASSUME NeverOverLimit,
           \A days \in SUBSET BudgetDays :
               Spend(days) \in Nat /\ Spend(days)' \in Nat /\ Spend(days)' <= Spend(days)
    PROVE  NeverOverLimit'
<1> SUFFICES ASSUME NEW d \in BudgetDays
             PROVE  Spend({d})' <= DailyLimit /\ Spend(Month(d))' <= MonthlyLimit
    BY DEF NeverOverLimit, Month
<1>1. {d} \in SUBSET BudgetDays /\ Month(d) \in SUBSET BudgetDays
    BY DaysAreFinite
<1>2. Spend({d}) <= DailyLimit /\ Spend(Month(d)) <= MonthlyLimit
    BY DEF NeverOverLimit
<1>3. /\ Spend({d}) \in Nat /\ Spend({d})' \in Nat /\ Spend({d})' <= Spend({d})
      /\ Spend(Month(d)) \in Nat /\ Spend(Month(d))' \in Nat /\ Spend(Month(d))' <= Spend(Month(d))
    <2>1. PICK m : m = Month(d)
        OBVIOUS
    <2>2. m \in SUBSET BudgetDays
        BY <1>1, <2>1
    <2>3. Spend(m) \in Nat /\ Spend(m)' \in Nat /\ Spend(m)' <= Spend(m)
        BY <2>2
    <2>4. Spend(Month(d)) = Spend(m) /\ Spend(Month(d))' = Spend(m)'
        BY <2>1 DEF Spend, Month
    <2> QED
        BY <1>1, <2>3, <2>4
<1> QED
    BY <1>2, <1>3, LimitsAssumption

LEMMA OverIsNat ==
    ASSUME BudgetTypes, NEW days \in SUBSET BudgetDays
    PROVE  Over(days) \in Nat
<1>1. IsFiniteSet(days) /\ \A d \in days : charged[d] \in Nat
    BY DaysAreFinite DEF BudgetTypes
<1> QED
    BY <1>1, SumIsNat DEF Over

LEMMA CallIs ==
    ASSUME BudgetTypes, BudgetTypeOK, NEW c \in Callers
    PROVE  /\ caller[c] \in PaidCall /\ caller[c].day \in BudgetDays /\ caller[c].day <= today
           /\ caller[c].bound \in Nat /\ caller[c].cost \in Nat /\ caller[c].attempts = 0
           /\ caller[c].cost <= caller[c].bound
<1>1. caller[c] \in PaidCall
    BY DEF BudgetTypes
<1>2. /\ caller[c].day \in BudgetDays /\ caller[c].bound \in Nat /\ caller[c].cost \in Nat
    BY <1>1 DEF PaidCall
<1> QED
    BY <1>1, <1>2 DEF BudgetTypeOK

LEMMA CallTyped ==
    ASSUME BudgetTypes, BudgetTypeOK, NEW c \in Callers, NEW call \in PaidCall,
           caller' = [caller EXCEPT ![c] = call], call.day <= today, call.cost <= call.bound,
           today' = today, charged' \in [BudgetDays -> Nat], billed' \in [BudgetDays -> Nat]
    PROVE  /\ BudgetTypes' /\ BudgetTypeOK'
           /\ caller'[c] = call /\ \A b \in Callers \ {c} : caller'[b] = caller[b]
           /\ \A days : c \in Held(days) <=>
                  caller[c].at \in {"reserved", "answered", "lost"} /\ caller[c].day \in days
           /\ \A days : c \in Held(days)' <=>
                  call.at \in {"reserved", "answered", "lost"} /\ call.day \in days
           /\ Bills[c] = IF caller[c].at \in {"answered", "lost"} THEN caller[c].cost ELSE 0
           /\ Bills'[c] = IF call.at \in {"answered", "lost"} THEN call.cost ELSE 0
<1>1. caller \in [Callers -> PaidCall] /\ today \in BudgetDays
    BY DEF BudgetTypes
<1>2. caller'[c] = call /\ \A b \in Callers \ {c} : caller'[b] = caller[b]
    BY <1>1
<1>3. caller' \in [Callers -> PaidCall]
    BY <1>1
<1>4. BudgetTypes'
    BY <1>1, <1>3 DEF BudgetTypes
<1>5. BudgetTypeOK'
    <2> SUFFICES ASSUME NEW b \in Callers
                 PROVE  /\ caller'[b].at \in {"rest", "asking", "reserved", "answered", "lost"}
                        /\ caller'[b].day <= today /\ caller'[b].cost <= caller'[b].bound
                        /\ caller'[b].attempts = 0
        BY DEF BudgetTypeOK
    <2>1. CASE b = c
        <3>1. call.at \in {"rest", "asking", "reserved", "answered", "lost"} /\ call.attempts \in {0}
            BY DEF PaidCall
        <3> QED
            BY <1>2, <2>1, <3>1
    <2>2. CASE b # c
        BY <1>2, <2>2 DEF BudgetTypeOK
    <2> QED
        BY <2>1, <2>2
<1>6. \A days : c \in Held(days) <=>
                  caller[c].at \in {"reserved", "answered", "lost"} /\ caller[c].day \in days
    BY DEF Held, Reserving
<1>7. \A days : c \in Held(days)' <=>
                  call.at \in {"reserved", "answered", "lost"} /\ call.day \in days
    BY <1>2 DEF Held, Reserving
<1>8. /\ Bills[c] = IF caller[c].at \in {"answered", "lost"} THEN caller[c].cost ELSE 0
      /\ Bills'[c] = IF call.at \in {"answered", "lost"} THEN call.cost ELSE 0
    BY <1>2 DEF Bills
<1> QED
    BY <1>2, <1>4, <1>5, <1>6, <1>7, <1>8

LEMMA OverStays ==
    ASSUME BudgetTypes, charged' = charged, NEW days \in SUBSET BudgetDays
    PROVE  Over(days)' = Over(days) /\ Over(days) \in Nat
BY OverIsNat DEF Over

\* A call that holds nothing before and after the step.
LEMMA IdleCallKeeps ==
    ASSUME BudgetIInv, NEW c \in Callers, NEW call \in PaidCall,
           caller' = [caller EXCEPT ![c] = call], call.day <= today, call.cost <= call.bound,
           UNCHANGED <<today, charged, billed>>,
           caller[c].at \in {"rest", "asking"}, call.at \in {"rest", "asking"}
    PROVE  BudgetIInv'
<1>1. BudgetTypes /\ BudgetTypeOK /\ NeverOverLimit /\ BilledIsHeld
    BY DEF BudgetIInv
<1>2. charged' \in [BudgetDays -> Nat] /\ billed' \in [BudgetDays -> Nat]
    BY <1>1 DEF BudgetTypes
<1>3. /\ BudgetTypes' /\ BudgetTypeOK' /\ \A b \in Callers \ {c} : caller'[b] = caller[b]
      /\ \A days : c \notin Held(days) /\ c \notin Held(days)'
    BY <1>1, <1>2, CallTyped
<1>4. ASSUME NEW days
      PROVE  /\ Reserved_(days)' = Reserved_(days) /\ Reserved_(days) \in Nat
             /\ SumFunctionOnSet(Bills, Held(days))' = SumFunctionOnSet(Bills, Held(days))
    <2>1. PICK rest \in Nat : Reserved_(days) = rest + 0 /\ Reserved_(days)' = rest + 0
        BY <1>1, <1>3, OneCallChanges
    <2>2. PICK kept \in Nat : /\ SumFunctionOnSet(Bills, Held(days)) = kept + 0
                              /\ SumFunctionOnSet(Bills, Held(days))' = kept + 0
        BY <1>1, <1>3, OneCallChanges
    <2> QED
        BY <2>1, <2>2
<1>5. NeverOverLimit'
    <2>1. ASSUME NEW days \in SUBSET BudgetDays
          PROVE  Spend(days) \in Nat /\ Spend(days)' \in Nat /\ Spend(days)' <= Spend(days)
        <3>1. Over(days)' = Over(days) /\ Over(days) \in Nat
            BY <1>1, OverStays
        <3> QED
            BY <1>4, <3>1 DEF Spend
    <2> QED
        BY <1>1, <2>1, SmallerStays
<1>6. BilledIsHeld'
    BY <1>1, <1>4 DEF BilledIsHeld
<1> QED
    BY <1>3, <1>5, <1>6 DEF BudgetIInv

LEMMA UnusedIs ==
    /\ Unused \in PaidCall /\ Unused.at = "rest" /\ Unused.day = 1
    /\ Unused.cost = 0 /\ Unused.bound = 0
<1>1. 1 \in BudgetDays
    BY LimitsAssumption DEF BudgetDays
<1> QED
    BY <1>1 DEF Unused, PaidCall

LEMMA ReadClockKeeps ==
    ASSUME BudgetIInv, NEW c \in Callers, NEW bound \in Estimates, ReadClock(c, bound)
    PROVE  BudgetIInv'
<1> DEFINE call == [Unused EXCEPT !.at = "asking", !.day = today, !.bound = bound]
<1>1. BudgetTypes
    BY DEF BudgetIInv
<1>2. today \in BudgetDays /\ today \in Nat /\ bound \in Nat
    BY <1>1, DaysAreFinite, LimitsAssumption DEF BudgetTypes
<1>3. /\ call \in PaidCall /\ call.at = "asking" /\ call.day = today
      /\ call.cost = 0 /\ call.bound = bound
    BY <1>2 DEF Unused, PaidCall
<1>4. /\ caller[c] = Unused /\ caller' = [caller EXCEPT ![c] = call]
      /\ UNCHANGED <<today, charged, billed>>
    BY DEF ReadClock
<1> HIDE DEF call
<1>5. /\ caller[c].at \in {"rest", "asking"} /\ call.at \in {"rest", "asking"}
      /\ call.day <= today /\ call.cost <= call.bound
    BY <1>2, <1>3, <1>4, UnusedIs
<1> QED
    BY <1>3, <1>4, <1>5, IdleCallKeeps

\* An affordable reservation keeps the day and its month within the limits;
\* the other days and months hold what they held.
LEMMA ReserveKeeps ==
    ASSUME BudgetIInv, NEW c \in Callers, ReserveBudget(c)
    PROVE  BudgetIInv'
<1>1. BudgetTypes /\ BudgetTypeOK /\ NeverOverLimit /\ BilledIsHeld
    BY DEF BudgetIInv
<1>2. /\ caller[c] \in PaidCall /\ caller[c].day \in BudgetDays /\ caller[c].day <= today
      /\ caller[c].bound \in Nat /\ caller[c].cost \in Nat /\ caller[c].cost <= caller[c].bound
    BY <1>1, CallIs
<1>3. caller[c].at = "asking" /\ UNCHANGED <<today, charged, billed>>
    BY DEF ReserveBudget
<1>4. today \in Nat
    BY <1>1, DaysAreFinite DEF BudgetTypes
<1>5. CASE ~ Affordable(caller[c].day, caller[c].bound)
    <2>1. caller' = [caller EXCEPT ![c] = Unused]
        BY <1>5 DEF ReserveBudget
    <2>2. /\ Unused.day <= today /\ Unused.cost <= Unused.bound
          /\ caller[c].at \in {"rest", "asking"} /\ Unused.at \in {"rest", "asking"}
        <3>1. 1 <= today
            BY <1>1 DEF BudgetTypes, BudgetDays
        <3> QED
            BY <1>3, <3>1, UnusedIs
    <2> QED
        BY <1>3, <2>1, <2>2, UnusedIs, IdleCallKeeps
<1>6. CASE Affordable(caller[c].day, caller[c].bound)
    <2> DEFINE call == [caller[c] EXCEPT !.at = "reserved"]
    <2>1. caller' = [caller EXCEPT ![c] = call]
        BY <1>6 DEF ReserveBudget
    <2>2. /\ call \in PaidCall /\ call.at = "reserved" /\ call.day = caller[c].day
          /\ call.cost = caller[c].cost /\ call.bound = caller[c].bound
        BY <1>2 DEF PaidCall
    <2> HIDE DEF call
    <2>3. charged' \in [BudgetDays -> Nat] /\ billed' \in [BudgetDays -> Nat]
        BY <1>1, <1>3 DEF BudgetTypes
    <2>4. /\ BudgetTypes' /\ BudgetTypeOK' /\ caller'[c] = call
          /\ \A b \in Callers \ {c} : caller'[b] = caller[b]
          /\ \A days : c \notin Held(days) /\ (c \in Held(days)' <=> caller[c].day \in days)
          /\ Bills'[c] = 0
        BY <1>1, <1>2, <1>3, <2>1, <2>2, <2>3, CallTyped
    <2>5. ASSUME NEW days \in SUBSET BudgetDays
          PROVE  /\ Spend(days) \in Nat
                 /\ Spend(days)' = Spend(days) + IF caller[c].day \in days THEN caller[c].bound ELSE 0
        <3>1. PICK rest \in Nat :
                 /\ Reserved_(days) = rest + 0
                 /\ Reserved_(days)' = rest + IF caller[c].day \in days THEN caller[c].bound ELSE 0
            BY <1>1, <2>2, <2>4, OneCallChanges
        <3>2. Over(days)' = Over(days) /\ Over(days) \in Nat
            BY <1>1, <1>3, OverStays
        <3> QED
            BY <1>2, <3>1, <3>2 DEF Spend
    <2>6. NeverOverLimit'
        <3> SUFFICES ASSUME NEW d \in BudgetDays
                     PROVE  Spend({d})' <= DailyLimit /\ Spend(Month(d))' <= MonthlyLimit
            BY DEF NeverOverLimit, Month
        <3>1. /\ Spend({d}) <= DailyLimit /\ Spend(Month(d)) <= MonthlyLimit
              /\ Spend({caller[c].day}) + caller[c].bound <= DailyLimit
              /\ Spend(Month(caller[c].day)) + caller[c].bound <= MonthlyLimit
            BY <1>1, <1>6 DEF NeverOverLimit, Affordable
        <3>2. PICK m : m = Month(d)
            OBVIOUS
        <3>3. {d} \in SUBSET BudgetDays /\ m \in SUBSET BudgetDays
            BY <3>2, DaysAreFinite
        <3>4. Spend({d})' <= DailyLimit
            <4>1. CASE caller[c].day = d
                BY <2>5, <3>1, <3>3, <4>1
            <4>2. CASE caller[c].day # d
                BY <2>5, <3>1, <3>3, <4>2
            <4> QED
                BY <4>1, <4>2
        <3>5. Spend(m)' <= MonthlyLimit
            <4>1. CASE caller[c].day \in m
                <5>1. m = Month(caller[c].day)
                    BY <1>2, <3>2, <4>1, DaysAreFinite
                <5> QED
                    BY <2>5, <3>1, <3>3, <4>1, <5>1
            <4>2. CASE caller[c].day \notin m
                BY <2>5, <3>1, <3>2, <3>3, <4>2
            <4> QED
                BY <4>1, <4>2
        <3>6. Spend(Month(d))' = Spend(m)'
            BY <3>2 DEF Month
        <3> QED
            BY <3>4, <3>5, <3>6
    <2>7. BilledIsHeld'
        <3>1. ASSUME NEW d \in BudgetDays
              PROVE  SumFunctionOnSet(Bills, Held({d}))' = SumFunctionOnSet(Bills, Held({d}))
            <4>1. PICK rest \in Nat : /\ SumFunctionOnSet(Bills, Held({d})) = rest + 0
                                      /\ SumFunctionOnSet(Bills, Held({d}))' = rest + 0
                BY <1>1, <2>4, OneCallChanges
            <4> QED
                BY <4>1
        <3> QED
            BY <1>1, <1>3, <3>1 DEF BilledIsHeld
    <2> QED
        BY <2>4, <2>6, <2>7 DEF BudgetIInv
<1> QED
    BY <1>5, <1>6

\* What is billed is below what the call was promised.
LEMMA DispatchKeeps ==
    ASSUME BudgetIInv, NEW c \in Callers, NEW top, NEW cost \in 0..top, Dispatch(c, cost)
    PROVE  BudgetIInv'
<1>1. BudgetTypes /\ BudgetTypeOK /\ NeverOverLimit /\ BilledIsHeld
    BY DEF BudgetIInv
<1>2. /\ caller[c] \in PaidCall /\ caller[c].day \in BudgetDays /\ caller[c].day <= today
      /\ caller[c].bound \in Nat /\ caller[c].attempts = 0
    BY <1>1, CallIs
<1>3. /\ caller[c].at = "reserved" /\ cost <= caller[c].bound /\ cost \in Nat
      /\ today' = today /\ charged' = charged
      /\ billed' = [billed EXCEPT ![caller[c].day] = @ + cost]
    BY DEF Dispatch
<1>4. PICK end \in {"answered", "lost"} :
          caller' = [caller EXCEPT ![c].at = end, ![c].attempts = caller[c].attempts, ![c].cost = cost]
    <2>1. ~ (caller[c].attempts < Retries)
        BY <1>2 DEF Retries
    <2> QED
        BY <2>1 DEF Dispatch
<1> DEFINE call == [[[caller[c] EXCEPT !.at = end] EXCEPT !.attempts = caller[c].attempts]
                        EXCEPT !.cost = cost]
<1>5. caller' = [caller EXCEPT ![c] = call]
    <2>1. caller \in [Callers -> PaidCall]
        BY <1>1 DEF BudgetTypes
    <2> QED
        BY <1>2, <1>4, <2>1 DEF PaidCall
<1>6. /\ call \in PaidCall /\ call.at = end /\ call.day = caller[c].day
      /\ call.cost = cost /\ call.bound = caller[c].bound
    BY <1>2, <1>3 DEF PaidCall
<1> HIDE DEF call
<1>7. /\ charged' \in [BudgetDays -> Nat] /\ billed' \in [BudgetDays -> Nat]
      /\ billed \in [BudgetDays -> Nat] /\ charged \in [BudgetDays -> Nat]
    BY <1>1, <1>2, <1>3 DEF BudgetTypes
<1>8. /\ BudgetTypes' /\ BudgetTypeOK' /\ caller'[c] = call
      /\ \A b \in Callers \ {c} : caller'[b] = caller[b]
      /\ \A days : /\ c \in Held(days) <=> caller[c].day \in days
                   /\ c \in Held(days)' <=> caller[c].day \in days
      /\ Bills[c] = 0 /\ Bills'[c] = cost
    BY <1>1, <1>2, <1>3, <1>5, <1>6, <1>7, CallTyped
<1>9. NeverOverLimit'
    <2>1. ASSUME NEW days \in SUBSET BudgetDays
          PROVE  Spend(days) \in Nat /\ Spend(days)' \in Nat /\ Spend(days)' <= Spend(days)
        <3>1. PICK rest \in Nat :
                 /\ Reserved_(days) = rest + IF caller[c].day \in days THEN caller[c].bound ELSE 0
                 /\ Reserved_(days)' = rest + IF caller[c].day \in days THEN caller[c].bound ELSE 0
            BY <1>1, <1>6, <1>8, OneCallChanges
        <3>2. Over(days)' = Over(days) /\ Over(days) \in Nat
            BY <1>1, <1>3, OverStays
        <3>3. Reserved_(days) = Reserved_(days)' /\ Reserved_(days) \in Nat
            BY <1>2, <3>1
        <3> QED
            BY <3>2, <3>3 DEF Spend
    <2> QED
        BY <1>1, <2>1, SmallerStays
<1>10. BilledIsHeld'
    <2> SUFFICES ASSUME NEW d \in BudgetDays
                 PROVE  billed'[d] <= charged'[d] + SumFunctionOnSet(Bills, Held({d}))'
        BY DEF BilledIsHeld
    <2>1. PICK rest \in Nat :
             /\ SumFunctionOnSet(Bills, Held({d})) = rest + 0
             /\ SumFunctionOnSet(Bills, Held({d}))' = rest + IF caller[c].day \in {d} THEN cost ELSE 0
        BY <1>1, <1>8, OneCallChanges
    <2>2. billed[d] <= charged[d] + rest
        BY <1>1, <2>1 DEF BilledIsHeld
    <2>3. billed'[d] = billed[d] + IF caller[c].day \in {d} THEN cost ELSE 0
        BY <1>2, <1>3, <1>7
    <2>4. billed[d] \in Nat /\ charged[d] \in Nat
        BY <1>7
    <2> QED
        BY <1>3, <2>1, <2>2, <2>3, <2>4
<1> QED
    BY <1>8, <1>9, <1>10 DEF BudgetIInv

\* What is charged is at least what was billed and at most what was held.
LEMMA ChargeKeeps ==
    ASSUME BudgetIInv, NEW c \in Callers, Charge(c)
    PROVE  BudgetIInv'
<1>1. BudgetTypes /\ BudgetTypeOK /\ NeverOverLimit /\ BilledIsHeld
    BY DEF BudgetIInv
<1>2. /\ caller[c] \in PaidCall /\ caller[c].day \in BudgetDays /\ caller[c].day <= today
      /\ caller[c].bound \in Nat /\ caller[c].cost \in Nat /\ caller[c].cost <= caller[c].bound
    BY <1>1, CallIs
<1>3. /\ Owed(c) \in Nat /\ caller[c].cost <= Owed(c) /\ Owed(c) <= caller[c].bound
    BY <1>2 DEF Owed
<1>4. /\ caller[c].at \in {"answered", "lost"} /\ today' = today /\ billed' = billed
      /\ charged' = [charged EXCEPT ![caller[c].day] = @ + Owed(c)]
      /\ caller' = [caller EXCEPT ![c] = Unused]
    BY DEF Charge, ChargedOn
<1>5. /\ charged \in [BudgetDays -> Nat] /\ billed \in [BudgetDays -> Nat]
      /\ charged' \in [BudgetDays -> Nat] /\ billed' \in [BudgetDays -> Nat]
    BY <1>1, <1>2, <1>3, <1>4 DEF BudgetTypes
<1>6. /\ BudgetTypes' /\ BudgetTypeOK' /\ \A b \in Callers \ {c} : caller'[b] = caller[b]
      /\ \A days : /\ c \in Held(days) <=> caller[c].day \in days
                   /\ c \notin Held(days)'
      /\ Bills[c] = caller[c].cost
    <2>1. 1 <= today
        BY <1>1 DEF BudgetTypes, BudgetDays
    <2>2. PICK call \in PaidCall : /\ call = Unused /\ call.day <= today /\ call.cost <= call.bound
                                   /\ call.at = "rest"
        BY <2>1, UnusedIs
    <2>3. caller' = [caller EXCEPT ![c] = call]
        BY <1>4, <2>2
    <2> QED
        BY <1>1, <1>4, <1>5, <2>2, <2>3, CallTyped
<1>7. NeverOverLimit'
    <2>1. ASSUME NEW days \in SUBSET BudgetDays
          PROVE  Spend(days) \in Nat /\ Spend(days)' \in Nat /\ Spend(days)' <= Spend(days)
        <3>1. PICK rest \in Nat :
                 /\ Reserved_(days) = rest + IF caller[c].day \in days THEN caller[c].bound ELSE 0
                 /\ Reserved_(days)' = rest + 0
            BY <1>1, <1>6, OneCallChanges
        <3>2. PICK other \in Nat :
                 /\ Over(days) = other + IF caller[c].day \in days THEN charged[caller[c].day] ELSE 0
                 /\ Over(days)' = other + IF caller[c].day \in days THEN charged'[caller[c].day] ELSE 0
            <4>1. PICK f, g, x : f = charged /\ g = charged' /\ x = caller[c].day
                OBVIOUS
            <4>2. /\ IsFiniteSet(days) /\ \A d \in days : f[d] \in Nat /\ g[d] \in Nat
                  /\ \A d \in days \ {x} : g[d] = f[d]
                BY <1>2, <1>4, <1>5, <4>1, DaysAreFinite
            <4>3. \E other \in Nat :
                     /\ SumFunctionOnSet(f, days) = other + IF x \in days THEN f[x] ELSE 0
                     /\ SumFunctionOnSet(g, days) = other + IF x \in days THEN g[x] ELSE 0
                BY <4>2, SumChanges
            <4> QED
                BY <4>1, <4>3 DEF Over
        <3>3. charged'[caller[c].day] = charged[caller[c].day] + Owed(c) /\ charged[caller[c].day] \in Nat
            BY <1>2, <1>4, <1>5
        <3>4. CASE caller[c].day \in days
            BY <1>2, <1>3, <3>1, <3>2, <3>3, <3>4 DEF Spend
        <3>5. CASE caller[c].day \notin days
            BY <3>1, <3>2, <3>5 DEF Spend
        <3> QED
            BY <3>4, <3>5
    <2> QED
        BY <1>1, <2>1, SmallerStays
<1>8. BilledIsHeld'
    <2> SUFFICES ASSUME NEW d \in BudgetDays
                 PROVE  billed'[d] <= charged'[d] + SumFunctionOnSet(Bills, Held({d}))'
        BY DEF BilledIsHeld
    <2>1. PICK rest \in Nat :
             /\ SumFunctionOnSet(Bills, Held({d})) = rest + IF caller[c].day \in {d} THEN caller[c].cost ELSE 0
             /\ SumFunctionOnSet(Bills, Held({d}))' = rest + 0
        BY <1>1, <1>6, OneCallChanges
    <2>2. billed[d] <= charged[d] + (rest + IF caller[c].day \in {d} THEN caller[c].cost ELSE 0)
        BY <1>1, <2>1 DEF BilledIsHeld
    <2>3. charged'[d] = charged[d] + IF caller[c].day \in {d} THEN Owed(c) ELSE 0
        BY <1>2, <1>4, <1>5
    <2>4. billed[d] \in Nat /\ charged[d] \in Nat /\ billed'[d] = billed[d]
        BY <1>4, <1>5
    <2> QED
        BY <1>2, <1>3, <2>1, <2>2, <2>3, <2>4
<1> QED
    BY <1>6, <1>7, <1>8 DEF BudgetIInv

LEMMA NextDayKeeps ==
    ASSUME BudgetIInv, NextDay
    PROVE  BudgetIInv'
<1>1. /\ today < LastDay /\ today' = today + 1
      /\ charged' = charged /\ billed' = billed /\ caller' = caller
    BY DEF NextDay
<1>2. BudgetTypes'
    BY <1>1, LimitsAssumption DEF BudgetIInv, BudgetTypes, BudgetDays
<1>3. BudgetTypeOK'
    <2> SUFFICES ASSUME NEW c \in Callers
                 PROVE  /\ caller[c].at \in {"rest", "asking", "reserved", "answered", "lost"}
                        /\ caller[c].day <= today + 1 /\ caller[c].cost <= caller[c].bound
                        /\ caller[c].attempts = 0
        BY <1>1 DEF BudgetTypeOK
    <2>1. caller[c].day \in Nat /\ today \in Nat /\ caller[c].day <= today
        BY CallIs, DaysAreFinite DEF BudgetIInv, BudgetTypes
    <2> QED
        BY <2>1 DEF BudgetIInv, BudgetTypeOK
<1>4. NeverOverLimit' /\ BilledIsHeld'
    BY <1>1 DEF BudgetIInv, NeverOverLimit, BilledIsHeld, Spend, Over, Reserved_, Reserving, Month,
       Held, Bills
<1> QED
    BY <1>2, <1>3, <1>4 DEF BudgetIInv

(* Whatever threads race for the last of the budget, over any number of    *)
(* days: no day and no month is promised more than its limit, and the      *)
(* ledger covers what the provider billed, also for answers that are lost. *)
THEOREM BudgetHolds == BudgetSpec => []BudgetInv
<1>1. BudgetInit => BudgetIInv
    BY BudgetInitial
<1>2. BudgetIInv /\ [BudgetNext]_budgetVars => BudgetIInv'
    <2> SUFFICES ASSUME BudgetIInv, [BudgetNext]_budgetVars PROVE BudgetIInv'
        OBVIOUS
    <2>1. CASE UNCHANGED budgetVars
        BY <2>1 DEF budgetVars, BudgetIInv, BudgetTypes, BudgetTypeOK, NeverOverLimit, BilledIsHeld,
           Spend, Over, Reserved_, Reserving, Month, Held, Bills
    <2>2. ASSUME NEW c \in Callers, NEW bound \in Estimates, ReadClock(c, bound) PROVE BudgetIInv'
        BY <2>2, ReadClockKeeps
    <2>3. ASSUME NEW c \in Callers, NEW cost \in 0..Max(Estimates), Dispatch(c, cost) PROVE BudgetIInv'
        <3>1. PICK top : cost \in 0..top
            OBVIOUS
        <3> QED
            BY <2>3, <3>1, DispatchKeeps
    <2>4. ASSUME NEW c \in Callers, ReserveBudget(c) PROVE BudgetIInv'
        BY <2>4, ReserveKeeps
    <2>5. ASSUME NEW c \in Callers, Charge(c) PROVE BudgetIInv'
        BY <2>5, ChargeKeeps
    <2>6. CASE NextDay
        BY <2>6, NextDayKeeps
    <2> QED
        BY <2>1, <2>2, <2>3, <2>4, <2>5, <2>6 DEF BudgetNext
<1>3. BudgetIInv => BudgetInv
    <2> SUFFICES ASSUME BudgetIInv PROVE BillIsCovered
        BY DEF BudgetIInv, BudgetInv
    <2> SUFFICES ASSUME NEW d \in BudgetDays PROVE billed[d] <= Spend({d})
        BY DEF BillIsCovered
    <2>1. BudgetTypes /\ BudgetTypeOK /\ billed[d] <= charged[d] + SumFunctionOnSet(Bills, Held({d}))
        BY DEF BudgetIInv, BilledIsHeld
    <2>2. /\ Held({d}) \subseteq Callers /\ IsFiniteSet(Held({d}))
          /\ \A c \in Callers : Bounds[c] \in Nat /\ Bills[c] \in Nat
        BY <2>1, HeldIsFinite
    <2>3. \A c \in Callers : Bills[c] <= Bounds[c]
        <3> SUFFICES ASSUME NEW c \in Callers PROVE Bills[c] <= Bounds[c]
            OBVIOUS
        <3>1. caller[c].bound \in Nat /\ caller[c].cost \in Nat /\ caller[c].cost <= caller[c].bound
            BY <2>1, CallIs
        <3> QED
            BY <3>1 DEF Bills, Bounds
    <2>4. SumFunctionOnSet(Bills, Held({d})) <= SumFunctionOnSet(Bounds, Held({d}))
        BY <2>2, <2>3, SumIsMonotonic
    <2>5. SumFunctionOnSet(Bills, Held({d})) \in Nat /\ SumFunctionOnSet(Bounds, Held({d})) \in Nat
        BY <2>2, SumIsNat
    <2>6. Over({d}) = charged[d] /\ charged[d] \in Nat /\ billed[d] \in Nat
        <3>1. charged[d] \in Nat /\ billed[d] \in Nat
            BY <2>1 DEF BudgetTypes
        <3> QED
            BY <3>1, SumOfOne DEF Over
    <2>7. Spend({d}) = charged[d] + SumFunctionOnSet(Bounds, Held({d}))
        BY <2>6, ReservedIsSum DEF Spend
    <2> QED
        BY <2>1, <2>4, <2>5, <2>6, <2>7
<1> QED
    BY <1>1, <1>2, <1>3, PTL DEF BudgetSpec
-------------------------------------------------------------------------------
(* Public studies.  A reading that is on time still has the lease and the  *)
(* gate it began with, and for as long as its remaining requests may take; *)
(* a transaction that is about to commit a cell is the only one of its     *)
(* country, and has counted what the others committed.                     *)

StudyCell == [packs : Nat, openings : Nat, sources : Nat]
StudyRecord == [title : {"reviewed", "edited"}, first : 0..StudyEnd, last : 0..StudyEnd]

Claimed == [stage : {"claimed"}, study : Studies, run : 1..StudyRuns]
Underway == [stage : {"granted", "robots", "waiting", "page"}, study : Studies, run : 1..StudyRuns,
             since : 0..StudyEnd, prompt : BOOLEAN]
Finding == [stage : {"read", "locked"}, study : Studies, run : 1..StudyRuns, since : 0..StudyEnd,
             prompt : BOOLEAN, title : {"reviewed", "edited"}, refused : BOOLEAN]
Writing == [stage : {"writing"}, study : Studies, run : 1..StudyRuns,
            title : {"reviewed", "edited"}, at : 0..StudyEnd, cell : StudyCell]
Reading == Claimed \cup Underway \cup Finding \cup Writing

StudyTypes ==
    /\ studyNow \in 0..StudyEnd
    /\ lease \in [Studies -> [run : 0..StudyRuns, until : Nat, lock : StudyWorkers \cup {"none"}]]
    /\ gate \in [Studies -> [run : 0..StudyRuns, until : Nat]]
    /\ attempted \in [Studies -> -1..StudyEnd]
    /\ reader \in [StudyWorkers -> Reading \cup {Idler}]
    /\ cohortLedger \in [Studies -> StudyRecord \cup {Unrecorded}]
    /\ cell \in [Countries -> [Days -> StudyCell]]

\* A run is one worker's, and a row is locked by the worker of its last run.
RunsAreOwn ==
    \A w \in StudyWorkers :
        reader[w] # Idler =>
            /\ reader[w].run <= lease[reader[w].study].run
            /\ \A v \in StudyWorkers :
                  reader[v] # Idler /\ reader[v].study = reader[w].study
                      /\ reader[v].run = reader[w].run => v = w

LocksAreHeld ==
    \A w \in StudyWorkers :
        reader[w].stage \in {"locked", "writing"} =>
            lease[reader[w].study].lock = w /\ lease[reader[w].study].run = reader[w].run

\* What is left of a gate, at the least, when a stage begins.
Margin(stage) ==
    IF stage \in {"granted", "robots"} THEN GateFence
    ELSE IF stage = "waiting" THEN GateFence - FetchTime
    ELSE IF stage = "page" THEN GateFence - FetchTime - FollowUp
    ELSE GateFence - 2 * FetchTime - FollowUp

Timely(r) ==
    /\ r.stage \in {"granted", "robots", "waiting", "page", "read", "locked"}
    /\ r.prompt
    /\ r.stage \in {"granted", "read", "locked"} => studyNow = r.since
    /\ r.stage = "waiting" => studyNow <= r.since + FollowUp

Fences(r) ==
    /\ lease[r.study].run = r.run /\ r.since + Margin(r.stage) <= lease[r.study].until
    /\ gate[r.study].run = r.run /\ r.since + Margin(r.stage) <= gate[r.study].until

FencesHold ==
    \A w \in StudyWorkers :
        /\ reader[w].stage \in {"granted", "read", "locked"} => reader[w].since <= studyNow
        /\ reader[w].stage \in {"robots", "page"} => studyNow <= reader[w].since + FetchTime
        /\ Timely(reader[w]) => Fences(reader[w])

\* The records are of the past, and so are the cells.
RecordsArePast ==
    /\ \A s \in Studies : cohortLedger[s] # Unrecorded =>
          cohortLedger[s].first <= cohortLedger[s].last /\ cohortLedger[s].last <= studyNow
    /\ \A c \in Countries, d \in Days : Today < d => cell[c][d] = NoCell

\* A transaction that is about to write a cell.
WritesCell(w) == reader[w].stage = "writing" /\ reader[w].study \notin CoverageStudies

CountsAll(r) ==
    /\ r.cell = Published(Cohort(r.study, r.at \div DayLength))
    /\ \A q \in Studies \ CoverageStudies :
          Country[q] = Country[r.study] /\ cohortLedger[q] # Unrecorded => cohortLedger[q].last <= r.at
    /\ \A d \in Days : r.at \div DayLength < d => cell[Country[r.study]][d] = NoCell

WritersTakeTurns ==
    /\ \A w \in StudyWorkers : reader[w].stage = "writing" =>
          /\ reader[w].at <= studyNow
          /\ cohortLedger[reader[w].study] # Unrecorded =>
                cohortLedger[reader[w].study].last <= reader[w].at
    /\ \A w \in StudyWorkers : WritesCell(w) =>
          /\ CountsAll(reader[w])
          /\ \A v \in StudyWorkers :
                WritesCell(v) /\ Country[reader[v].study] = Country[reader[w].study] => v = w

StudyIInv ==
    /\ StudyTypes /\ RunsAreOwn /\ LocksAreHeld /\ FencesHold
    /\ RecordsArePast /\ WritersTakeTurns /\ CellCountsCohort

LEMMA DivisionIsMonotonic ==
    ASSUME NEW d \in Nat \ {0}, NEW n \in Nat, NEW m \in Nat, n <= m
    PROVE  n \div d \in Nat /\ n \div d <= m \div d
<1>1. ASSUME NEW k \in Nat
      PROVE  k \div d \in Nat /\ (k \div d) * d <= k /\ k < (k \div d) * d + d
    BY SMTT(30)
<1>2. PICK a \in Nat, b \in Nat : a = n \div d /\ b = m \div d
    BY <1>1
<1>3. a * d <= n /\ m < b * d + d
    BY <1>1, <1>2
<1>4. a * d < (b + 1) * d
    <2>1. (b + 1) * d = b * d + d /\ a * d \in Int /\ b * d \in Int
        BY SMTT(30)
    <2> QED
        BY <1>3, <2>1
<1>5. ASSUME b + 1 <= a PROVE FALSE
    <2>1. (b + 1) * d <= a * d
        BY <1>5, SMTT(30)
    <2>2. (b + 1) * d \in Int /\ a * d \in Int
        BY SMTT(30)
    <2> QED
        BY <1>4, <2>1, <2>2
<1> QED
    BY <1>2, <1>5

LEMMA DaysOf ==
    /\ \A t \in 0..StudyEnd : t \div DayLength \in Days
    /\ \A t, u \in 0..StudyEnd : t <= u => t \div DayLength <= u \div DayLength
    /\ Days \subseteq Nat
<1> USE StudyAssumption
<1>1. ASSUME NEW t \in 0..StudyEnd PROVE t \div DayLength \in Days
    BY <1>1, DivisionIsMonotonic DEF Days
<1>2. ASSUME NEW t \in 0..StudyEnd, NEW u \in 0..StudyEnd, t <= u
      PROVE  t \div DayLength <= u \div DayLength
    BY <1>2, DivisionIsMonotonic
<1> QED
    BY <1>1, <1>2 DEF Days

LEMMA StudyNumbers ==
    /\ FetchTime \in Nat /\ FollowUp \in Nat /\ GateFence \in Nat /\ ClaimFor \in Nat
    /\ FetchTime > 0 /\ GateFence > 2 * FetchTime + FollowUp
    /\ StudyEnd \in Nat /\ StudyRuns \in Nat /\ \A w \in StudyWorkers : w # "none"
BY StudyAssumption

\* What the cell of any cohort looks like.
LEMMA PublishedIsCell ==
    ASSUME NEW cohort \in SUBSET Studies
    PROVE  Published(cohort) \in StudyCell
<1> USE StudyAssumption
<1>1. NoCell \in StudyCell
    BY DEF NoCell, StudyCell
<1>2. IsFiniteSet(cohort) /\ Cardinality(cohort) \in Nat
    BY FS_Subset, FS_CardinalityType
<1>3. FoldFunctionOnSet(+, 0, StudyPacks, cohort) \in Nat
    <2>1. SumFunctionOnSet(StudyPacks, cohort) \in Nat
        BY <1>2, SumIsNat
    <2> QED
        BY <2>1 DEF SumFunctionOnSet
<1>4. Cardinality({Domain[q] : q \in cohort}) \in Nat
    <2>1. IsFiniteSet({Domain[q] : q \in cohort})
        <3> DEFINE D == [q \in cohort |-> Domain[q]]
        <3>1. {D[q] : q \in cohort} = {Domain[q] : q \in cohort}
            OBVIOUS
        <3>2. D \in Surjection(cohort, {D[q] : q \in cohort})
            BY DEF Surjection
        <3> HIDE DEF D
        <3> QED
            BY <1>2, <3>1, <3>2, FS_Surjection
    <2> QED
        BY <2>1, FS_CardinalityType
<1> QED
    BY <1>1, <1>2, <1>3, <1>4 DEF Published, StudyCell

LEMMA ReaderIs ==
    ASSUME StudyTypes, NEW w \in StudyWorkers
    PROVE  /\ reader[w] \in Reading \cup {Idler}
           /\ reader[w] # Idler => /\ reader[w].study \in Studies /\ reader[w].run \in 1..StudyRuns
                                   /\ reader[w].stage # "idle"
           /\ reader[w].stage = "claimed" => reader[w] \in Claimed
           /\ reader[w].stage \in {"granted", "robots", "waiting", "page"} => reader[w] \in Underway
           /\ reader[w].stage \in {"read", "locked"} => reader[w] \in Finding
           /\ reader[w].stage = "writing" => reader[w] \in Writing
           /\ reader[w].stage = "idle" <=> reader[w] = Idler
<1>1. reader[w] \in Reading \cup {Idler}
    BY DEF StudyTypes
<1>2. CASE reader[w] = Idler
    BY <1>1, <1>2 DEF Idler
<1>3. CASE reader[w] \in Claimed
    <2>1. reader[w].stage = "claimed" /\ reader[w].study \in Studies /\ reader[w].run \in 1..StudyRuns
        BY <1>3 DEF Claimed
    <2> QED
        BY <1>1, <1>3, <2>1 DEF Idler
<1>4. CASE reader[w] \in Underway
    <2>1. /\ reader[w].stage \in {"granted", "robots", "waiting", "page"}
          /\ reader[w].study \in Studies /\ reader[w].run \in 1..StudyRuns
        BY <1>4 DEF Underway
    <2> QED
        BY <1>1, <1>4, <2>1 DEF Idler
<1>5. CASE reader[w] \in Finding
    <2>1. /\ reader[w].stage \in {"read", "locked"}
          /\ reader[w].study \in Studies /\ reader[w].run \in 1..StudyRuns
        BY <1>5 DEF Finding
    <2> QED
        BY <1>1, <1>5, <2>1 DEF Idler
<1>6. CASE reader[w] \in Writing
    <2>1. reader[w].stage = "writing" /\ reader[w].study \in Studies /\ reader[w].run \in 1..StudyRuns
        BY <1>6 DEF Writing
    <2> QED
        BY <1>1, <1>6, <2>1 DEF Idler
<1> QED
    BY <1>1, <1>2, <1>3, <1>4, <1>5, <1>6 DEF Reading

\* A reading in time has both still, and neither is about to run out.
LEMMA TimelyHolds ==
    ASSUME StudyTypes, FencesHold, NEW w \in StudyWorkers, Timely(reader[w])
    PROVE  Holds(reader[w].study, reader[w].run) /\ reader[w] # Idler
<1> USE StudyAssumption
<1>1. PICK r : r = reader[w]
    OBVIOUS
<1>2. r \in Underway \/ r \in Finding
    BY <1>1, ReaderIs DEF Timely
<1>3. r.study \in Studies /\ r.since \in Nat /\ studyNow \in Nat
    BY <1>2 DEF Underway, Finding, StudyTypes
<1>4. /\ lease[r.study].run = r.run /\ r.since + Margin(r.stage) <= lease[r.study].until
      /\ gate[r.study].run = r.run /\ r.since + Margin(r.stage) <= gate[r.study].until
    BY <1>1 DEF FencesHold, Fences
<1>5. lease[r.study].until \in Nat /\ gate[r.study].until \in Nat
    BY <1>3 DEF StudyTypes
<1>6. Margin(r.stage) \in Int /\ studyNow < r.since + Margin(r.stage)
    <2>1. CASE r.stage \in {"granted", "read", "locked"}
        BY <1>1, <1>3, <2>1 DEF Timely, Margin
    <2>2. CASE r.stage \in {"robots", "page"}
        BY <1>1, <1>3, <2>2 DEF FencesHold, Margin
    <2>3. CASE r.stage = "waiting"
        BY <1>1, <1>3, <2>3 DEF Timely, Margin
    <2> QED
        BY <1>1, <2>1, <2>2, <2>3 DEF Timely
<1>7. lease[r.study].until > studyNow /\ gate[r.study].until > studyNow
    BY <1>3, <1>4, <1>5, <1>6
<1>8. r # Idler
    BY <1>1, ReaderIs DEF Timely
<1> QED
    BY <1>1, <1>4, <1>7, <1>8 DEF Holds, Live, OwnsGate

\* The worker of a study's last run is the only one with a claim on it.
LEMMA OthersAreStale ==
    ASSUME StudyTypes, RunsAreOwn, LocksAreHeld, FencesHold, NEW w \in StudyWorkers,
           reader[w] # Idler, lease[reader[w].study].run = reader[w].run,
           NEW v \in StudyWorkers \ {w}, reader[v] # Idler, reader[v].study = reader[w].study
    PROVE  ~ Timely(reader[v]) /\ reader[v].stage \notin {"locked", "writing"}
<1>1. reader[v].run # reader[w].run
    BY DEF RunsAreOwn
<1>2. ASSUME Timely(reader[v]) PROVE FALSE
    <2>1. Holds(reader[v].study, reader[v].run)
        BY <1>2, TimelyHolds
    <2> QED
        BY <1>1, <2>1 DEF Holds, Live
<1>3. ASSUME reader[v].stage \in {"locked", "writing"} PROVE FALSE
    BY <1>1, <1>3 DEF LocksAreHeld
<1> QED
    BY <1>2, <1>3

\* What a step of one worker must see to: that it leaves the others alone,
\* that the row and the gate it touches are not another's, and its own place.
Alone(w, s) ==
    /\ studyNow' = studyNow
    /\ \A v \in StudyWorkers \ {w} : reader'[v] = reader[v]
    /\ \A q \in Studies \ {s} : lease'[q] = lease[q] /\ gate'[q] = gate[q]
    /\ lease[s].run <= lease'[s].run /\ lease[s].run \in Nat /\ lease'[s].run \in Nat

OnItsOwn(w, s) ==
    \/ lease'[s] = lease[s] /\ gate'[s] = gate[s]
    \/ \A v \in StudyWorkers \ {w} : reader[v] # Idler /\ reader[v].study = s =>
           ~ Timely(reader[v]) /\ reader[v].stage \notin {"locked", "writing"}

InPlace(w, s, run) ==
    \/ reader'[w] = Idler
    \/ /\ reader'[w].study = s /\ reader'[w].run = run /\ run <= lease'[s].run
       /\ \A v \in StudyWorkers \ {w} :
             reader[v] # Idler /\ reader[v].study = s => reader[v].run # run
       /\ reader'[w].stage \in {"locked", "writing"} =>
             lease'[s].lock = w /\ lease'[s].run = run
       /\ reader'[w].stage \in {"granted", "read", "locked"} => reader'[w].since <= studyNow
       /\ reader'[w].stage \in {"robots", "page"} => studyNow <= reader'[w].since + FetchTime
       /\ Timely(reader[w])' => Fences(reader[w])'

LEMMA StudyStep ==
    ASSUME StudyIInv, NEW w \in StudyWorkers, NEW s \in Studies, NEW run \in 1..StudyRuns,
           Alone(w, s), OnItsOwn(w, s), InPlace(w, s, run)
    PROVE  RunsAreOwn' /\ LocksAreHeld' /\ FencesHold'
<1> USE DEF Alone, OnItsOwn, InPlace
<1>1. StudyTypes /\ RunsAreOwn /\ LocksAreHeld /\ FencesHold
    BY DEF StudyIInv
<1>2. ASSUME NEW v \in StudyWorkers \ {w}, reader[v] # Idler
      PROVE  /\ reader[v].study \in Studies /\ reader[v].run \in Nat
             /\ lease[reader[v].study].run \in Nat
             /\ reader[v].run <= lease'[reader[v].study].run
    <2>1. reader[v].study \in Studies /\ reader[v].run \in 1..StudyRuns
        BY <1>1, <1>2, ReaderIs
    <2>2. lease[reader[v].study].run \in 0..StudyRuns
        BY <1>1, <2>1 DEF StudyTypes
    <2>3. reader[v].run <= lease[reader[v].study].run
        BY <1>1, <1>2 DEF RunsAreOwn
    <2>4. lease[reader[v].study].run <= lease'[reader[v].study].run /\ lease'[reader[v].study].run \in Nat
        <3>1. CASE reader[v].study = s
            BY <3>1
        <3>2. CASE reader[v].study # s
            BY <2>1, <2>2, <3>2
        <3> QED
            BY <3>1, <3>2
    <2>5. lease[reader[v].study].run \in Nat /\ reader[v].run \in Nat
        BY <2>1, <2>2
    <2> QED
        BY <2>1, <2>3, <2>4, <2>5
<1>3. RunsAreOwn'
    <2> SUFFICES ASSUME NEW u \in StudyWorkers, reader'[u] # Idler
                 PROVE  /\ reader'[u].run <= lease'[reader'[u].study].run
                        /\ \A v \in StudyWorkers :
                              reader'[v] # Idler /\ reader'[v].study = reader'[u].study
                                  /\ reader'[v].run = reader'[u].run => v = u
        BY DEF RunsAreOwn, Idler
    <2>1. CASE u = w
        BY <2>1
    <2>2. CASE u # w
        <3>1. reader'[u] = reader[u] /\ reader[u] # Idler
            BY <2>2
        <3>2. reader'[u].run <= lease'[reader'[u].study].run
            BY <1>2, <2>2, <3>1
        <3>3. ASSUME NEW v \in StudyWorkers, reader'[v] # Idler,
                     reader'[v].study = reader'[u].study, reader'[v].run = reader'[u].run
              PROVE  v = u
            <4>1. CASE v = w
                BY <2>2, <3>1, <3>3, <4>1
            <4>2. CASE v # w
                BY <1>1, <3>1, <3>3, <4>2 DEF RunsAreOwn
            <4> QED
                BY <4>1, <4>2
        <3> QED
            BY <3>2, <3>3
    <2> QED
        BY <2>1, <2>2
<1>4. LocksAreHeld'
    <2> SUFFICES ASSUME NEW v \in StudyWorkers, reader'[v].stage \in {"locked", "writing"}
                 PROVE  /\ lease'[reader'[v].study].lock = v
                        /\ lease'[reader'[v].study].run = reader'[v].run
        BY DEF LocksAreHeld
    <2>1. CASE v = w
        BY <2>1 DEF Idler
    <2>2. CASE v # w
        <3>1. reader'[v] = reader[v] /\ reader[v].study \in Studies /\ reader[v] # Idler
            BY <1>1, <2>2, ReaderIs DEF Idler
        <3>2. lease'[reader[v].study] = lease[reader[v].study]
            BY <2>2, <3>1
        <3> QED
            BY <1>1, <3>1, <3>2 DEF LocksAreHeld
    <2> QED
        BY <2>1, <2>2
<1>5. FencesHold'
    <2> SUFFICES ASSUME NEW v \in StudyWorkers
                 PROVE  /\ reader'[v].stage \in {"granted", "read", "locked"} => reader'[v].since <= studyNow'
                        /\ reader'[v].stage \in {"robots", "page"} =>
                              studyNow' <= reader'[v].since + FetchTime
                        /\ Timely(reader[v])' => Fences(reader[v])'
        BY DEF FencesHold, Timely, Fences
    <2>1. CASE v = w
        <3>1. CASE reader'[w] = Idler
            BY <2>1, <3>1 DEF Timely, Idler
        <3> QED
            BY <2>1, <3>1
    <2>2. CASE v # w
        <3>1. reader'[v] = reader[v]
            BY <2>2
        <3>2. Timely(reader[v])' <=> Timely(reader[v])
            BY <3>1 DEF Timely
        <3>3. ASSUME Timely(reader[v]) PROVE Fences(reader[v])'
            <4>1. reader[v].study \in Studies /\ reader[v] # Idler
                BY <1>1, <3>3, TimelyHolds, ReaderIs
            <4>2. lease'[reader[v].study] = lease[reader[v].study]
                  /\ gate'[reader[v].study] = gate[reader[v].study]
                BY <2>2, <3>3, <4>1
            <4>3. Fences(reader[v])
                BY <1>1, <3>3 DEF FencesHold
            <4> QED
                BY <3>1, <4>2, <4>3 DEF Fences
        <3> QED
            BY <1>1, <3>1, <3>2, <3>3 DEF FencesHold
    <2> QED
        BY <2>1, <2>2
<1> QED
    BY <1>3, <1>4, <1>5

\* What is committed does not change, and no transaction begins.
LEMMA CellsStand ==
    ASSUME StudyIInv, NEW w \in StudyWorkers, studyNow' = studyNow,
           cohortLedger' = cohortLedger, cell' = cell,
           \A v \in StudyWorkers \ {w} : reader'[v] = reader[v], reader'[w].stage # "writing"
    PROVE  RecordsArePast' /\ WritersTakeTurns' /\ CellCountsCohort'
<1>1. RecordsArePast /\ WritersTakeTurns /\ CellCountsCohort
    BY DEF StudyIInv
<1>2. RecordsArePast' /\ CellCountsCohort'
    BY <1>1 DEF RecordsArePast, CellCountsCohort, Today
<1>3. \A v \in StudyWorkers : reader'[v].stage = "writing" => v # w /\ reader'[v] = reader[v]
    OBVIOUS
<1>4. \A v \in StudyWorkers : WritesCell(v)' => WritesCell(v) /\ v # w /\ reader'[v] = reader[v]
    BY <1>3 DEF WritesCell
<1>5. ASSUME NEW v \in StudyWorkers, WritesCell(v)'
      PROVE  CountsAll(reader[v])'
    <2>1. CountsAll(reader[v]) /\ reader'[v] = reader[v]
        BY <1>1, <1>4, <1>5 DEF WritersTakeTurns
    <2> QED
        BY <2>1 DEF CountsAll, Cohort
<1>6. WritersTakeTurns'
    BY <1>1, <1>3, <1>4, <1>5 DEF WritersTakeTurns
<1> QED
    BY <1>2, <1>6

LEMMA RowsAre ==
    ASSUME StudyTypes, NEW s \in Studies
    PROVE  /\ lease[s] \in [run : 0..StudyRuns, until : Nat, lock : StudyWorkers \cup {"none"}]
           /\ lease[s].run \in 0..StudyRuns /\ lease[s].run \in Nat
           /\ lease[s].until \in Nat /\ lease[s].lock \in StudyWorkers \cup {"none"}
           /\ gate[s] \in [run : 0..StudyRuns, until : Nat]
           /\ gate[s].run \in 0..StudyRuns /\ gate[s].until \in Nat
           /\ studyNow \in 0..StudyEnd /\ studyNow \in Nat
<1>1. /\ lease[s] \in [run : 0..StudyRuns, until : Nat, lock : StudyWorkers \cup {"none"}]
      /\ gate[s] \in [run : 0..StudyRuns, until : Nat] /\ studyNow \in 0..StudyEnd
    BY DEF StudyTypes
<1>2. /\ lease[s].run \in 0..StudyRuns /\ lease[s].until \in Nat
      /\ lease[s].lock \in StudyWorkers \cup {"none"}
    BY <1>1
<1>3. gate[s].run \in 0..StudyRuns /\ gate[s].until \in Nat
    BY <1>1
<1> QED
    BY <1>1, <1>2, <1>3

LEMMA ClaimStudyKeeps ==
    ASSUME StudyIInv, NEW w \in StudyWorkers, NEW s \in Studies, ClaimStudy(w, s)
    PROVE  StudyIInv'
<1> DEFINE run == lease[s].run + 1
           entry == [[lease[s] EXCEPT !.run = run] EXCEPT !.until = studyNow + ClaimFor]
           r == [stage |-> "claimed", study |-> s, run |-> run]
<1>1. StudyTypes /\ RunsAreOwn /\ LocksAreHeld /\ FencesHold
    BY DEF StudyIInv
<1>2. /\ lease[s] \in [run : 0..StudyRuns, until : Nat, lock : StudyWorkers \cup {"none"}]
      /\ lease[s].run \in Nat /\ studyNow \in Nat /\ lease[s].run \in 0..StudyRuns
    BY <1>1, RowsAre
<1>3. /\ lease[s].until <= studyNow /\ lease[s].lock = "none" /\ lease[s].run < StudyRuns
      /\ lease' = [lease EXCEPT ![s].run = run, ![s].until = studyNow + ClaimFor]
      /\ reader' = [reader EXCEPT ![w] = r] /\ reader[w] = Idler
      /\ studyNow' = studyNow /\ gate' = gate /\ attempted' = attempted
      /\ cohortLedger' = cohortLedger /\ cell' = cell
    BY DEF ClaimStudy, Unlocked
<1>4. lease' = [lease EXCEPT ![s] = entry]
    BY <1>1, <1>3 DEF StudyTypes
<1>5. run \in 1..StudyRuns /\ run \in Nat
    BY <1>2, <1>3, StudyNumbers
<1>6. /\ entry \in [run : 0..StudyRuns, until : Nat, lock : StudyWorkers \cup {"none"}]
      /\ entry.run = run
    <2>1. studyNow + ClaimFor \in Nat /\ run \in 0..StudyRuns
        BY <1>2, <1>5, StudyNumbers
    <2> HIDE DEF run
    <2> QED
        BY <1>2, <2>1
<1>7. r \in Claimed /\ r # Idler /\ r.study = s /\ r.run = run /\ r.stage = "claimed"
    BY <1>5 DEF Claimed, Idler
<1> HIDE DEF entry, r
<1>8. /\ reader'[w] = r /\ \A v \in StudyWorkers \ {w} : reader'[v] = reader[v]
      /\ lease'[s] = entry /\ \A q \in Studies \ {s} : lease'[q] = lease[q] /\ gate'[q] = gate[q]
    BY <1>1, <1>3, <1>4 DEF StudyTypes
<1>9. StudyTypes'
    <2>1. lease' \in [Studies -> [run : 0..StudyRuns, until : Nat, lock : StudyWorkers \cup {"none"}]]
        BY <1>1, <1>4, <1>6 DEF StudyTypes
    <2>2. reader' \in [StudyWorkers -> Reading \cup {Idler}]
        BY <1>1, <1>3, <1>7 DEF StudyTypes, Reading
    <2> QED
        BY <1>1, <1>3, <2>1, <2>2 DEF StudyTypes
<1>10. ASSUME NEW v \in StudyWorkers \ {w}, reader[v] # Idler, reader[v].study = s
       PROVE  /\ ~ Timely(reader[v]) /\ reader[v].stage \notin {"locked", "writing"}
              /\ reader[v].run # run
    <2>1. ASSUME Timely(reader[v]) PROVE FALSE
        BY <1>1, <1>2, <1>3, <1>10, <2>1, TimelyHolds, RowsAre DEF Holds, Live
    <2>2. ASSUME reader[v].stage \in {"locked", "writing"} PROVE FALSE
        BY <1>1, <1>3, <1>10, <2>2, StudyNumbers DEF LocksAreHeld
    <2>3. reader[v].run <= lease[s].run /\ reader[v].run \in 1..StudyRuns
        BY <1>1, <1>10, ReaderIs DEF RunsAreOwn
    <2> QED
        BY <1>2, <2>1, <2>2, <2>3
<1>11. ~ (Timely(reader[w])')
    BY <1>7, <1>8 DEF Timely
<1>12. RunsAreOwn' /\ LocksAreHeld' /\ FencesHold'
    <2>1. Alone(w, s)
        <3>1. lease'[s].run = lease[s].run + 1 /\ studyNow' = studyNow
            BY <1>3, <1>6, <1>8
        <3>2. lease[s].run <= lease'[s].run /\ lease'[s].run \in Nat
            BY <1>2, <3>1
        <3> QED
            BY <1>2, <1>8, <3>1, <3>2 DEF Alone
    <2>2. OnItsOwn(w, s)
        BY <1>10 DEF OnItsOwn
    <2>3. InPlace(w, s, run)
        BY <1>2, <1>6, <1>7, <1>8, <1>10, <1>11 DEF InPlace
    <2> HIDE DEF run
    <2> QED
        BY <1>5, <2>1, <2>2, <2>3, StudyStep
<1>13. RecordsArePast' /\ WritersTakeTurns' /\ CellCountsCohort'
    BY <1>3, <1>7, <1>8, CellsStand
<1> QED
    BY <1>9, <1>12, <1>13 DEF StudyIInv

LEMMA StudyHeartbeatKeeps ==
    ASSUME StudyIInv, NEW w \in StudyWorkers, StudyHeartbeat(w)
    PROVE  StudyIInv'
<1> DEFINE s == reader[w].study
           run == reader[w].run
           entry == [lease[s] EXCEPT !.until = studyNow + ClaimFor]
           fence == IF OwnsGate(s, run) THEN [gate[s] EXCEPT !.until = studyNow + ClaimFor] ELSE gate[s]
<1>1. StudyTypes /\ RunsAreOwn /\ LocksAreHeld /\ FencesHold
    BY DEF StudyIInv
<1>2. /\ reader[w] # Idler /\ lease[s].lock = "none" /\ Live(s, run)
      /\ lease[s].until < studyNow + ClaimFor
      /\ lease' = [lease EXCEPT ![s].until = studyNow + ClaimFor]
      /\ gate' = IF OwnsGate(s, run) THEN [gate EXCEPT ![s].until = studyNow + ClaimFor] ELSE gate
      /\ studyNow' = studyNow /\ attempted' = attempted /\ reader' = reader
      /\ cohortLedger' = cohortLedger /\ cell' = cell
    BY DEF StudyHeartbeat, Unlocked
<1>3. s \in Studies /\ run \in 1..StudyRuns
    BY <1>1, <1>2, ReaderIs
<1>4. /\ lease[s] \in [run : 0..StudyRuns, until : Nat, lock : StudyWorkers \cup {"none"}]
      /\ gate[s] \in [run : 0..StudyRuns, until : Nat]
      /\ lease[s].run \in Nat /\ lease[s].until \in Nat /\ gate[s].until \in Nat /\ studyNow \in Nat
    BY <1>1, <1>3, RowsAre
<1>5. /\ lease' = [lease EXCEPT ![s] = entry] /\ studyNow + ClaimFor \in Nat
      /\ entry \in [run : 0..StudyRuns, until : Nat, lock : StudyWorkers \cup {"none"}]
      /\ entry.run = lease[s].run /\ entry.until = studyNow + ClaimFor
    <2>1. studyNow + ClaimFor \in Nat
        BY <1>4, StudyNumbers
    <2> QED
        BY <1>1, <1>2, <1>3, <1>4, <2>1 DEF StudyTypes
<1>6. gate' = [gate EXCEPT ![s] = fence]
    BY <1>1, <1>2, <1>3 DEF StudyTypes
<1>7. /\ fence \in [run : 0..StudyRuns, until : Nat]
      /\ OwnsGate(s, run) => fence.run = gate[s].run /\ fence.until = studyNow + ClaimFor
    BY <1>4, <1>5
<1> HIDE DEF entry, fence
<1>8. /\ lease'[s] = entry /\ gate'[s] = fence
      /\ \A q \in Studies \ {s} : lease'[q] = lease[q] /\ gate'[q] = gate[q]
      /\ \A v \in StudyWorkers \ {w} : reader'[v] = reader[v]
    BY <1>1, <1>2, <1>3, <1>5, <1>6 DEF StudyTypes
<1>9. StudyTypes'
    <2>1. lease' \in [Studies -> [run : 0..StudyRuns, until : Nat, lock : StudyWorkers \cup {"none"}]]
        BY <1>1, <1>3, <1>5 DEF StudyTypes
    <2>2. gate' \in [Studies -> [run : 0..StudyRuns, until : Nat]]
        BY <1>1, <1>3, <1>6, <1>7 DEF StudyTypes
    <2> QED
        BY <1>1, <1>2, <2>1, <2>2 DEF StudyTypes
<1>10. lease[s].run = run
    BY <1>2 DEF Live
<1>11. \A v \in StudyWorkers \ {w} : reader[v] # Idler /\ reader[v].study = s =>
          ~ Timely(reader[v]) /\ reader[v].stage \notin {"locked", "writing"}
    BY <1>1, <1>2, <1>10, OthersAreStale
<1>12. reader[w].stage \notin {"locked", "writing"}
    BY <1>1, <1>2, StudyNumbers DEF LocksAreHeld
<1>13. ASSUME Timely(reader[w])' PROVE Fences(reader[w])'
    <2>1. Timely(reader[w])
        BY <1>2, <1>13 DEF Timely
    <2>2. Fences(reader[w]) /\ OwnsGate(s, run)
        BY <1>1, <2>1, TimelyHolds DEF FencesHold, Holds
    <2>3. reader[w].since \in Nat /\ Margin(reader[w].stage) \in Int
        <3>1. reader[w] \in Underway \/ reader[w] \in Finding
            BY <1>1, <2>1, ReaderIs DEF Timely
        <3> QED
            BY <3>1, StudyNumbers DEF Underway, Finding, Margin
    <2> QED
        BY <1>2, <1>4, <1>5, <1>7, <1>8, <2>2, <2>3 DEF Fences
<1>14. /\ \A v \in StudyWorkers \ {w} : reader[v] # Idler /\ reader[v].study = s => reader[v].run # run
       /\ reader[w].stage \in {"granted", "read", "locked"} => reader[w].since <= studyNow
       /\ reader[w].stage \in {"robots", "page"} => studyNow <= reader[w].since + FetchTime
    BY <1>1, <1>2 DEF RunsAreOwn, FencesHold
<1>15. RunsAreOwn' /\ LocksAreHeld' /\ FencesHold'
    <2>1. Alone(w, s)
        BY <1>2, <1>4, <1>5, <1>8 DEF Alone
    <2>2. OnItsOwn(w, s)
        BY <1>11 DEF OnItsOwn
    <2>3. run <= lease'[s].run /\ reader'[w] = reader[w]
        BY <1>2, <1>3, <1>5, <1>8, <1>10
    <2>4. InPlace(w, s, run)
        BY <1>12, <1>13, <1>14, <2>3 DEF InPlace
    <2> HIDE DEF s, run
    <2> QED
        BY <1>3, <2>1, <2>2, <2>4, StudyStep
<1>16. RecordsArePast' /\ WritersTakeTurns' /\ CellCountsCohort'
    BY <1>2, <1>8, <1>12, CellsStand
<1> QED
    BY <1>9, <1>15, <1>16 DEF StudyIInv

\* A study's row and its gate.
Row == [run : 0..StudyRuns, until : Nat, lock : StudyWorkers \cup {"none"}]
Gate == [run : 0..StudyRuns, until : Nat]

\* What a reading needs of a row and a gate that a step leaves it with.
FencedBy(r, entry, fence) ==
    /\ entry.run = r.run /\ r.since + Margin(r.stage) <= entry.until
    /\ fence.run = r.run /\ r.since + Margin(r.stage) <= fence.until

\* A worker goes on with its reading, or gives it up; nothing is committed.
Moves(w, s, run, entry, fence, r) ==
    /\ reader[w] # Idler /\ s = reader[w].study /\ run = reader[w].run
    /\ lease' = [lease EXCEPT ![s] = entry] /\ gate' = [gate EXCEPT ![s] = fence]
    /\ reader' = [reader EXCEPT ![w] = r] /\ attempted' \in [Studies -> -1..StudyEnd]
    /\ studyNow' = studyNow /\ cohortLedger' = cohortLedger /\ cell' = cell
    /\ (entry = lease[s] /\ fence = gate[s]) \/ lease[s].run = run
    /\ entry.run = lease[s].run /\ r.stage # "writing"

KeepsItsFences(w, s, run, entry, fence, r) ==
    r # Idler =>
        /\ r.study = s /\ r.run = run
        /\ r.stage = "locked" => entry.lock = w /\ entry.run = run
        /\ r.stage \in {"granted", "read", "locked"} => r.since <= studyNow
        /\ r.stage \in {"robots", "page"} => studyNow <= r.since + FetchTime
        /\ Timely(r) => FencedBy(r, entry, fence)

LEMMA ReaderMoves ==
    ASSUME StudyIInv, NEW w \in StudyWorkers, NEW s \in Studies, NEW run \in 1..StudyRuns,
           NEW entry \in Row, NEW fence \in Gate, NEW r \in Reading \cup {Idler},
           Moves(w, s, run, entry, fence, r), KeepsItsFences(w, s, run, entry, fence, r)
    PROVE  StudyIInv'
<1> USE DEF Moves, KeepsItsFences
<1>1. StudyTypes /\ RunsAreOwn /\ LocksAreHeld /\ FencesHold
    BY DEF StudyIInv
<1>2. lease[s].run \in Nat
    BY <1>1, RowsAre
<1>3. /\ lease'[s] = entry /\ gate'[s] = fence /\ reader'[w] = r
      /\ \A q \in Studies \ {s} : lease'[q] = lease[q] /\ gate'[q] = gate[q]
      /\ \A v \in StudyWorkers \ {w} : reader'[v] = reader[v]
    BY <1>1 DEF StudyTypes
<1>4. StudyTypes'
    <2>1. lease' \in [Studies -> Row] /\ gate' \in [Studies -> Gate]
        BY <1>1 DEF StudyTypes, Row, Gate
    <2>2. reader' \in [StudyWorkers -> Reading \cup {Idler}]
        BY <1>1 DEF StudyTypes
    <2> QED
        BY <1>1, <2>1, <2>2 DEF StudyTypes, Row, Gate
<1>5. Alone(w, s)
    BY <1>2, <1>3 DEF Alone
<1>6. OnItsOwn(w, s)
    <2>1. CASE entry = lease[s] /\ fence = gate[s]
        BY <1>3, <2>1 DEF OnItsOwn
    <2>2. CASE lease[s].run = run
        <3>1. \A v \in StudyWorkers \ {w} : reader[v] # Idler /\ reader[v].study = s =>
                  ~ Timely(reader[v]) /\ reader[v].stage \notin {"locked", "writing"}
            BY <1>1, <2>2, OthersAreStale
        <3> QED
            BY <3>1 DEF OnItsOwn
    <2> QED
        BY <2>1, <2>2
<1>7. InPlace(w, s, run)
    <2>1. CASE r = Idler
        BY <1>3, <2>1 DEF InPlace
    <2>2. CASE r # Idler
        <3>1. run <= lease'[s].run
            BY <1>1, <1>3 DEF RunsAreOwn
        <3>2. \A v \in StudyWorkers \ {w} : reader[v] # Idler /\ reader[v].study = s => reader[v].run # run
            BY <1>1 DEF RunsAreOwn
        <3>3. Timely(reader[w])' => Timely(r)
            BY <1>3 DEF Timely
        <3>4. FencedBy(r, entry, fence) => Fences(reader[w])'
            BY <1>3, <2>2 DEF FencedBy, Fences
        <3>5. /\ r.study = s /\ r.run = run
              /\ r.stage = "locked" => entry.lock = w /\ entry.run = run
              /\ r.stage \in {"granted", "read", "locked"} => r.since <= studyNow
              /\ r.stage \in {"robots", "page"} => studyNow <= r.since + FetchTime
              /\ Timely(r) => FencedBy(r, entry, fence)
            BY <2>2
        <3> QED
            BY <1>3, <3>1, <3>2, <3>3, <3>4, <3>5 DEF InPlace
    <2> QED
        BY <2>1, <2>2
<1>8. RunsAreOwn' /\ LocksAreHeld' /\ FencesHold'
    BY <1>5, <1>6, <1>7, StudyStep
<1>9. RecordsArePast' /\ WritersTakeTurns' /\ CellCountsCohort'
    BY <1>3, CellsStand
<1> QED
    BY <1>4, <1>8, <1>9 DEF StudyIInv

\* The same where the row and the gate are left as they are.
LEMMA ReaderMovesOn ==
    ASSUME StudyIInv, NEW w \in StudyWorkers, reader[w] # Idler,
           NEW r \in Reading \cup {Idler}, reader' = [reader EXCEPT ![w] = r],
           UNCHANGED <<studyNow, lease, gate, attempted, cohortLedger, cell>>,
           r.stage \notin {"locked", "writing"},
           r # Idler =>
               /\ r.study = reader[w].study /\ r.run = reader[w].run
               /\ r.stage \in {"granted", "read", "locked"} => r.since <= studyNow
               /\ r.stage \in {"robots", "page"} => studyNow <= r.since + FetchTime
               /\ Timely(r) => Fences(r)
    PROVE  StudyIInv'
<1>1. StudyTypes
    BY DEF StudyIInv
<1>2. PICK s \in Studies, run \in 1..StudyRuns : s = reader[w].study /\ run = reader[w].run
    BY <1>1, ReaderIs
<1>3. PICK entry \in Row, fence \in Gate : entry = lease[s] /\ fence = gate[s]
    BY <1>1, RowsAre DEF Row, Gate
<1>4. lease' = [lease EXCEPT ![s] = entry] /\ gate' = [gate EXCEPT ![s] = fence]
    BY <1>1, <1>3 DEF StudyTypes
<1>5. Moves(w, s, run, entry, fence, r)
    BY <1>1, <1>2, <1>3, <1>4 DEF Moves, StudyTypes
<1>6. KeepsItsFences(w, s, run, entry, fence, r)
    BY <1>2, <1>3 DEF Fences, FencedBy, KeepsItsFences
<1> QED
    BY <1>5, <1>6, ReaderMoves

\* The next stage of a reading.
LEMMA ProceedsIs ==
    ASSUME StudyIInv, NEW w \in StudyWorkers, NEW stage \in {"robots", "waiting", "page"}, NEW due,
           reader[w].stage \in {"granted", "robots", "waiting"}, Proceeds(w, stage, due),
           UNCHANGED <<studyNow, lease, gate, attempted, cohortLedger, cell>>,
           reader[w].prompt /\ studyNow <= due =>
               /\ Timely(reader[w])
               /\ studyNow + Margin(stage) <= reader[w].since + Margin(reader[w].stage)
    PROVE  StudyIInv'
<1> DEFINE on == reader[w].prompt /\ studyNow <= due
           r == [[[reader[w] EXCEPT !.stage = stage] EXCEPT !.since = studyNow] EXCEPT !.prompt = on]
<1>1. StudyTypes /\ FencesHold
    BY DEF StudyIInv
<1>2. /\ reader[w] \in Underway /\ reader[w] # Idler
      /\ reader[w].study \in Studies /\ reader[w].since \in Nat /\ reader[w].prompt \in BOOLEAN
    <2>1. reader[w] \in Underway /\ reader[w] # Idler
        BY <1>1, ReaderIs
    <2> QED
        BY <2>1 DEF Underway
<1>3. reader' = [reader EXCEPT ![w] = r]
    <2>1. reader' = [reader EXCEPT ![w].stage = stage, ![w].since = studyNow, ![w].prompt = @ /\ studyNow <= due]
        BY DEF Proceeds
    <2>2. reader \in [StudyWorkers -> Reading \cup {Idler}]
        BY <1>1 DEF StudyTypes
    <2> QED
        BY <1>2, <2>1, <2>2 DEF Underway
<1>4. /\ r \in Underway /\ r.stage = stage /\ r.since = studyNow /\ r.prompt = on
      /\ r.study = reader[w].study /\ r.run = reader[w].run
    <2>1. on \in BOOLEAN /\ studyNow \in 0..StudyEnd
        BY <1>1 DEF StudyTypes
    <2> HIDE DEF on
    <2> QED
        BY <1>2, <2>1 DEF Underway
<1>5. studyNow \in Nat /\ FetchTime \in Nat
    BY <1>1, StudyNumbers DEF StudyTypes
<1>6. ASSUME Timely(r) PROVE Fences(r)
    <2>1. on
        BY <1>4, <1>6 DEF Timely
    <2>2. /\ Timely(reader[w]) /\ studyNow + Margin(stage) <= reader[w].since + Margin(reader[w].stage)
        BY <2>1
    <2>3. Fences(reader[w])
        BY <1>1, <2>2 DEF FencesHold
    <2>4. lease[reader[w].study].until \in Nat /\ gate[reader[w].study].until \in Nat
        BY <1>1, <1>2, RowsAre
    <2>5. Margin(stage) \in Int /\ Margin(reader[w].stage) \in Int
        BY StudyNumbers DEF Margin
    <2> HIDE DEF r, on
    <2> QED
        BY <1>2, <1>4, <1>5, <2>2, <2>3, <2>4, <2>5 DEF Fences
<1> HIDE DEF r, on
<1>7. r \in Reading \cup {Idler} /\ r.stage \notin {"granted", "read", "locked", "writing"}
    BY <1>4 DEF Reading
<1>8. studyNow <= r.since + FetchTime
    BY <1>4, <1>5
<1> QED
    BY <1>2, <1>3, <1>4, <1>6, <1>7, <1>8, ReaderMovesOn

LEMMA AskRobotsKeeps ==
    ASSUME StudyIInv, NEW w \in StudyWorkers, AskRobots(w)
    PROVE  StudyIInv'
<1>1. /\ reader[w].stage = "granted" /\ Proceeds(w, "robots", reader[w].since)
      /\ UNCHANGED <<studyNow, lease, gate, attempted, cohortLedger, cell>>
    BY DEF AskRobots
<1>2. reader[w].since \in Nat /\ studyNow \in Nat
    <2>1. StudyTypes
        BY DEF StudyIInv
    <2>2. reader[w] \in Underway /\ studyNow \in 0..StudyEnd
        BY <1>1, <2>1, ReaderIs DEF StudyTypes
    <2> QED
        BY <2>2 DEF Underway
<1>3. ASSUME reader[w].prompt, studyNow <= reader[w].since
      PROVE  /\ Timely(reader[w])
             /\ studyNow + Margin("robots") <= reader[w].since + Margin(reader[w].stage)
    <2>1. reader[w].since <= studyNow
        BY <1>1 DEF StudyIInv, FencesHold
    <2> QED
        BY <1>1, <1>2, <1>3, <2>1, StudyNumbers DEF Timely, Margin
<1> QED
    BY <1>1, <1>3, ProceedsIs

LEMMA RobotsAllowKeeps ==
    ASSUME StudyIInv, NEW w \in StudyWorkers, RobotsAllow(w)
    PROVE  StudyIInv'
<1>1. /\ reader[w].stage = "robots" /\ Proceeds(w, "waiting", studyNow)
      /\ UNCHANGED <<studyNow, lease, gate, attempted, cohortLedger, cell>>
    BY DEF RobotsAllow
<1>2. StudyTypes /\ FencesHold
    BY DEF StudyIInv
<1>3. reader[w] \in Underway /\ studyNow \in 0..StudyEnd
    BY <1>1, <1>2, ReaderIs DEF StudyTypes
<1>4. reader[w].since \in Nat /\ studyNow \in Nat
    BY <1>3 DEF Underway
<1>5. studyNow <= reader[w].since + FetchTime
    BY <1>1, <1>2 DEF FencesHold
<1>6. ASSUME reader[w].prompt
      PROVE  /\ Timely(reader[w])
             /\ studyNow + Margin("waiting") <= reader[w].since + Margin(reader[w].stage)
    BY <1>1, <1>4, <1>5, <1>6, StudyNumbers DEF Timely, Margin
<1> QED
    BY <1>1, <1>6, ProceedsIs

LEMMA AskPageKeeps ==
    ASSUME StudyIInv, NEW w \in StudyWorkers, AskPage(w)
    PROVE  StudyIInv'
<1>1. /\ reader[w].stage = "waiting" /\ Proceeds(w, "page", reader[w].since + FollowUp)
      /\ UNCHANGED <<studyNow, lease, gate, attempted, cohortLedger, cell>>
    BY DEF AskPage
<1>2. StudyTypes
    BY DEF StudyIInv
<1>3. reader[w] \in Underway /\ studyNow \in 0..StudyEnd
    BY <1>1, <1>2, ReaderIs DEF StudyTypes
<1>4. reader[w].since \in Nat /\ studyNow \in Nat
    BY <1>3 DEF Underway
<1>5. ASSUME reader[w].prompt, studyNow <= reader[w].since + FollowUp
      PROVE  /\ Timely(reader[w])
             /\ studyNow + Margin("page") <= reader[w].since + Margin(reader[w].stage)
    BY <1>1, <1>4, <1>5, StudyNumbers DEF Timely, Margin
<1> QED
    BY <1>1, <1>5, ProceedsIs

\* A page's answer comes while there is time to write it down.
LEMMA ReadPageKeeps ==
    ASSUME StudyIInv, NEW w \in StudyWorkers, ReadPage(w)
    PROVE  StudyIInv'
<1>1. StudyTypes /\ FencesHold
    BY DEF StudyIInv
<1>2. reader[w].stage = "page" /\ UNCHANGED <<studyNow, lease, gate, attempted, cohortLedger, cell>>
    BY DEF ReadPage
<1>3. PICK p \in StudyPages :
          /\ Accepts(reader[w].study, p)
          /\ reader' = [reader EXCEPT ![w] =
                [stage |-> "read", study |-> reader[w].study, run |-> reader[w].run, since |-> studyNow,
                 prompt |-> reader[w].prompt, title |-> p.title, refused |-> FALSE]]
    BY DEF ReadPage
<1> DEFINE r == [stage |-> "read", study |-> reader[w].study, run |-> reader[w].run, since |-> studyNow,
                 prompt |-> reader[w].prompt, title |-> p.title, refused |-> FALSE]
<1>4. reader[w] \in Underway /\ reader[w] # Idler
    BY <1>1, <1>2, ReaderIs
<1>5. /\ reader[w].study \in Studies /\ reader[w].run \in 1..StudyRuns
      /\ reader[w].since \in Nat /\ reader[w].prompt \in BOOLEAN
      /\ studyNow \in 0..StudyEnd /\ studyNow \in Nat
    BY <1>1, <1>4 DEF Underway, StudyTypes
<1>6. p.title \in {"reviewed", "edited"}
    <2>1. p \in IF reader[w].study \in Videos THEN VideoContract[reader[w].study]
                                              ELSE ArticleContract[reader[w].study]
        BY <1>3 DEF Accepts
    <2>2. CASE reader[w].study \in Videos
        BY <2>1, <2>2 DEF VideoContract, VideoAccepts
    <2>3. CASE reader[w].study \notin Videos
        BY <1>5, <2>1, <2>3 DEF ArticleContract, ArticleAccepts, Studies
    <2> QED
        BY <2>2, <2>3
<1>7. r \in Reading \cup {Idler}
    BY <1>5, <1>6 DEF Reading, Finding
<1>8. /\ r.stage = "read" /\ r.study = reader[w].study /\ r.run = reader[w].run
      /\ r.since = studyNow /\ r.prompt = reader[w].prompt
    OBVIOUS
<1> HIDE DEF r
<1>9. ASSUME Timely(r) PROVE Fences(r)
    <2>1. Timely(reader[w]) /\ studyNow <= reader[w].since + FetchTime
        BY <1>1, <1>2, <1>8, <1>9 DEF Timely, FencesHold
    <2>2. Fences(reader[w])
        BY <1>1, <2>1 DEF FencesHold
    <2>3. lease[reader[w].study].until \in Nat /\ gate[reader[w].study].until \in Nat
        BY <1>1, <1>5, RowsAre
    <2>4. studyNow + Margin("read") <= reader[w].since + Margin(reader[w].stage)
          /\ Margin("read") \in Int /\ Margin(reader[w].stage) \in Int
        BY <1>2, <1>5, <2>1, StudyNumbers DEF Margin
    <2> QED
        BY <1>5, <1>8, <2>2, <2>3, <2>4 DEF Fences
<1>10. reader' = [reader EXCEPT ![w] = r]
    BY <1>3 DEF r
<1>11. r.since <= studyNow
    BY <1>5, <1>8
<1> QED
    BY <1>2, <1>4, <1>7, <1>8, <1>9, <1>10, <1>11, ReaderMovesOn

\* A worker gives its reading up, and its row and gate are another's or freed.
LEMMA GivesUp ==
    ASSUME StudyIInv, NEW w \in StudyWorkers, reader[w] # Idler,
           reader' = [reader EXCEPT ![w] = Idler],
           UNCHANGED <<studyNow, lease, gate, attempted, cohortLedger, cell>>
    PROVE  StudyIInv'
<1>1. Idler \in Reading \cup {Idler} /\ Idler.stage = "idle"
    BY DEF Idler
<1> QED
    BY <1>1, ReaderMovesOn

LEMMA BeginStudyKeeps ==
    ASSUME StudyIInv, NEW w \in StudyWorkers, BeginStudy(w)
    PROVE  StudyIInv'
<1>1. StudyTypes
    BY DEF StudyIInv
<1>2. /\ reader[w].stage = "claimed" /\ studyNow' = studyNow /\ cohortLedger' = cohortLedger /\ cell' = cell
      /\ reader[w] # Idler
    BY <1>1, ReaderIs DEF BeginStudy, Idler
<1>3. PICK s \in Studies, run \in 1..StudyRuns : s = reader[w].study /\ run = reader[w].run
    BY <1>1, <1>2, ReaderIs
<1>4. /\ lease[s] \in Row /\ gate[s] \in Gate /\ lease[s].until \in Nat /\ lease[s].run \in 0..StudyRuns
      /\ studyNow \in 0..StudyEnd /\ studyNow \in Nat
    BY <1>1, RowsAre DEF Row, Gate
<1>5. CASE /\ Live(s, run)
           /\ lease' = [lease EXCEPT ![s].until = Fenced(@)]
           /\ gate' = [gate EXCEPT ![s] = [run |-> run, until |-> lease'[s].until]]
           /\ attempted' = [attempted EXCEPT ![s] = studyNow]
           /\ reader' = [reader EXCEPT ![w] =
                 [stage |-> "granted", study |-> s, run |-> run, since |-> studyNow, prompt |-> TRUE]]
    <2> DEFINE until == Fenced(lease[s].until)
               entry == [lease[s] EXCEPT !.until = until]
               fence == [run |-> run, until |-> until]
               r == [stage |-> "granted", study |-> s, run |-> run, since |-> studyNow, prompt |-> TRUE]
    <2>1. until \in Nat /\ studyNow + GateFence <= until
        BY <1>4, StudyNumbers DEF Fenced
    <2> HIDE DEF until
    <2>2. entry \in Row /\ entry.until = until /\ entry.run = lease[s].run
        BY <1>4, <2>1 DEF Row
    <2>3. fence \in Gate /\ fence.until = until /\ fence.run = run
        BY <2>1 DEF Gate
    <2>4. r \in Reading \cup {Idler}
        BY <1>4 DEF Reading, Underway
    <2>5. r.stage = "granted" /\ r.study = s /\ r.run = run /\ r.since = studyNow
        OBVIOUS
    <2>6. lease' = [lease EXCEPT ![s] = entry] /\ lease'[s] = entry
        <3>1. lease \in [Studies -> Row]
            BY <1>1 DEF StudyTypes, Row
        <3> QED
            BY <1>5, <3>1 DEF until
    <2>7. gate' = [gate EXCEPT ![s] = fence]
        BY <1>5, <2>2, <2>6
    <2>8. reader' = [reader EXCEPT ![w] = r] /\ attempted' \in [Studies -> -1..StudyEnd]
        <3>1. attempted \in [Studies -> -1..StudyEnd] /\ studyNow \in -1..StudyEnd
            BY <1>1, <1>4, StudyNumbers DEF StudyTypes
        <3> QED
            BY <1>5, <3>1
    <2>9. lease[s].run = run
        BY <1>5 DEF Live
    <2> HIDE DEF entry, fence, r
    <2>10. Moves(w, s, run, entry, fence, r)
        BY <1>2, <1>3, <2>2, <2>5, <2>6, <2>7, <2>8, <2>9 DEF Moves
    <2>11. KeepsItsFences(w, s, run, entry, fence, r)
        BY <1>4, <2>1, <2>2, <2>3, <2>5, <2>9 DEF KeepsItsFences, FencedBy, Margin
    <2> QED
        BY <2>2, <2>3, <2>4, <2>10, <2>11, ReaderMoves
<1>6. CASE /\ Live(s, run) /\ lease' = [lease EXCEPT ![s].until = 0]
           /\ reader' = [reader EXCEPT ![w] = Idler] /\ UNCHANGED <<gate, attempted>>
    <2> DEFINE entry == [lease[s] EXCEPT !.until = 0]
    <2>1. entry \in Row /\ entry.run = lease[s].run
        BY <1>4 DEF Row
    <2>2. lease' = [lease EXCEPT ![s] = entry] /\ gate' = [gate EXCEPT ![s] = gate[s]]
          /\ attempted' \in [Studies -> -1..StudyEnd]
        BY <1>1, <1>6 DEF StudyTypes
    <2> HIDE DEF entry
    <2>3. Moves(w, s, run, entry, gate[s], Idler)
        BY <1>2, <1>3, <1>6, <2>1, <2>2 DEF Moves, Idler, Live
    <2>4. KeepsItsFences(w, s, run, entry, gate[s], Idler)
        BY DEF KeepsItsFences
    <2>5. Idler \in Reading \cup {Idler}
        OBVIOUS
    <2> QED
        BY <1>4, <2>1, <2>3, <2>4, <2>5, ReaderMoves
<1>7. CASE reader' = [reader EXCEPT ![w] = Idler] /\ UNCHANGED <<lease, gate, attempted>>
    BY <1>2, <1>7, GivesUp
<1> QED
    BY <1>3, <1>5, <1>6, <1>7 DEF BeginStudy

\* The end of a run that is still the study's last.
LEMMA ReleasedIs ==
    ASSUME StudyTypes, NEW s \in Studies, NEW run \in 1..StudyRuns, Released(s, run)
    PROVE  \E entry \in Row, fence \in Gate :
               /\ entry.run = lease[s].run /\ entry.lock = "none"
               /\ lease' = [lease EXCEPT ![s] = entry] /\ gate' = [gate EXCEPT ![s] = fence]
<1> DEFINE entry == [[lease[s] EXCEPT !.until = 0] EXCEPT !.lock = "none"]
           fence == IF gate[s].run = run THEN [run |-> 0, until |-> 0] ELSE gate[s]
<1>1. lease[s] \in Row /\ gate[s] \in Gate /\ gate \in [Studies -> Gate]
    BY RowsAre DEF Row, Gate, StudyTypes
<1>2. entry \in Row /\ entry.run = lease[s].run /\ entry.lock = "none"
    BY <1>1 DEF Row
<1>3. fence \in Gate
    BY <1>1, StudyNumbers DEF Gate
<1>4. lease' = [lease EXCEPT ![s] = entry] /\ gate' = [gate EXCEPT ![s] = fence]
    BY <1>1 DEF Released
<1> HIDE DEF entry, fence
<1> QED
    BY <1>2, <1>3, <1>4

LEMMA FailStudyKeeps ==
    ASSUME StudyIInv, NEW w \in StudyWorkers, FailStudy(w)
    PROVE  StudyIInv'
<1>1. StudyTypes
    BY DEF StudyIInv
<1>2. /\ reader[w] # Idler /\ reader' = [reader EXCEPT ![w] = Idler]
      /\ studyNow' = studyNow /\ attempted' = attempted /\ cohortLedger' = cohortLedger /\ cell' = cell
    BY <1>1, ReaderIs DEF FailStudy, Idler
<1>3. PICK s \in Studies, run \in 1..StudyRuns : s = reader[w].study /\ run = reader[w].run
    BY <1>1, <1>2, ReaderIs
<1>4. CASE UNCHANGED <<lease, gate>>
    BY <1>2, <1>4, GivesUp
<1>5. CASE Live(s, run) /\ Released(s, run)
    <2>1. PICK entry \in Row, fence \in Gate :
               /\ entry.run = lease[s].run
               /\ lease' = [lease EXCEPT ![s] = entry] /\ gate' = [gate EXCEPT ![s] = fence]
        BY <1>1, <1>5, ReleasedIs
    <2>2. Moves(w, s, run, entry, fence, Idler)
        BY <1>1, <1>2, <1>3, <1>5, <2>1 DEF Moves, Idler, Live, StudyTypes
    <2>3. KeepsItsFences(w, s, run, entry, fence, Idler)
        BY DEF KeepsItsFences
    <2>4. Idler \in Reading \cup {Idler}
        OBVIOUS
    <2> QED
        BY <2>2, <2>3, <2>4, ReaderMoves
<1> QED
    BY <1>3, <1>4, <1>5 DEF FailStudy

\* A reading that waits for its finalizer keeps what it came with.
LEMMA StaysAsLongAs ==
    ASSUME StudyIInv, NEW w \in StudyWorkers, reader[w].stage \in {"read", "locked"},
           NEW r \in Finding, r.study = reader[w].study, r.run = reader[w].run,
           r.since = reader[w].since, r.prompt = reader[w].prompt,
           NEW entry \in Row, entry.run = lease[reader[w].study].run,
           entry.until = lease[reader[w].study].until,
           r.stage = "locked" => entry.lock = w /\ entry.run = r.run
    PROVE  KeepsItsFences(w, reader[w].study, reader[w].run, entry, gate[reader[w].study], r)
<1>1. StudyTypes /\ FencesHold
    BY DEF StudyIInv
<1>2. reader[w] \in Finding /\ reader[w].study \in Studies
    BY <1>1, ReaderIs DEF Finding
<1>3. Margin(r.stage) = Margin(reader[w].stage) /\ r.stage \in {"read", "locked"}
    BY DEF Margin, Finding
<1>4. ASSUME Timely(r) PROVE FencedBy(r, entry, gate[reader[w].study])
    <2>1. Timely(reader[w])
        BY <1>3, <1>4 DEF Timely
    <2>2. Fences(reader[w])
        BY <1>1, <2>1 DEF FencesHold
    <2> QED
        BY <1>3, <2>2 DEF Fences, FencedBy
<1>5. r.since <= studyNow
    BY <1>1 DEF FencesHold
<1> QED
    BY <1>3, <1>4, <1>5 DEF KeepsItsFences

LEMMA LockStudyKeeps ==
    ASSUME StudyIInv, NEW w \in StudyWorkers, LockStudy(w)
    PROVE  StudyIInv'
<1>1. StudyTypes
    BY DEF StudyIInv
<1>2. /\ reader[w].stage = "read" /\ UNCHANGED <<studyNow, gate, attempted, cohortLedger, cell>>
      /\ reader[w] # Idler
    BY <1>1, ReaderIs DEF LockStudy, Idler
<1>3. PICK s \in Studies, run \in 1..StudyRuns : s = reader[w].study /\ run = reader[w].run
    BY <1>1, <1>2, ReaderIs
<1>4. lease[s] \in Row /\ gate[s] \in Gate /\ reader[w] \in Finding
    BY <1>1, <1>2, RowsAre, ReaderIs DEF Row, Gate
<1>5. CASE /\ Holds(s, run) /\ lease' = [lease EXCEPT ![s].lock = w]
           /\ reader' = [reader EXCEPT ![w].stage = "locked"]
    <2> DEFINE entry == [lease[s] EXCEPT !.lock = w]
               r == [reader[w] EXCEPT !.stage = "locked"]
    <2>1. entry \in Row /\ entry.run = lease[s].run /\ entry.until = lease[s].until /\ entry.lock = w
        BY <1>4 DEF Row
    <2>2. /\ r \in Finding /\ r.study = reader[w].study /\ r.run = reader[w].run
          /\ r.since = reader[w].since /\ r.prompt = reader[w].prompt /\ r.stage = "locked"
        BY <1>4 DEF Finding
    <2>3. lease[s].run = run
        BY <1>5 DEF Holds, Live
    <2>4. /\ lease' = [lease EXCEPT ![s] = entry] /\ gate' = [gate EXCEPT ![s] = gate[s]]
          /\ reader' = [reader EXCEPT ![w] = r] /\ attempted' \in [Studies -> -1..StudyEnd]
        BY <1>1, <1>2, <1>5 DEF StudyTypes
    <2> HIDE DEF entry, r
    <2>5. Moves(w, s, run, entry, gate[s], r)
        BY <1>2, <1>3, <2>1, <2>2, <2>3, <2>4 DEF Moves
    <2>6. KeepsItsFences(w, s, run, entry, gate[s], r)
        BY <1>2, <1>3, <2>1, <2>2, <2>3, StaysAsLongAs
    <2>7. r \in Reading \cup {Idler}
        BY <2>2 DEF Reading
    <2> QED
        BY <1>4, <2>1, <2>5, <2>6, <2>7, ReaderMoves
<1>6. CASE reader' = [reader EXCEPT ![w] = Idler] /\ UNCHANGED lease
    BY <1>2, <1>6, GivesUp
<1>7. CASE reader' = [reader EXCEPT ![w].refused = TRUE] /\ UNCHANGED lease
    <2> DEFINE r == [reader[w] EXCEPT !.refused = TRUE]
    <2>1. /\ r \in Finding /\ r.study = reader[w].study /\ r.run = reader[w].run
          /\ r.since = reader[w].since /\ r.prompt = reader[w].prompt /\ r.stage = "read"
        BY <1>2, <1>4 DEF Finding
    <2>2. /\ lease' = [lease EXCEPT ![s] = lease[s]] /\ gate' = [gate EXCEPT ![s] = gate[s]]
          /\ reader' = [reader EXCEPT ![w] = r] /\ attempted' \in [Studies -> -1..StudyEnd]
        BY <1>1, <1>2, <1>7 DEF StudyTypes
    <2> HIDE DEF r
    <2>3. Moves(w, s, run, lease[s], gate[s], r)
        BY <1>2, <1>3, <2>1, <2>2 DEF Moves
    <2>4. KeepsItsFences(w, s, run, lease[s], gate[s], r)
        BY <1>2, <1>3, <1>4, <2>1, StaysAsLongAs
    <2>5. r \in Reading \cup {Idler}
        BY <2>1 DEF Reading
    <2> QED
        BY <1>4, <2>3, <2>4, <2>5, ReaderMoves
<1> QED
    BY <1>3, <1>5, <1>6, <1>7 DEF LockStudy

LEMMA AbortedKeeps ==
    ASSUME StudyIInv, NEW w \in StudyWorkers, reader[w].stage = "locked", Aborted(w),
           UNCHANGED <<studyNow, gate, attempted, cohortLedger, cell>>
    PROVE  StudyIInv'
<1>1. StudyTypes /\ LocksAreHeld
    BY DEF StudyIInv
<1>2. reader[w] # Idler /\ reader[w] \in Finding
    BY <1>1, ReaderIs DEF Idler
<1>3. PICK s \in Studies, run \in 1..StudyRuns : s = reader[w].study /\ run = reader[w].run
    BY <1>1, <1>2, ReaderIs
<1>4. lease[s] \in Row /\ gate[s] \in Gate /\ lease[s].run = run
    BY <1>1, <1>3, RowsAre DEF Row, Gate, LocksAreHeld
<1> DEFINE entry == [lease[s] EXCEPT !.lock = "none"]
           r == [[reader[w] EXCEPT !.stage = "read"] EXCEPT !.refused = TRUE]
<1>5. entry \in Row /\ entry.run = lease[s].run /\ entry.until = lease[s].until
    BY <1>4 DEF Row
<1>6. /\ r \in Finding /\ r.study = reader[w].study /\ r.run = reader[w].run
      /\ r.since = reader[w].since /\ r.prompt = reader[w].prompt /\ r.stage = "read"
    BY <1>2 DEF Finding
<1>7. /\ lease' = [lease EXCEPT ![s] = entry] /\ gate' = [gate EXCEPT ![s] = gate[s]]
      /\ reader' = [reader EXCEPT ![w] = r] /\ attempted' \in [Studies -> -1..StudyEnd]
    BY <1>1, <1>3 DEF Aborted, StudyTypes
<1> HIDE DEF entry, r
<1>8. Moves(w, s, run, entry, gate[s], r)
    BY <1>2, <1>3, <1>4, <1>5, <1>6, <1>7 DEF Moves
<1>9. KeepsItsFences(w, s, run, entry, gate[s], r)
    BY <1>3, <1>5, <1>6, StaysAsLongAs
<1>10. r \in Reading \cup {Idler}
    BY <1>6 DEF Reading
<1> QED
    BY <1>4, <1>5, <1>8, <1>9, <1>10, ReaderMoves

\* A transaction that has the country's lock counts all that was committed.
LEMMA WriteStudyKeeps ==
    ASSUME StudyIInv, NEW w \in StudyWorkers, WriteStudy(w)
    PROVE  StudyIInv'
<1>1. /\ StudyTypes /\ RunsAreOwn /\ LocksAreHeld /\ RecordsArePast /\ WritersTakeTurns
      /\ CellCountsCohort
    BY DEF StudyIInv
<1>2. /\ reader[w].stage = "locked" /\ CountryFree(reader[w].study)
      /\ UNCHANGED <<studyNow, gate, attempted, cohortLedger, cell>>
    BY DEF WriteStudy
<1>3. CASE Aborted(w)
    BY <1>2, <1>3, AbortedKeeps
<1>4. CASE /\ reader' = [reader EXCEPT ![w] =
                [stage |-> "writing", study |-> reader[w].study, run |-> reader[w].run,
                 title |-> reader[w].title, at |-> studyNow,
                 cell |-> Published(Cohort(reader[w].study, Today))]]
           /\ UNCHANGED lease
    <2>1. reader[w] # Idler /\ reader[w] \in Finding
        BY <1>1, <1>2, ReaderIs DEF Idler
    <2>2. PICK s \in Studies, run \in 1..StudyRuns : s = reader[w].study /\ run = reader[w].run
        BY <1>1, <2>1, ReaderIs
    <2>3. lease[s].run = run /\ lease[s].lock = w /\ lease[s].run \in Nat
        BY <1>1, <1>2, <2>2, RowsAre DEF LocksAreHeld
    <2>4. studyNow \in 0..StudyEnd /\ reader[w].title \in {"reviewed", "edited"}
        BY <1>1, <2>1 DEF StudyTypes, Finding
    <2> DEFINE counted == Published(Cohort(s, Today))
               r == [stage |-> "writing", study |-> s, run |-> run,
                     title |-> reader[w].title, at |-> studyNow, cell |-> counted]
    <2>5. counted \in StudyCell
        <3>1. Cohort(s, Today) \in SUBSET Studies
            BY DEF Cohort
        <3> QED
            BY <3>1, PublishedIsCell
    <2>6. r \in Writing /\ r # Idler /\ r.stage = "writing" /\ r.study = s /\ r.run = run /\ r.at = studyNow
          /\ r.cell = counted
        <3> HIDE DEF counted
        <3> QED
            BY <2>4, <2>5 DEF Writing, Idler
    <2>7. reader' = [reader EXCEPT ![w] = r]
        BY <1>4, <2>2
    <2> HIDE DEF r
    <2>8. /\ reader'[w] = r /\ \A v \in StudyWorkers \ {w} : reader'[v] = reader[v]
        BY <1>1, <2>7 DEF StudyTypes
    <2>9. StudyTypes'
        <3>1. reader' \in [StudyWorkers -> Reading \cup {Idler}]
            BY <1>1, <2>6, <2>7 DEF StudyTypes, Reading
        <3> QED
            BY <1>1, <1>2, <1>4, <3>1 DEF StudyTypes
    <2>10. RunsAreOwn' /\ LocksAreHeld' /\ FencesHold'
        <3>1. Alone(w, s)
            BY <1>2, <1>4, <2>3, <2>8 DEF Alone
        <3>2. OnItsOwn(w, s)
            BY <1>2, <1>4 DEF OnItsOwn
        <3>3. ~ (Timely(reader[w])')
            BY <2>6, <2>8 DEF Timely
        <3>4. \A v \in StudyWorkers \ {w} : reader[v] # Idler /\ reader[v].study = s => reader[v].run # run
            BY <1>1, <2>1, <2>2 DEF RunsAreOwn
        <3>5. InPlace(w, s, run)
            BY <1>4, <2>3, <2>6, <2>8, <3>3, <3>4 DEF InPlace
        <3> QED
            BY <3>1, <3>2, <3>5, StudyStep
    <2>11. RecordsArePast' /\ CellCountsCohort'
        BY <1>1, <1>2 DEF RecordsArePast, CellCountsCohort, Today
    <2>12. WritersTakeTurns'
        <3>1. ASSUME NEW v \in StudyWorkers, reader'[v].stage = "writing"
              PROVE  /\ reader'[v].at <= studyNow'
                     /\ cohortLedger'[reader'[v].study] # Unrecorded =>
                           cohortLedger'[reader'[v].study].last <= reader'[v].at
            <4>1. CASE v = w
                <5>1. studyNow <= studyNow
                    BY <2>4
                <5>2. cohortLedger[s] # Unrecorded => cohortLedger[s].last <= studyNow
                    BY <1>1 DEF RecordsArePast
                <5> QED
                    BY <1>2, <2>6, <2>8, <4>1, <5>1, <5>2
            <4>2. CASE v # w
                BY <1>1, <1>2, <2>8, <3>1, <4>2 DEF WritersTakeTurns
            <4> QED
                BY <4>1, <4>2
        <3>2. ASSUME WritesCell(w)', NEW v \in StudyWorkers \ {w}, WritesCell(v)'
              PROVE  Country[reader'[v].study] # Country[s]
            <4>1. reader[v].stage = "writing" /\ reader[v].study \notin CoverageStudies /\ s \notin CoverageStudies
                BY <2>6, <2>8, <3>2 DEF WritesCell
            <4> QED
                BY <1>2, <2>2, <2>8, <4>1 DEF CountryFree
        <3>3. ASSUME WritesCell(w)' PROVE CountsAll(reader[w])'
            <4>1. r.cell = Published(Cohort(r.study, r.at \div DayLength))
                BY <2>6 DEF Today
            <4>2. \A q \in Studies \ CoverageStudies :
                      Country[q] = Country[r.study] /\ cohortLedger[q] # Unrecorded => cohortLedger[q].last <= r.at
                BY <1>1, <2>6 DEF RecordsArePast
            <4>3. \A d \in Days : r.at \div DayLength < d => cell[Country[r.study]][d] = NoCell
                BY <1>1, <2>6 DEF RecordsArePast, Today, Countries
            <4>4. CountsAll(r)
                BY <4>1, <4>2, <4>3 DEF CountsAll
            <4> QED
                BY <1>2, <2>8, <4>4 DEF CountsAll, Cohort
        <3>4. ASSUME NEW u \in StudyWorkers \ {w}, WritesCell(u)'
              PROVE  WritesCell(u) /\ reader'[u] = reader[u] /\ CountsAll(reader[u])'
            <4>1. WritesCell(u) /\ reader'[u] = reader[u]
                BY <2>8, <3>4 DEF WritesCell
            <4>2. CountsAll(reader[u])
                BY <1>1, <4>1 DEF WritersTakeTurns
            <4> QED
                BY <1>2, <4>1, <4>2 DEF CountsAll, Cohort
        <3>5. ASSUME NEW u \in StudyWorkers, WritesCell(u)', NEW v \in StudyWorkers, WritesCell(v)',
                     Country[reader'[v].study] = Country[reader'[u].study]
              PROVE  v = u
            <4>1. reader'[w].study = s
                BY <2>6, <2>8
            <4>2. CASE u # w /\ v # w
                BY <1>1, <3>4, <3>5, <4>2 DEF WritersTakeTurns
            <4>3. CASE u = w
                BY <3>2, <3>5, <4>1, <4>3
            <4>4. CASE v = w
                BY <3>2, <3>5, <4>1, <4>4
            <4> QED
                BY <4>2, <4>3, <4>4
        <3> QED
            BY <3>1, <3>3, <3>4, <3>5 DEF WritersTakeTurns
    <2> QED
        BY <2>9, <2>10, <2>11, <2>12 DEF StudyIInv
<1> QED
    BY <1>3, <1>4 DEF WriteStudy

LEMMA ReaderDiesKeeps ==
    ASSUME StudyIInv, NEW w \in StudyWorkers, ReaderDies(w)
    PROVE  StudyIInv'
<1>1. StudyTypes /\ LocksAreHeld
    BY DEF StudyIInv
<1>2. /\ reader[w] # Idler /\ reader' = [reader EXCEPT ![w] = Idler]
      /\ UNCHANGED <<studyNow, gate, attempted, cohortLedger, cell>>
    BY DEF ReaderDies
<1>3. PICK s \in Studies, run \in 1..StudyRuns : s = reader[w].study /\ run = reader[w].run
    BY <1>1, <1>2, ReaderIs
<1>4. CASE UNCHANGED lease
    BY <1>2, <1>4, GivesUp
<1>5. CASE /\ reader[w].stage \in {"locked", "writing"}
           /\ lease' = [lease EXCEPT ![s].lock = "none"]
    <2> DEFINE entry == [lease[s] EXCEPT !.lock = "none"]
    <2>1. lease[s] \in Row /\ gate[s] \in Gate /\ lease[s].run = run
        BY <1>1, <1>3, <1>5, RowsAre DEF Row, Gate, LocksAreHeld
    <2>2. entry \in Row /\ entry.run = lease[s].run
        BY <2>1 DEF Row
    <2>3. lease' = [lease EXCEPT ![s] = entry] /\ gate' = [gate EXCEPT ![s] = gate[s]]
          /\ attempted' \in [Studies -> -1..StudyEnd]
        BY <1>1, <1>2, <1>5 DEF StudyTypes
    <2> HIDE DEF entry
    <2>4. Moves(w, s, run, entry, gate[s], Idler)
        BY <1>2, <1>3, <2>1, <2>2, <2>3 DEF Moves, Idler
    <2>5. KeepsItsFences(w, s, run, entry, gate[s], Idler) /\ Idler \in Reading \cup {Idler}
        BY DEF KeepsItsFences
    <2> QED
        BY <2>1, <2>2, <2>4, <2>5, ReaderMoves
<1> QED
    BY <1>3, <1>4, <1>5 DEF ReaderDies

LEMMA StudyTickKeeps ==
    ASSUME StudyIInv, StudyTick
    PROVE  StudyIInv'
<1>1. /\ StudyTypes /\ RunsAreOwn /\ LocksAreHeld /\ FencesHold
      /\ RecordsArePast /\ WritersTakeTurns /\ CellCountsCohort
    BY DEF StudyIInv
<1>2. /\ studyNow < StudyEnd /\ studyNow' = studyNow + 1
      /\ \A w \in StudyWorkers : reader[w].stage \in {"robots", "page"} =>
            studyNow < reader[w].since + FetchTime
      /\ lease' = lease /\ gate' = gate /\ attempted' = attempted /\ reader' = reader
      /\ cohortLedger' = cohortLedger /\ cell' = cell
    BY DEF StudyTick
<1>3. /\ studyNow \in 0..StudyEnd /\ studyNow' \in 0..StudyEnd /\ studyNow \in Nat /\ studyNow' \in Nat
      /\ studyNow <= studyNow'
    BY <1>1, <1>2, StudyNumbers DEF StudyTypes
<1>4. StudyTypes' /\ RunsAreOwn' /\ LocksAreHeld'
    BY <1>1, <1>2, <1>3 DEF StudyTypes, RunsAreOwn, LocksAreHeld
<1>5. FencesHold'
    <2> SUFFICES ASSUME NEW w \in StudyWorkers
                 PROVE  /\ reader[w].stage \in {"granted", "read", "locked"} => reader[w].since <= studyNow'
                        /\ reader[w].stage \in {"robots", "page"} => studyNow' <= reader[w].since + FetchTime
                        /\ Timely(reader[w])' => Fences(reader[w])
        BY <1>2 DEF FencesHold, Fences
    <2>1. CASE reader[w].stage \in {"granted", "robots", "waiting", "page", "read", "locked"}
        <3>1. reader[w].since \in Nat
            <4>1. reader[w] \in Underway \/ reader[w] \in Finding
                BY <1>1, <2>1, ReaderIs
            <4> QED
                BY <4>1 DEF Underway, Finding
        <3>2. reader[w].stage \in {"granted", "read", "locked"} => reader[w].since <= studyNow
            BY <1>1 DEF FencesHold
        <3>3. Timely(reader[w])' => Timely(reader[w])
            BY <1>2, <1>3, <3>1, <3>2, StudyNumbers DEF Timely
        <3>4. Timely(reader[w]) => Fences(reader[w])
            BY <1>1 DEF FencesHold
        <3> QED
            BY <1>2, <1>3, <3>1, <3>2, <3>3, <3>4, StudyNumbers
    <2>2. CASE reader[w].stage \notin {"granted", "robots", "waiting", "page", "read", "locked"}
        BY <1>2, <2>2 DEF Timely
    <2> QED
        BY <2>1, <2>2
<1>6. RecordsArePast'
    <2>1. ASSUME NEW s \in Studies, cohortLedger[s] # Unrecorded
          PROVE  cohortLedger[s].first <= cohortLedger[s].last /\ cohortLedger[s].last <= studyNow'
        <3>1. cohortLedger[s] \in StudyRecord
            BY <1>1, <2>1 DEF StudyTypes
        <3>2. cohortLedger[s].last \in Nat
            BY <3>1 DEF StudyRecord
        <3>3. cohortLedger[s].first <= cohortLedger[s].last /\ cohortLedger[s].last <= studyNow
            BY <1>1, <2>1 DEF RecordsArePast
        <3> QED
            BY <1>3, <3>2, <3>3
    <2>2. ASSUME NEW c \in Countries, NEW d \in Days, studyNow' \div DayLength < d
          PROVE  cell[c][d] = NoCell
        <3>1. studyNow \div DayLength <= studyNow' \div DayLength
            BY <1>3, DaysOf
        <3>2. studyNow \div DayLength \in Nat /\ studyNow' \div DayLength \in Nat /\ d \in Nat
            BY <1>3, DaysOf
        <3> QED
            BY <1>1, <2>2, <3>1, <3>2 DEF RecordsArePast, Today
    <2> QED
        BY <1>2, <2>1, <2>2 DEF RecordsArePast, Today
<1>7. WritersTakeTurns'
    <2>1. \A w \in StudyWorkers : WritesCell(w)' <=> WritesCell(w)
        BY <1>2 DEF WritesCell
    <2>2. ASSUME NEW w \in StudyWorkers, CountsAll(reader[w]) PROVE CountsAll(reader[w])'
        BY <1>2, <2>2 DEF CountsAll, Cohort
    <2>3. ASSUME NEW w \in StudyWorkers, reader[w].stage = "writing"
          PROVE  reader[w].at <= studyNow'
        <3>1. reader[w] \in Writing
            BY <1>1, <2>3, ReaderIs
        <3>2. reader[w].at \in Nat /\ reader[w].at <= studyNow
            BY <1>1, <2>3, <3>1 DEF WritersTakeTurns, Writing
        <3> QED
            BY <1>3, <3>2
    <2> QED
        BY <1>1, <1>2, <2>1, <2>2, <2>3 DEF WritersTakeTurns
<1>8. CellCountsCohort'
    BY <1>1, <1>2 DEF CellCountsCohort
<1> QED
    BY <1>4, <1>5, <1>6, <1>7, <1>8 DEF StudyIInv

LEMMA StudyInitial == StudyInit => StudyIInv
<1> SUFFICES ASSUME StudyInit PROVE StudyIInv
    OBVIOUS
<1>1. /\ studyNow = 0 /\ reader = [w \in StudyWorkers |-> Idler]
      /\ lease = [s \in Studies |-> [run |-> 0, until |-> 0, lock |-> "none"]]
      /\ gate = [s \in Studies |-> [run |-> 0, until |-> 0]]
      /\ attempted = [s \in Studies |-> -1] /\ cohortLedger = [s \in Studies |-> Unrecorded]
      /\ cell = [c \in Countries |-> [d \in Days |-> NoCell]]
    BY DEF StudyInit
<1>2. NoCell \in StudyCell
    BY DEF NoCell, StudyCell
<1>3. StudyTypes
    <2>1. 0 \in 0..StudyEnd /\ 0 \in 0..StudyRuns /\ -1 \in -1..StudyEnd
        BY StudyNumbers
    <2> QED
        BY <1>1, <1>2, <2>1 DEF StudyTypes
<1>4. \A w \in StudyWorkers : reader[w] = Idler /\ reader[w].stage = "idle"
    BY <1>1 DEF Idler
<1>5. RunsAreOwn /\ LocksAreHeld /\ FencesHold
    BY <1>4 DEF RunsAreOwn, LocksAreHeld, FencesHold, Timely
<1>6. RecordsArePast /\ WritersTakeTurns /\ CellCountsCohort
    <2>1. \A s \in Studies : cohortLedger[s] = Unrecorded
        BY <1>1
    <2>2. \A c \in Countries, d \in Days : cell[c][d] = NoCell
        BY <1>1
    <2>3. CellCountsCohort
        BY <2>1, <2>2 DEF CellCountsCohort
    <2> QED
        BY <1>4, <2>1, <2>2, <2>3 DEF RecordsArePast, WritersTakeTurns, WritesCell
<1> QED
    BY <1>3, <1>5, <1>6 DEF StudyIInv

\* What a commit records: the time it was verified last.
LEMMA CommitIs ==
    ASSUME StudyIInv, NEW w \in StudyWorkers, CommitStudy(w),
           NEW s, s = reader[w].study, NEW at, at = reader[w].at
    PROVE  /\ reader[w] \in Writing /\ reader[w] # Idler /\ s \in Studies /\ at \in 0..StudyEnd
           /\ cohortLedger'[s] \in StudyRecord /\ cohortLedger'[s] # Unrecorded
           /\ cohortLedger'[s].last = at /\ cohortLedger'[s].first <= at
           /\ cohortLedger'[s].first = (IF cohortLedger[s] # Unrecorded THEN cohortLedger[s].first ELSE at)
           /\ cohortLedger' \in [Studies -> StudyRecord \cup {Unrecorded}]
           /\ \A q \in Studies \ {s} : cohortLedger'[q] = cohortLedger[q]
<1> DEFINE old == cohortLedger[s]
           again == [old EXCEPT !.last = at]
           first == [title |-> reader[w].title, first |-> at, last |-> at]
<1>1. StudyTypes /\ RecordsArePast /\ WritersTakeTurns
    BY DEF StudyIInv
<1>2. reader[w].stage = "writing"
    BY DEF CommitStudy
<1>3. reader[w] \in Writing /\ reader[w] # Idler
    BY <1>1, <1>2, ReaderIs DEF Idler
<1>4. s \in Studies /\ at \in 0..StudyEnd /\ at \in Nat /\ reader[w].title \in {"reviewed", "edited"}
    BY <1>3 DEF Writing
<1>5. cohortLedger' = [cohortLedger EXCEPT ![s] = IF old # Unrecorded THEN again ELSE first]
    BY DEF CommitStudy
<1>6. cohortLedger \in [Studies -> StudyRecord \cup {Unrecorded}]
    BY <1>1 DEF StudyTypes
<1>7. ASSUME NEW r \in StudyRecord PROVE r # Unrecorded
    <2>1. r.title \in {"reviewed", "edited"}
        BY DEF StudyRecord
    <2> QED
        BY <2>1 DEF Unrecorded
<1>8. first \in StudyRecord /\ first.last = at /\ first.first = at
    BY <1>4 DEF StudyRecord
<1>9. ASSUME old # Unrecorded
      PROVE  again \in StudyRecord /\ again.last = at /\ again.first = old.first /\ old.first <= at
    <2>1. old \in StudyRecord
        BY <1>4, <1>6, <1>9
    <2>2. old.first \in Nat /\ old.last \in Nat
        BY <2>1 DEF StudyRecord
    <2>3. old.first <= old.last /\ old.last <= at
        BY <1>1, <1>2, <1>4, <1>9 DEF RecordsArePast, WritersTakeTurns
    <2>4. again \in StudyRecord /\ again.last = at /\ again.first = old.first
        BY <1>4, <2>1 DEF StudyRecord
    <2>5. old.first <= at
        BY <1>4, <2>2, <2>3
    <2> QED
        BY <2>4, <2>5
<1>10. at <= at
    BY <1>4
<1> HIDE DEF old, again, first
<1>11. cohortLedger'[s] = IF old # Unrecorded THEN again ELSE first
    BY <1>4, <1>5, <1>6
<1>12. /\ cohortLedger'[s] \in StudyRecord /\ cohortLedger'[s].last = at /\ cohortLedger'[s].first <= at
       /\ cohortLedger'[s].first = (IF old # Unrecorded THEN old.first ELSE at)
    BY <1>8, <1>9, <1>10, <1>11
<1>13. cohortLedger'[s] # Unrecorded
    BY <1>7, <1>12
<1>14. /\ cohortLedger' \in [Studies -> StudyRecord \cup {Unrecorded}]
       /\ \A q \in Studies \ {s} : cohortLedger'[q] = cohortLedger[q]
    <2>1. (IF old # Unrecorded THEN again ELSE first) \in StudyRecord \cup {Unrecorded}
        BY <1>8, <1>9
    <2> QED
        BY <1>4, <1>5, <1>6, <2>1
<1> QED
    BY <1>3, <1>4, <1>12, <1>13, <1>14 DEF old

\* The cells of a country after a transaction that took its lock.
LEMMA CommitCounts ==
    ASSUME StudyIInv, NEW w \in StudyWorkers, CommitStudy(w), reader[w].study \notin CoverageStudies
    PROVE  CellCountsCohort'
<1>1. /\ StudyTypes /\ RecordsArePast /\ WritersTakeTurns /\ CellCountsCohort
    BY DEF StudyIInv
<1>2. reader[w].stage = "writing"
    BY DEF CommitStudy
<1>3. PICK s \in Studies, at \in 0..StudyEnd : s = reader[w].study /\ at = reader[w].at
    BY CommitIs
<1> DEFINE day == at \div DayLength
<1>4. /\ cohortLedger'[s] \in StudyRecord /\ cohortLedger'[s] # Unrecorded
      /\ cohortLedger'[s].last = at /\ cohortLedger'[s].first <= at
      /\ cohortLedger'[s].first = (IF cohortLedger[s] # Unrecorded THEN cohortLedger[s].first ELSE at)
      /\ \A q \in Studies \ {s} : cohortLedger'[q] = cohortLedger[q]
    BY <1>3, CommitIs
<1>5. /\ reader[w].cell = Published(Cohort(s, day))
      /\ \A q \in Studies \ CoverageStudies :
            Country[q] = Country[s] /\ cohortLedger[q] # Unrecorded => cohortLedger[q].last <= at
      /\ \A d \in Days : day < d => cell[Country[s]][d] = NoCell
    BY <1>1, <1>2, <1>3 DEF WritersTakeTurns, WritesCell, CountsAll
<1>6. day \in Days /\ Country[s] \in Countries /\ s \notin CoverageStudies
    BY <1>3, DaysOf DEF Countries
<1>7. cell' = [cell EXCEPT ![Country[s]][day] = reader[w].cell]
    BY <1>3 DEF CommitStudy
<1>8. cell \in [Countries -> [Days -> StudyCell]]
    BY <1>1 DEF StudyTypes
<1>9. /\ cell'[Country[s]][day] = reader[w].cell
      /\ \A c \in Countries, d \in Days : c # Country[s] \/ d # day => cell'[c][d] = cell[c][d]
    BY <1>6, <1>7, <1>8
\* When the records of the country are from, the new one among them.
<1>10. ASSUME NEW q \in Studies, q \notin CoverageStudies, Country[q] = Country[s],
              cohortLedger'[q] # Unrecorded
       PROVE  /\ cohortLedger'[q].first \div DayLength \in Nat
              /\ cohortLedger'[q].first \div DayLength <= day
              /\ cohortLedger'[q].last \div DayLength \in Nat
              /\ cohortLedger'[q].last \div DayLength <= day
    <2>1. cohortLedger'[q] \in StudyRecord
        BY <1>1, <1>4, <1>10 DEF StudyTypes
    <2>2. cohortLedger'[q].first \in 0..StudyEnd /\ cohortLedger'[q].last \in 0..StudyEnd
        BY <2>1 DEF StudyRecord
    <2>3. cohortLedger'[q].last <= at
        <3>1. CASE q = s
            BY <1>4, <3>1
        <3>2. CASE q # s
            BY <1>4, <1>5, <1>10, <3>2
        <3> QED
            BY <3>1, <3>2
    <2>4. cohortLedger'[q].first <= at
        <3>1. CASE q = s
            BY <1>4, <3>1
        <3>2. CASE q # s
            <4>1. cohortLedger'[q].first <= cohortLedger'[q].last
                BY <1>1, <1>4, <1>10, <3>2 DEF RecordsArePast
            <4> QED
                BY <2>2, <2>3, <4>1
        <3> QED
            BY <3>1, <3>2
    <2> QED
        BY <2>2, <2>3, <2>4, DaysOf
<1>11. cohortLedger'[s].first \div DayLength \in Nat /\ day \in Nat
    BY <1>3, <1>4, <1>6, <1>10, DaysOf
<1> HIDE DEF day
<1> DEFINE Rows(c, d) == {q \in Studies \ CoverageStudies :
                              /\ Country[q] = c /\ cohortLedger[q] # Unrecorded
                              /\ cohortLedger[q].first \div DayLength <= d}
           New(c, d) == {q \in Studies \ CoverageStudies :
                              /\ Country[q] = c /\ cohortLedger'[q] # Unrecorded
                              /\ cohortLedger'[q].first \div DayLength <= d}
           Fit(rows, d) == {q \in rows : ObservedOn[q] \in (d - Period + 1)..d}
<1>12. ASSUME NEW c \in Countries, NEW d \in Days
       PROVE  \/ cell[c][d] = Published(Fit(Rows(c, d), d))
              \/ cell[c][d] = NoCell /\ \A q \in Rows(c, d) : cohortLedger[q].last \div DayLength # d
    BY <1>1 DEF CellCountsCohort
<1>13. SUFFICES ASSUME NEW c \in Countries, NEW d \in Days
                PROVE  \/ cell'[c][d] = Published(Fit(New(c, d), d))
                       \/ /\ cell'[c][d] = NoCell
                          /\ \A q \in New(c, d) : cohortLedger'[q].last \div DayLength # d
    BY DEF CellCountsCohort
<1>14. d \in Nat
    BY DaysOf
<1>15. CASE c # Country[s]
    <2>1. New(c, d) = Rows(c, d) /\ \A q \in Rows(c, d) : cohortLedger'[q] = cohortLedger[q]
        BY <1>4, <1>15
    <2> HIDE DEF New, Rows, Fit
    <2> QED
        BY <1>9, <1>12, <1>15, <2>1
<1>16. CASE c = Country[s] /\ d < day
    <2>1. cell'[c][d] = cell[c][d]
        BY <1>9, <1>11, <1>14, <1>16
    <2>2. cohortLedger[s] = Unrecorded => ~ (cohortLedger'[s].first \div DayLength <= d)
        BY <1>4, <1>11, <1>14, <1>16 DEF day
    <2>3. New(c, d) = Rows(c, d)
        BY <1>4, <2>2
    <2>4. ASSUME NEW q \in New(c, d), \A p \in Rows(c, d) : cohortLedger[p].last \div DayLength # d
          PROVE  cohortLedger'[q].last \div DayLength # d
        <3>1. CASE q = s
            BY <1>4, <1>11, <1>14, <1>16, <3>1 DEF day
        <3>2. CASE q # s
            BY <1>4, <2>3, <2>4, <3>2
        <3> QED
            BY <3>1, <3>2
    <2> HIDE DEF New, Rows, Fit
    <2> QED
        BY <1>12, <2>1, <2>3, <2>4
<1>17. CASE c = Country[s] /\ d = day
    <2>1. Cohort(s, day) = Fit(New(c, d), d)
        <3>1. ASSUME NEW q \in Studies \ CoverageStudies, Country[q] = Country[s]
              PROVE  (q = s \/ cohortLedger[q] # Unrecorded) <=>
                         /\ cohortLedger'[q] # Unrecorded
                         /\ cohortLedger'[q].first \div DayLength <= day
            <4>1. q = s \/ cohortLedger[q] # Unrecorded <=> cohortLedger'[q] # Unrecorded
                BY <1>4
            <4> QED
                BY <1>10, <3>1, <4>1
        <3> QED
            BY <1>17, <3>1 DEF Cohort
    <2> HIDE DEF New, Rows, Fit
    <2> QED
        BY <1>5, <1>9, <1>17, <2>1
<1>18. CASE c = Country[s] /\ day < d
    <2>1. cell'[c][d] = NoCell
        BY <1>5, <1>9, <1>11, <1>14, <1>18
    <2>2. \A q \in New(c, d) : cohortLedger'[q].last \div DayLength # d
        BY <1>10, <1>11, <1>14, <1>18
    <2> QED
        BY <2>1, <2>2
<1> QED
    BY <1>11, <1>14, <1>15, <1>16, <1>17, <1>18

\* Another transaction still counts all: it is of another country, or nothing
\* of its country was written.
LEMMA CommitLeavesOthers ==
    ASSUME StudyIInv, NEW w \in StudyWorkers, CommitStudy(w), NEW v \in StudyWorkers \ {w}, WritesCell(v)
    PROVE  CountsAll(reader[v])'
<1>1. StudyTypes /\ WritersTakeTurns
    BY DEF StudyIInv
<1>2. PICK s \in Studies, at \in 0..StudyEnd : s = reader[w].study /\ at = reader[w].at
    BY CommitIs
<1>3. reader[w].stage = "writing" /\ reader'[v] = reader[v]
    BY <1>1 DEF CommitStudy, StudyTypes
<1>4. PICK p \in Studies : p = reader[v].study
    BY <1>1, ReaderIs DEF WritesCell, Writing
<1>5. s \in CoverageStudies \/ Country[p] # Country[s]
    BY <1>1, <1>2, <1>3, <1>4 DEF WritersTakeTurns, WritesCell
<1>6. \A q \in Studies \ CoverageStudies : Country[q] = Country[p] => cohortLedger'[q] = cohortLedger[q]
    BY <1>2, <1>5, CommitIs
<1>7. \A d \in Days : cell'[Country[p]][d] = cell[Country[p]][d]
    <2>1. CASE s \in CoverageStudies
        BY <1>2, <2>1 DEF CommitStudy
    <2>2. CASE s \notin CoverageStudies /\ Country[p] # Country[s]
        <3>1. cell' = [cell EXCEPT ![Country[s]][at \div DayLength] = reader[w].cell]
            BY <1>2, <2>2 DEF CommitStudy
        <3>2. cell \in [Countries -> [Days -> StudyCell]] /\ Country[p] \in Countries
            BY <1>1 DEF StudyTypes, Countries
        <3> QED
            BY <2>2, <3>1, <3>2
    <2> QED
        BY <1>5, <2>1, <2>2
<1>8. CountsAll(reader[v])
    BY <1>1 DEF WritersTakeTurns
<1>9. PICK on : on = reader[v].at \div DayLength
    OBVIOUS
<1>10. Cohort(p, on)' = Cohort(p, on)
    BY <1>6 DEF Cohort
<1>11. PICK r : r = reader[v]
    OBVIOUS
<1>12. /\ r.cell = Published(Cohort(r.study, r.at \div DayLength)')
       /\ \A q \in Studies \ CoverageStudies :
             Country[q] = Country[r.study] /\ cohortLedger'[q] # Unrecorded => cohortLedger'[q].last <= r.at
       /\ \A d \in Days : r.at \div DayLength < d => cell'[Country[r.study]][d] = NoCell
    BY <1>4, <1>6, <1>7, <1>8, <1>9, <1>10, <1>11 DEF CountsAll
<1> QED
    BY <1>3, <1>11, <1>12 DEF CountsAll, Cohort

LEMMA CommitStudyKeeps ==
    ASSUME StudyIInv, NEW w \in StudyWorkers, CommitStudy(w)
    PROVE  StudyIInv'
<1>1. /\ StudyTypes /\ RunsAreOwn /\ LocksAreHeld /\ RecordsArePast /\ WritersTakeTurns
      /\ CellCountsCohort
    BY DEF StudyIInv
<1>2. /\ reader[w].stage = "writing" /\ Released(reader[w].study, reader[w].run)
      /\ reader' = [reader EXCEPT ![w] = Idler] /\ studyNow' = studyNow /\ attempted' = attempted
    BY DEF CommitStudy
<1>3. PICK s \in Studies, run \in 1..StudyRuns, at \in 0..StudyEnd :
          s = reader[w].study /\ run = reader[w].run /\ at = reader[w].at
    BY <1>1, CommitIs, ReaderIs
<1>4. /\ reader[w] \in Writing /\ reader[w] # Idler
      /\ cohortLedger' \in [Studies -> StudyRecord \cup {Unrecorded}]
      /\ cohortLedger'[s].last = at /\ cohortLedger'[s].first <= at
      /\ \A q \in Studies \ {s} : cohortLedger'[q] = cohortLedger[q]
    BY <1>3, CommitIs
<1>5. lease[s].run = run /\ lease[s].lock = w
    BY <1>1, <1>2, <1>3 DEF LocksAreHeld
<1>6. PICK entry \in Row, fence \in Gate :
          /\ entry.run = lease[s].run /\ entry.lock = "none"
          /\ lease' = [lease EXCEPT ![s] = entry] /\ gate' = [gate EXCEPT ![s] = fence]
    BY <1>1, <1>2, <1>3, ReleasedIs
<1>7. /\ reader'[w] = Idler /\ \A v \in StudyWorkers \ {w} : reader'[v] = reader[v]
      /\ lease'[s] = entry /\ \A q \in Studies \ {s} : lease'[q] = lease[q] /\ gate'[q] = gate[q]
    BY <1>1, <1>2, <1>6 DEF StudyTypes
<1>8. at <= studyNow /\ studyNow \in 0..StudyEnd /\ at \div DayLength \in Days /\ Country[s] \in Countries
    BY <1>1, <1>2, <1>3, DaysOf DEF WritersTakeTurns, StudyTypes, Countries
<1>9. /\ cell' \in [Countries -> [Days -> StudyCell]]
      /\ \A c \in Countries, d \in Days : Today < d => cell'[c][d] = NoCell
    <2>1. /\ cell \in [Countries -> [Days -> StudyCell]]
          /\ \A c \in Countries, d \in Days : Today < d => cell[c][d] = NoCell
        BY <1>1 DEF StudyTypes, RecordsArePast
    <2>2. CASE s \in CoverageStudies
        BY <1>3, <2>1, <2>2 DEF CommitStudy
    <2>3. CASE s \notin CoverageStudies
        <3>1. cell' = [cell EXCEPT ![Country[s]][at \div DayLength] = reader[w].cell]
            BY <1>3, <2>3 DEF CommitStudy
        <3>2. reader[w].cell \in StudyCell
            BY <1>4 DEF Writing
        <3>3. at \div DayLength <= Today /\ at \div DayLength \in Nat /\ Today \in Nat
            BY <1>8, DaysOf DEF Today
        <3>4. \A d \in Days : Today < d => d # at \div DayLength
            BY <3>3, DaysOf
        <3> QED
            BY <1>8, <2>1, <3>1, <3>2, <3>4
    <2> QED
        BY <2>2, <2>3
<1>10. StudyTypes'
    <2>1. lease' \in [Studies -> Row] /\ gate' \in [Studies -> Gate]
        BY <1>1, <1>6 DEF StudyTypes, Row, Gate
    <2>2. reader' \in [StudyWorkers -> Reading \cup {Idler}]
        BY <1>1, <1>2 DEF StudyTypes
    <2> QED
        BY <1>1, <1>2, <1>4, <1>9, <2>1, <2>2 DEF StudyTypes, Row, Gate
<1>11. RunsAreOwn' /\ LocksAreHeld' /\ FencesHold'
    <2>1. lease[s].run \in Nat
        BY <1>1, RowsAre
    <2>2. Alone(w, s)
        BY <1>2, <1>6, <1>7, <2>1 DEF Alone
    <2>3. \A v \in StudyWorkers \ {w} : reader[v] # Idler /\ reader[v].study = s =>
              ~ Timely(reader[v]) /\ reader[v].stage \notin {"locked", "writing"}
        BY <1>1, <1>3, <1>4, <1>5, OthersAreStale DEF StudyIInv
    <2>4. OnItsOwn(w, s) /\ InPlace(w, s, run)
        BY <1>7, <2>3 DEF OnItsOwn, InPlace
    <2> QED
        BY <2>2, <2>4, StudyStep
<1>12. RecordsArePast'
    <2>1. ASSUME NEW q \in Studies, cohortLedger'[q] # Unrecorded
          PROVE  cohortLedger'[q].first <= cohortLedger'[q].last /\ cohortLedger'[q].last <= studyNow
        <3>1. CASE q = s
            BY <1>4, <1>8, <3>1
        <3>2. CASE q # s
            BY <1>1, <1>4, <2>1, <3>2 DEF RecordsArePast
        <3> QED
            BY <3>1, <3>2
    <2> QED
        BY <1>2, <1>9, <2>1 DEF RecordsArePast, Today, Unrecorded, NoCell
<1>13. WritersTakeTurns'
    <2>1. \A v \in StudyWorkers : reader'[v].stage = "writing" => v # w /\ reader'[v] = reader[v]
        BY <1>7 DEF Idler
    <2>2. \A v \in StudyWorkers : WritesCell(v)' => WritesCell(v) /\ v # w /\ reader'[v] = reader[v]
        BY <2>1 DEF WritesCell
    <2>3. ASSUME NEW v \in StudyWorkers \ {w}, reader[v].stage = "writing"
          PROVE  /\ reader[v].at <= studyNow
                 /\ cohortLedger'[reader[v].study] # Unrecorded =>
                       cohortLedger'[reader[v].study].last <= reader[v].at
        <3>1. reader[v].study # s /\ reader[v].study \in Studies
            <4>1. reader[v].study \in Studies
                BY <1>1, <2>3, ReaderIs DEF Writing
            <4> QED
                BY <1>1, <1>5, <2>3, <4>1 DEF LocksAreHeld
        <3> QED
            BY <1>1, <1>4, <2>3, <3>1 DEF WritersTakeTurns
    <2>4. \A v \in StudyWorkers : WritesCell(v)' => CountsAll(reader[v])'
        BY <2>2, CommitLeavesOthers
    <2> QED
        BY <1>1, <1>2, <2>1, <2>2, <2>3, <2>4 DEF WritersTakeTurns, Unrecorded
<1>14. CellCountsCohort'
    <2>1. CASE s \notin CoverageStudies
        BY <1>3, <2>1, CommitCounts
    <2>2. CASE s \in CoverageStudies
        <3>1. cell' = cell /\ \A q \in Studies \ CoverageStudies : cohortLedger'[q] = cohortLedger[q]
            BY <1>3, <1>4, <2>2 DEF CommitStudy
        <3> DEFINE Rows(c, d) == {q \in Studies \ CoverageStudies :
                              /\ Country[q] = c /\ cohortLedger[q] # Unrecorded
                              /\ cohortLedger[q].first \div DayLength <= d}
        <3>2. ASSUME NEW c \in Countries, NEW d \in Days
              PROVE  /\ {q \in Studies \ CoverageStudies :
                              /\ Country[q] = c /\ cohortLedger'[q] # Unrecorded
                              /\ cohortLedger'[q].first \div DayLength <= d} = Rows(c, d)
                     /\ \A q \in Rows(c, d) : cohortLedger'[q].last = cohortLedger[q].last
            BY <3>1
        <3> QED
            BY <1>1, <3>1, <3>2 DEF CellCountsCohort
    <2> QED
        BY <2>1, <2>2
<1> QED
    BY <1>10, <1>11, <1>12, <1>13, <1>14 DEF StudyIInv

LEMMA StudyNextKeeps == StudyIInv /\ [StudyNext]_studyVars => StudyIInv'
<1> SUFFICES ASSUME StudyIInv, [StudyNext]_studyVars PROVE StudyIInv'
    OBVIOUS
<1>1. CASE UNCHANGED studyVars
    <2>1. StudyTypes' /\ RunsAreOwn' /\ LocksAreHeld'
        BY <1>1 DEF StudyIInv, StudyTypes, RunsAreOwn, LocksAreHeld, studyVars
    <2>2. FencesHold'
        BY <1>1 DEF StudyIInv, FencesHold, Timely, Fences, studyVars
    <2>3. RecordsArePast' /\ CellCountsCohort'
        BY <1>1 DEF StudyIInv, RecordsArePast, Today, CellCountsCohort, studyVars
    <2>4. WritersTakeTurns'
        <3>1. \A w \in StudyWorkers : WritesCell(w)' <=> WritesCell(w)
            BY <1>1 DEF WritesCell, studyVars
        <3>2. \A w \in StudyWorkers : CountsAll(reader[w])' <=> CountsAll(reader[w])
            BY <1>1 DEF CountsAll, Cohort, studyVars
        <3> QED
            BY <1>1, <3>1, <3>2 DEF StudyIInv, WritersTakeTurns, studyVars
    <2> QED
        BY <2>1, <2>2, <2>3, <2>4 DEF StudyIInv
<1>2. ASSUME NEW w \in StudyWorkers, NEW s \in Studies, ClaimStudy(w, s) PROVE StudyIInv'
    BY <1>2, ClaimStudyKeeps
<1>3. ASSUME NEW w \in StudyWorkers, StudyHeartbeat(w) \/ BeginStudy(w) \/ AskRobots(w) \/ RobotsAllow(w)
      PROVE  StudyIInv'
    BY <1>3, StudyHeartbeatKeeps, BeginStudyKeeps, AskRobotsKeeps, RobotsAllowKeeps
<1>4. ASSUME NEW w \in StudyWorkers, AskPage(w) \/ ReadPage(w) \/ FailStudy(w) \/ LockStudy(w)
      PROVE  StudyIInv'
    BY <1>4, AskPageKeeps, ReadPageKeeps, FailStudyKeeps, LockStudyKeeps
<1>5. ASSUME NEW w \in StudyWorkers, WriteStudy(w) \/ CommitStudy(w) \/ ReaderDies(w)
      PROVE  StudyIInv'
    BY <1>5, WriteStudyKeeps, CommitStudyKeeps, ReaderDiesKeeps
<1>6. CASE StudyTick
    BY <1>6, StudyTickKeeps
<1> QED
    BY <1>1, <1>2, <1>3, <1>4, <1>5, <1>6 DEF StudyNext

LEMMA StudyIInvGives == StudyIInv => StudyInv
<1> SUFFICES ASSUME StudyIInv PROVE StudyInv
    OBVIOUS
<1>1. StudyTypes /\ FencesHold /\ RecordsArePast /\ CellCountsCohort
    BY DEF StudyIInv
<1>2. StudyTypeOK
    <2>1. ASSUME NEW w \in StudyWorkers
          PROVE  reader[w].stage \in {"idle", "claimed", "granted", "robots", "waiting", "page", "read",
                                      "locked", "writing"}
        <3>1. reader[w] \in Reading \cup {Idler}
            BY <1>1 DEF StudyTypes
        <3> QED
            BY <3>1 DEF Reading, Claimed, Underway, Finding, Writing, Idler
    <2>2. ASSUME NEW s \in Studies, cohortLedger[s] # Unrecorded
          PROVE  /\ cohortLedger[s].title \in {"reviewed", "edited"}
                 /\ cohortLedger[s].first \in 0..cohortLedger[s].last
                 /\ cohortLedger[s].last <= studyNow
        <3>1. cohortLedger[s] \in StudyRecord
            BY <1>1, <2>2 DEF StudyTypes
        <3>2. cohortLedger[s].first <= cohortLedger[s].last /\ cohortLedger[s].last <= studyNow
            BY <1>1, <2>2 DEF RecordsArePast
        <3>3. /\ cohortLedger[s].title \in {"reviewed", "edited"}
              /\ cohortLedger[s].first \in Nat /\ cohortLedger[s].last \in Nat
            BY <3>1 DEF StudyRecord
        <3> QED
            BY <3>2, <3>3
    <2>3. \A c \in Countries, d \in Days : cell[c][d] \in [packs : Nat, openings : Nat, sources : Nat]
        BY <1>1 DEF StudyTypes, StudyCell
    <2> QED
        BY <1>1, <2>1, <2>2, <2>3 DEF StudyTypes, StudyTypeOK
<1>3. PromptReaderHoldsGate
    <2> SUFFICES ASSUME NEW w \in StudyWorkers,
                        reader[w].stage \in {"granted", "robots", "waiting", "page", "read"},
                        reader[w].prompt,
                        reader[w].stage \in {"granted", "read"} => studyNow = reader[w].since,
                        reader[w].stage = "waiting" => studyNow <= reader[w].since + FollowUp
                 PROVE  Holds(reader[w].study, reader[w].run)
        BY DEF PromptReaderHoldsGate
    <2>1. Timely(reader[w])
        BY DEF Timely
    <2> QED
        BY <1>1, <2>1, TimelyHolds
<1> QED
    BY <1>1, <1>2, <1>3 DEF StudyInv

(* A reading of a public study keeps its lease and its gate to the answer, *)
(* and no commit publishes a map cell that omits an observation committed  *)
(* before, however many workers, studies and countries there are, and      *)
(* however the days, the timeouts and the period are chosen.               *)
THEOREM CellsCountAll == StudySpec => []StudyInv
<1>1. StudyInit => StudyIInv
    BY StudyInitial
<1>2. StudyIInv /\ [StudyNext]_studyVars => StudyIInv'
    BY StudyNextKeeps
<1>3. StudyIInv => StudyInv
    BY StudyIInvGives
<1> QED
    BY <1>1, <1>2, <1>3, PTL DEF StudySpec

-------------------------------------------------------------------------------
(* The text of a page.  How deep the parser is in elements of a kind is    *)
(* the number of those open that should count, as long as none of them was *)
(* left unclosed; an unclosed one is counted for too long, never for too   *)
(* short.  A text is then judged by whether its counters are right.        *)

NotedOf(tags) == {j \in DOMAIN open : open[j] \in tags /\ Noted(j)}
Depth(tags) == Cardinality(NotedOf(tags))

HiddenClosed == ~ crossed /\ unclosed \cap HiddenTags = {}
AllClosed == ~ crossed /\ unclosed = {}

CountersFit ==
    /\ ~ crossed => Depth(HiddenTags) <= parser.hidden
    /\ HiddenClosed =>
          /\ parser.hidden = Depth(HiddenTags) /\ Depth(ContentTags) <= parser.content
          /\ Depth({"h1"}) <= parser.heading /\ Depth({"title"}) <= parser.titled
    /\ AllClosed =>
          /\ parser.content = Depth(ContentTags) /\ parser.heading = Depth({"h1"})
          /\ parser.titled = Depth({"title"})

\* The last piece comes after every end, unless white space does.
Sealed(s, ends) == s # <<>> /\ Last(s) # Break => \A e \in ends : e < Last(s)

\* s is what the parser made of a text, due what it should have.
Told(s, due, ends) ==
    /\ InOrder(s) /\ InOrder(due)
    /\ ~ crossed => veiled \cap Pieces(s) = {}
    /\ HiddenClosed => Pieces(due) \subseteq Pieces(s) /\ Apart(s, ends) /\ Sealed(s, ends)
    /\ AllClosed => Pieces(s) = Pieces(due)

Written == Seq(0..fed)
ParserType ==
    [hidden : 0..fed, content : 0..fed, heading : 0..fed, titled : 0..fed, text : Written,
     headings : Written, title : Written]
SeenType == [text : Seq(1..fed), headings : Seq(1..fed), title : Seq(1..fed)]
EndedType ==
    [text : SUBSET (1..fed), headings : SUBSET (1..fed), title : SUBSET (1..fed)]

TextTypes ==
    /\ open \in Seq(PageTags) /\ Len(open) <= MaxOpen /\ fed \in 0..MaxTokens
    /\ parser \in ParserType /\ seen \in SeenType /\ veiled \subseteq 1..fed
    /\ ended \in EndedType /\ unclosed \subseteq PageTags /\ crossed \in BOOLEAN

TextsAreTold ==
    /\ Told(parser.text, seen.text, ended.text)
    /\ Told(parser.headings, seen.headings, ended.headings)
    /\ Told(parser.title, seen.title, ended.title)

TextIInv == TextTypes /\ CountersFit /\ TextsAreTold

LEMMA TagsDiffer ==
    /\ HiddenTags \cap ContentTags = {} /\ "title" \notin HiddenTags \cup ContentTags
    /\ "h1" \notin HiddenTags \cup ContentTags /\ "br" \notin PageTags
    /\ "h1" # "title" /\ "script" \in HiddenTags
    /\ \A t, u \in ContentTags : t = u
BY StudyTextAssumption DEF HiddenTags, PageTags

\* The fields of the parser, which the steps are about.
LEMMA ParserFields ==
    ASSUME TextTypes
    PROVE  /\ fed \in Nat /\ MaxTokens \in Nat /\ MaxOpen \in Nat /\ Len(open) \in Nat
           /\ DOMAIN open = 1..Len(open)
           /\ parser.hidden \in 0..fed /\ parser.content \in 0..fed
           /\ parser.heading \in 0..fed /\ parser.titled \in 0..fed
           /\ parser.text \in Seq(0..fed) /\ parser.headings \in Seq(0..fed)
           /\ parser.title \in Seq(0..fed)
           /\ seen.text \in Seq(1..fed) /\ seen.headings \in Seq(1..fed)
           /\ seen.title \in Seq(1..fed)
           /\ ended.text \in SUBSET (1..fed) /\ ended.headings \in SUBSET (1..fed)
           /\ ended.title \in SUBSET (1..fed)
<1>1. /\ fed \in Nat /\ MaxTokens \in Nat /\ MaxOpen \in Nat /\ Len(open) \in Nat
      /\ DOMAIN open = 1..Len(open)
    BY StudyTextAssumption DEF TextTypes
<1>2. /\ parser \in ParserType /\ seen \in SeenType /\ ended \in EndedType
    BY DEF TextTypes
<1>3. /\ parser.hidden \in 0..fed /\ parser.content \in 0..fed
      /\ parser.heading \in 0..fed /\ parser.titled \in 0..fed
      /\ parser.text \in Seq(0..fed) /\ parser.headings \in Seq(0..fed)
      /\ parser.title \in Seq(0..fed)
    BY <1>2 DEF ParserType, Written
<1>4. /\ seen.text \in Seq(1..fed) /\ seen.headings \in Seq(1..fed)
      /\ seen.title \in Seq(1..fed)
    BY <1>2 DEF SeenType
<1>5. /\ ended.text \in SUBSET (1..fed) /\ ended.headings \in SUBSET (1..fed)
      /\ ended.title \in SUBSET (1..fed)
    BY <1>2 DEF EndedType
<1> QED
    BY <1>1, <1>3, <1>4, <1>5

-------------------------------------------------------------------------------
\* Subsets of an interval, and what they count.
LEMMA Fewer ==
    ASSUME NEW n \in Nat, NEW S \in SUBSET (1..n), NEW T \in SUBSET S
    PROVE  /\ Cardinality(S) \in Nat /\ Cardinality(T) \in Nat
           /\ Cardinality(T) <= Cardinality(S)
           /\ S = {} <=> Cardinality(S) = 0
           /\ \A x \in S : x \notin T => Cardinality(T) + 1 <= Cardinality(S)
           /\ \A x : x \notin S => Cardinality(S \cup {x}) = Cardinality(S) + 1
           /\ \A x \in S : Cardinality(S \ {x}) = Cardinality(S) - 1
<1>1. IsFiniteSet(S) /\ IsFiniteSet(T)
    <2>1. IsFiniteSet(1..n)
        BY FS_Interval
    <2>2. IsFiniteSet(S)
        BY <2>1, FS_Subset
    <2> QED
        BY <2>2, FS_Subset
<1>2. Cardinality(S) \in Nat /\ Cardinality(T) \in Nat /\ Cardinality(T) <= Cardinality(S)
    BY <1>1, FS_CardinalityType, FS_Subset
<1>3. S = {} <=> Cardinality(S) = 0
    BY <1>1, FS_EmptySet
<1>4. \A x : x \notin S => Cardinality(S \cup {x}) = Cardinality(S) + 1
    BY <1>1, <1>2, FS_AddElement
<1>5. ASSUME NEW x \in S PROVE Cardinality(S \ {x}) = Cardinality(S) - 1
    BY <1>1, <1>2, <1>5, FS_RemoveElement
<1>6. ASSUME NEW x \in S, x \notin T PROVE Cardinality(T) + 1 <= Cardinality(S)
    <2>1. T \subseteq S \ {x} /\ IsFiniteSet(S \ {x})
        BY <1>1, <1>6, FS_Subset
    <2>2. Cardinality(T) <= Cardinality(S \ {x})
        BY <2>1, FS_Subset
    <2> QED
        BY <1>2, <1>5, <2>2
<1> QED
    BY <1>2, <1>3, <1>4, <1>5, <1>6

\* The elements that count, and when there are none.
LEMMA DepthIs ==
    ASSUME TextTypes, NEW tags
    PROVE  /\ NotedOf(tags) \in SUBSET (1..Len(open)) /\ Depth(tags) \in Nat
           /\ NotedOf(tags) = {} <=> Depth(tags) = 0
<1>1. NotedOf(tags) \in SUBSET (1..Len(open)) /\ Len(open) \in Nat
    BY ParserFields DEF NotedOf
<1> QED
    BY <1>1, Fewer DEF Depth

\* What is open, as far as it counts.
LEMMA WhatIsOpen ==
    ASSUME TextTypes
    PROVE  /\ Visible <=> Depth(HiddenTags) = 0
           /\ Visible =>
                 /\ \A j \in DOMAIN open :
                       open[j] \in ContentTags \cup {"title"} => Noted(j)
                 /\ Within(ContentTags) <=> Depth(ContentTags) # 0
                 /\ Within({"title"}) <=> Depth({"title"}) # 0
                 /\ InHeading <=> Depth({"h1"}) # 0
<1>1. DOMAIN open = 1..Len(open) /\ Len(open) \in Nat
    BY ParserFields
<1>2. Visible <=> NotedOf(HiddenTags) = {}
    BY <1>1 DEF Visible, NotedOf, Noted, ToSet
<1>3. ASSUME Visible
      PROVE  /\ \A j \in DOMAIN open : open[j] \in ContentTags \cup {"title"} => Noted(j)
             /\ Within(ContentTags) <=> NotedOf(ContentTags) # {}
             /\ Within({"title"}) <=> NotedOf({"title"}) # {}
             /\ InHeading <=> NotedOf({"h1"}) # {}
    <2>1. \A j \in DOMAIN open : open[j] \notin HiddenTags
        BY <1>1, <1>3 DEF Visible, ToSet
    <2>2. \A j \in DOMAIN open : {open[i] : i \in 1..(j - 1)} \cap HiddenTags = {}
        BY <1>1, <2>1
    <2>3. \A j \in DOMAIN open : open[j] \in ContentTags \cup {"title"} => Noted(j)
        BY <2>2 DEF Noted
    <2>4. Within(ContentTags) <=> NotedOf(ContentTags) # {}
        BY <2>3 DEF Within, NotedOf
    <2>5. Within({"title"}) <=> NotedOf({"title"}) # {}
        BY <2>3 DEF Within, NotedOf
    <2>6. ASSUME InHeading PROVE NotedOf({"h1"}) # {}
        <3>1. PICK i, j \in DOMAIN open : i < j /\ open[i] \in ContentTags /\ open[j] = "h1"
            BY <2>6 DEF InHeading
        <3>2. open[i] \in {open[k] : k \in 1..(j - 1)}
            BY <1>1, <3>1
        <3>3. Noted(j)
            BY <2>2, <3>1, <3>2 DEF Noted
        <3> QED
            BY <3>1, <3>3 DEF NotedOf
    <2>7. ASSUME NotedOf({"h1"}) # {} PROVE InHeading
        <3>1. PICK j \in DOMAIN open : open[j] = "h1" /\ Noted(j)
            BY <2>7 DEF NotedOf
        <3>2. {open[k] : k \in 1..(j - 1)} \cap ContentTags # {}
            BY <3>1, TagsDiffer DEF Noted
        <3>3. PICK k \in 1..(j - 1) : open[k] \in ContentTags
            BY <3>2
        <3> QED
            BY <1>1, <3>1, <3>3 DEF InHeading
    <2> QED
        BY <2>3, <2>4, <2>5, <2>6, <2>7
<1> QED
    BY <1>2, <1>3, DepthIs

\* Whether an element counts is decided by those around it.
LEMMA NotedAsBefore ==
    ASSUME NEW j \in Nat, \A i \in 1..j : open'[i] = open[i], j >= 1
    PROVE  Noted(j)' <=> Noted(j)
<1>1. open'[j] = open[j]
    OBVIOUS
<1>2. {open'[i] : i \in 1..(j - 1)} = {open[i] : i \in 1..(j - 1)}
    <2>1. \A i \in 1..(j - 1) : open'[i] = open[i]
        OBVIOUS
    <2> QED
        BY <2>1
<1> QED
    BY <1>1, <1>2 DEF Noted

\* An element opens.
LEMMA OpenedDepth ==
    ASSUME TextTypes, NEW tag \in PageTags, open' = Append(open, tag), NEW tags,
           NEW n, n = Len(open) + 1
    PROVE  /\ open'[n] = tag /\ \A i \in 1..(n - 1) : open'[i] = open[i]
           /\ Depth(tags)' = IF tag \in tags /\ Noted(n)' THEN Depth(tags) + 1
                             ELSE Depth(tags)
<1>1. /\ DOMAIN open = 1..(n - 1) /\ n - 1 \in Nat /\ n \in Nat /\ DOMAIN open' = 1..n
      /\ open'[n] = tag /\ \A i \in 1..(n - 1) : open'[i] = open[i]
    BY ParserFields DEF TextTypes
<1>2. \A j \in 1..(n - 1) : Noted(j)' <=> Noted(j)
    <2> TAKE j \in 1..(n - 1)
    <2>1. j \in Nat /\ j >= 1 /\ \A i \in 1..j : open'[i] = open[i]
        BY <1>1
    <2> QED
        BY <2>1, NotedAsBefore
<1>3. NotedOf(tags)' = IF tag \in tags /\ Noted(n)' THEN NotedOf(tags) \cup {n}
                       ELSE NotedOf(tags)
    <2>1. \A j : j \in NotedOf(tags)' <=> j \in 1..n /\ open'[j] \in tags /\ Noted(j)'
        BY <1>1 DEF NotedOf
    <2>2. \A j : j \in NotedOf(tags) <=> j \in 1..(n - 1) /\ open[j] \in tags /\ Noted(j)
        BY <1>1 DEF NotedOf
    <2>3. \A j : j \in 1..n <=> j \in 1..(n - 1) \/ j = n
        BY <1>1
    <2>4. \A j : j \in NotedOf(tags)' <=>
              j \in NotedOf(tags) \/ (j = n /\ tag \in tags /\ Noted(n)')
        BY <1>1, <1>2, <2>1, <2>2, <2>3
    <2>5. CASE tag \in tags /\ Noted(n)'
        BY <2>4, <2>5
    <2>6. CASE ~ (tag \in tags /\ Noted(n)')
        BY <2>4, <2>6
    <2> QED
        BY <2>5, <2>6
<1>4. NotedOf(tags) \in SUBSET (1..(n - 1)) /\ n \notin NotedOf(tags)
    BY <1>1 DEF NotedOf
<1>5. Cardinality(NotedOf(tags) \cup {n}) = Cardinality(NotedOf(tags)) + 1
    BY <1>1, <1>4, Fewer
<1>6. Depth(tags)' = Cardinality(NotedOf(tags)') /\ Depth(tags) = Cardinality(NotedOf(tags))
    BY DEF Depth
<1> QED
    BY <1>1, <1>3, <1>5, <1>6

\* An element ends, and with it everything open in it.
LEMMA ClosedDepth ==
    ASSUME TextTypes, NEW i \in DOMAIN open, open' = SubSeq(open, 1, i - 1),
           unclosed' = unclosed \cup {open[j] : j \in {k \in DOMAIN open : i < k /\ Noted(k)}},
           NEW tags
    PROVE  /\ Depth(tags)' \in Nat /\ Depth(tags)' <= Depth(tags)
           /\ i \in NotedOf(tags) => Depth(tags)' + 1 <= Depth(tags)
           /\ unclosed' \cap tags = {} =>
                 Depth(tags)' = IF i \in NotedOf(tags) THEN Depth(tags) - 1 ELSE Depth(tags)
<1>1. /\ DOMAIN open = 1..Len(open) /\ Len(open) \in Nat /\ DOMAIN open' = 1..(i - 1)
      /\ \A j \in 1..(i - 1) : open'[j] = open[j]
    BY ParserFields DEF TextTypes
<1>2. \A j \in 1..(i - 1) : Noted(j)' <=> Noted(j)
    <2> TAKE j \in 1..(i - 1)
    <2>1. j \in Nat /\ j >= 1 /\ \A k \in 1..j : open'[k] = open[k]
        BY <1>1
    <2> QED
        BY <2>1, NotedAsBefore
<1>3. NotedOf(tags)' = {j \in NotedOf(tags) : j < i}
    BY <1>1, <1>2 DEF NotedOf
<1>4. NotedOf(tags)' \subseteq NotedOf(tags) /\ i \notin NotedOf(tags)'
    BY <1>1, <1>3
<1>5. ASSUME unclosed' \cap tags = {}
      PROVE  NotedOf(tags)' = IF i \in NotedOf(tags) THEN NotedOf(tags) \ {i} ELSE NotedOf(tags)
    <2>1. ASSUME NEW j \in NotedOf(tags), i < j PROVE FALSE
        <3>1. open[j] \in tags /\ open[j] \in unclosed'
            BY <2>1 DEF NotedOf
        <3> QED
            BY <1>5, <3>1
    <2>2. NotedOf(tags) \subseteq 1..Len(open)
        BY <1>1 DEF NotedOf
    <2> QED
        BY <1>1, <1>3, <2>1, <2>2
<1>6. NotedOf(tags) \in SUBSET (1..Len(open))
    BY DepthIs
<1>7. /\ Depth(tags)' \in Nat /\ Depth(tags)' <= Depth(tags)
      /\ i \in NotedOf(tags) => Depth(tags)' + 1 <= Depth(tags)
    BY <1>1, <1>4, <1>6, Fewer DEF Depth
<1> QED
    BY <1>1, <1>5, <1>6, <1>7, Fewer DEF Depth

\* One more token may be written than before.
LEMMA TypesGrow ==
    ASSUME fed \in Nat, fed' = fed + 1
    PROVE  /\ ParserType \subseteq ParserType' /\ SeenType \subseteq SeenType'
           /\ EndedType \subseteq EndedType'
           /\ Written \subseteq Written' /\ Seq(1..fed) \subseteq Seq(1..fed')
<1>1. 0..fed \subseteq 0..fed' /\ 1..fed \subseteq 1..fed'
    OBVIOUS
<1>2. Seq(0..fed) \subseteq Seq(0..fed') /\ Seq(1..fed) \subseteq Seq(1..fed')
    BY <1>1
<1>3. Written \subseteq Written'
    BY <1>2 DEF Written
<1>4. ASSUME NEW s \in SeenType PROVE s \in SeenType'
    BY <1>2, <1>4 DEF SeenType
<1>5. ASSUME NEW p \in ParserType PROVE p \in ParserType'
    <2>1. \A x \in Written : x \in Written'
        BY <1>3
    <2>2. \A k \in 0..fed : k \in 0..fed'
        BY <1>1
    <2> HIDE DEF Written
    <2> QED
        BY <2>1, <2>2, <1>5 DEF ParserType
<1>6. ASSUME NEW e \in EndedType PROVE e \in EndedType'
    BY <1>1, <1>6 DEF EndedType
<1> QED
    BY <1>2, <1>3, <1>4, <1>5, <1>6

-------------------------------------------------------------------------------
\* What the handlers do, counter by counter and text by text.
LEMMA StartedDoes ==
    ASSUME fed \in Nat, fed' = fed + 1, NEW p \in ParserType, NEW tag \in PageTags
    PROVE  LET q == Started(p, tag)
           IN  /\ q \in ParserType'
               /\ q.text = p.text /\ q.headings = p.headings /\ q.title = p.title
               /\ q.hidden = IF tag \in HiddenTags THEN p.hidden + 1 ELSE p.hidden
               /\ tag \in HiddenTags \/ p.hidden > 0 =>
                     /\ q.content = p.content /\ q.heading = p.heading
                     /\ q.titled = p.titled
               /\ tag \notin HiddenTags /\ p.hidden = 0 =>
                     /\ q.content = IF tag \in ContentTags THEN p.content + 1 ELSE p.content
                     /\ q.titled = IF tag = "title" THEN p.titled + 1 ELSE p.titled
                     /\ q.heading = IF tag = "h1" /\ p.content > 0 THEN p.heading + 1
                                    ELSE p.heading
<1> DEFINE q == Started(p, tag)
<1>1. /\ p.hidden \in 0..fed /\ p.content \in 0..fed /\ p.heading \in 0..fed
      /\ p.titled \in 0..fed
    BY DEF ParserType
<1>2. p \in ParserType'
    BY TypesGrow
<1>3. \A n \in 0..fed : n + 1 \in 0..fed'
    OBVIOUS
<1>4. \/ tag \in HiddenTags /\ q = [p EXCEPT !.hidden = @ + 1]
      \/ tag \notin HiddenTags /\ p.hidden > 0 /\ q = p
      \/ /\ tag = "title" /\ tag \notin HiddenTags /\ p.hidden = 0
         /\ q = [p EXCEPT !.titled = @ + 1]
      \/ /\ tag \in ContentTags /\ tag # "title" /\ tag \notin HiddenTags /\ p.hidden = 0
         /\ q = [p EXCEPT !.content = @ + 1]
      \/ /\ tag = "h1" /\ p.content > 0 /\ tag \notin HiddenTags /\ p.hidden = 0
         /\ tag # "title" /\ tag \notin ContentTags
         /\ q = [p EXCEPT !.heading = @ + 1]
      \/ /\ tag # "title" /\ tag \notin ContentTags /\ ~ (tag = "h1" /\ p.content > 0)
         /\ p.hidden = 0 /\ tag \notin HiddenTags /\ q = p
    BY <1>1, TagsDiffer DEF Started
<1> HIDE DEF q
<1>5. CASE tag \in HiddenTags /\ q = [p EXCEPT !.hidden = @ + 1]
    BY <1>1, <1>2, <1>3, <1>5 DEF ParserType, q
<1>6. CASE tag \notin HiddenTags /\ p.hidden > 0 /\ q = p
    BY <1>1, <1>2, <1>6 DEF q
<1>7. CASE /\ tag = "title" /\ tag \notin HiddenTags /\ p.hidden = 0
           /\ q = [p EXCEPT !.titled = @ + 1]
    BY <1>1, <1>2, <1>3, <1>7, TagsDiffer DEF ParserType, q
<1>8. CASE /\ tag \in ContentTags /\ tag # "title" /\ tag \notin HiddenTags /\ p.hidden = 0
           /\ q = [p EXCEPT !.content = @ + 1]
    BY <1>1, <1>2, <1>3, <1>8, TagsDiffer DEF ParserType, q
<1>9. CASE /\ tag = "h1" /\ p.content > 0 /\ tag \notin HiddenTags /\ p.hidden = 0
           /\ tag # "title" /\ tag \notin ContentTags
           /\ q = [p EXCEPT !.heading = @ + 1]
    BY <1>1, <1>2, <1>3, <1>9 DEF ParserType, q
<1>10. CASE /\ tag # "title" /\ tag \notin ContentTags /\ ~ (tag = "h1" /\ p.content > 0)
            /\ p.hidden = 0 /\ tag \notin HiddenTags /\ q = p
    BY <1>1, <1>2, <1>10 DEF q
<1> QED
    BY <1>4, <1>5, <1>6, <1>7, <1>8, <1>9, <1>10

\* A closing tag takes one from one counter at most, and adds a break where
\* something ends.
LEMMA EndedDoes ==
    ASSUME fed \in Nat, fed' = fed + 1, NEW p \in ParserType, NEW tag \in PageTags
    PROVE  LET q == Ended(p, tag)
           IN  /\ q \in ParserType'
               /\ q.hidden = IF tag \in HiddenTags /\ p.hidden > 0 THEN p.hidden - 1 ELSE p.hidden
               /\ p.hidden > 0 =>
                     /\ q.content = p.content /\ q.heading = p.heading /\ q.titled = p.titled
                     /\ q.text = p.text /\ q.headings = p.headings /\ q.title = p.title
               /\ p.hidden = 0 =>
                     /\ q.content = IF tag \in ContentTags /\ p.content > 0
                                    THEN p.content - 1 ELSE p.content
                     /\ q.titled = IF tag = "title" /\ p.titled > 0
                                   THEN p.titled - 1 ELSE p.titled
                     /\ q.title = IF tag = "title" /\ p.titled > 0
                                  THEN Append(p.title, Break) ELSE p.title
                     /\ q.heading = IF tag = "h1" /\ p.content > 0 /\ p.heading > 0
                                    THEN p.heading - 1 ELSE p.heading
                     /\ q.headings = IF tag = "h1" /\ p.content > 0 /\ p.heading > 0
                                     THEN Append(p.headings, Break) ELSE p.headings
                     /\ q.text = IF tag \in BlockTags /\ p.content > 0
                                 THEN Append(p.text, Break) ELSE p.text
<1> DEFINE q == Ended(p, tag)
           n(k) == k - 1
           s(t) == Append(t, Break)
<1>1. /\ p.hidden \in 0..fed /\ p.content \in 0..fed /\ p.heading \in 0..fed
      /\ p.titled \in 0..fed /\ p.text \in Written /\ p.headings \in Written
      /\ p.title \in Written
    BY DEF ParserType
<1>2. p \in ParserType' /\ \A t \in Written : t \in Written'
    BY TypesGrow
<1>3. \A k \in 0..fed : k > 0 => n(k) \in 0..fed'
    OBVIOUS
<1>4. \A t \in Written : s(t) \in Written'
    <2>1. \A t \in Written : s(t) \in Written
        BY DEF Break, Written
    <2> QED
        BY <1>2, <2>1
<1>5. ContentTags \subseteq BlockTags /\ "h1" \in BlockTags
    BY DEF BlockTags
<1>6. \A t \in ContentTags : t # "title" /\ t # "h1" /\ t \notin HiddenTags
    BY TagsDiffer
<1> HIDE DEF n, s, q
<1>7. q = IF tag \in HiddenTags /\ p.hidden > 0 THEN [p EXCEPT !.hidden = n(@)]
          ELSE IF p.hidden > 0 THEN p
          ELSE IF tag = "title" /\ p.titled > 0 THEN [p EXCEPT !.titled = n(@), !.title = s(@)]
          ELSE IF tag \in ContentTags /\ p.content > 0
          THEN [p EXCEPT !.content = n(@), !.text = s(@)]
          ELSE IF tag = "h1" /\ p.content > 0
          THEN IF p.heading > 0
               THEN [p EXCEPT !.heading = n(@), !.headings = s(@), !.text = s(@)]
               ELSE [p EXCEPT !.text = s(@)]
          ELSE IF tag \in BlockTags /\ p.content > 0 THEN [p EXCEPT !.text = s(@)]
          ELSE p
    BY <1>1, <1>5, <1>6 DEF Ended, ParserType, n, s, q
<1>8. CASE tag \in HiddenTags /\ p.hidden > 0
    <2>1. q = [p EXCEPT !.hidden = n(@)]
        BY <1>7, <1>8
    <2> QED
        BY <1>1, <1>2, <1>3, <1>8, <2>1 DEF ParserType, n, q
<1>9. CASE tag \notin HiddenTags /\ p.hidden > 0
    BY <1>1, <1>2, <1>7, <1>9 DEF q
<1>16. \A k \in 0..fed' : \A t, u \in Written' :
           /\ [p EXCEPT !.titled = k, !.title = t] \in ParserType'
           /\ [p EXCEPT !.content = k, !.text = t] \in ParserType'
           /\ [p EXCEPT !.heading = k, !.headings = t, !.text = u] \in ParserType'
    BY <1>2 DEF ParserType
<1>18. \A t \in Written' : [p EXCEPT !.text = t] \in ParserType'
    BY <1>2 DEF ParserType
<1>17. /\ s(p.text) \in Written' /\ s(p.headings) \in Written' /\ s(p.title) \in Written'
       /\ p.titled > 0 => n(p.titled) \in 0..fed'
       /\ p.content > 0 => n(p.content) \in 0..fed'
       /\ p.heading > 0 => n(p.heading) \in 0..fed'
    BY <1>1, <1>3, <1>4
<1>10. CASE p.hidden = 0 /\ tag = "title" /\ p.titled > 0
    <2>1. q = [p EXCEPT !.titled = n(p.titled), !.title = s(p.title)]
        BY <1>7, <1>10
    <2>2. tag \notin BlockTags /\ tag \notin ContentTags
        BY <1>10, TagsDiffer DEF BlockTags
    <2>5. tag # "h1"
        BY <1>10
    <2>3. q \in ParserType'
        BY <1>10, <1>16, <1>17, <2>1, Zenon
    <2>4. /\ q.hidden = p.hidden /\ q.content = p.content /\ q.heading = p.heading
          /\ q.titled = n(p.titled) /\ q.title = s(p.title) /\ q.text = p.text
          /\ q.headings = p.headings
        BY <2>1 DEF ParserType
    <2>6. q.titled = p.titled - 1 /\ q.title = Append(p.title, Break)
        BY <2>4 DEF n, s
    <2>7. ~ (p.hidden > 0)
        BY <1>10
    <2>8. ~ (tag \in BlockTags /\ p.content > 0) /\ ~ (tag \in ContentTags /\ p.content > 0)
        BY <2>2
    <2> QED
        BY <1>10, <2>3, <2>4, <2>5, <2>6, <2>7, <2>8 DEF q
<1>11. CASE p.hidden = 0 /\ tag \in ContentTags /\ p.content > 0
    <2>1. q = [p EXCEPT !.content = n(p.content), !.text = s(p.text)]
        BY <1>6, <1>7, <1>11
    <2>2. q \in ParserType'
        BY <1>11, <1>16, <1>17, <2>1, Zenon
    <2>3. /\ q.hidden = p.hidden /\ q.content = n(p.content) /\ q.heading = p.heading
          /\ q.titled = p.titled /\ q.title = p.title /\ q.text = s(p.text)
          /\ q.headings = p.headings
        BY <2>1 DEF ParserType
    <2> QED
        BY <1>1, <1>5, <1>6, <1>11, <2>2, <2>3 DEF n, s, q
<1>12. CASE p.hidden = 0 /\ tag = "h1" /\ p.content > 0 /\ p.heading > 0
    <2>1. q = [p EXCEPT !.heading = n(p.heading), !.headings = s(p.headings),
                        !.text = s(p.text)]
        BY <1>6, <1>7, <1>12
    <2>2. q \in ParserType'
        BY <1>12, <1>16, <1>17, <2>1, Zenon
    <2>3. /\ q.hidden = p.hidden /\ q.content = p.content /\ q.heading = n(p.heading)
          /\ q.titled = p.titled /\ q.title = p.title /\ q.text = s(p.text)
          /\ q.headings = s(p.headings)
        BY <2>1 DEF ParserType
    <2>4. tag \notin ContentTags /\ tag # "title" /\ tag \in BlockTags
        BY <1>5, <1>12, TagsDiffer
    <2>5. /\ q.heading = p.heading - 1 /\ q.headings = Append(p.headings, Break)
          /\ q.text = Append(p.text, Break)
        BY <2>3 DEF n, s
    <2>6. ~ (p.hidden > 0)
        BY <1>12
    <2> QED
        BY <1>12, <2>2, <2>3, <2>4, <2>5, <2>6 DEF q
<1>13. CASE /\ p.hidden = 0 /\ tag \in BlockTags /\ p.content > 0 /\ tag \notin ContentTags
            /\ tag # "title" /\ ~ (tag = "h1" /\ p.heading > 0)
    <2>1. q = [p EXCEPT !.text = s(p.text)]
        BY <1>7, <1>13
    <2>2. q \in ParserType'
        BY <1>17, <1>18, <2>1, Zenon
    <2>3. /\ q.hidden = p.hidden /\ q.content = p.content /\ q.heading = p.heading
          /\ q.titled = p.titled /\ q.title = p.title /\ q.text = s(p.text)
          /\ q.headings = p.headings
        BY <2>1 DEF ParserType
    <2> QED
        BY <1>1, <1>13, <2>2, <2>3 DEF s, q
<1>14. CASE /\ p.hidden = 0 /\ ~ (tag = "title" /\ p.titled > 0)
            /\ ~ (tag \in BlockTags /\ p.content > 0)
    BY <1>1, <1>2, <1>5, <1>7, <1>14 DEF q
<1>15. tag \in BlockTags => tag # "title"
    BY TagsDiffer DEF BlockTags
<1> QED
    BY <1>1, <1>5, <1>8, <1>9, <1>10, <1>11, <1>12, <1>13, <1>14, <1>15

\* A line break does no more.
LEMMA BrokenTexts ==
    ASSUME NEW p \in ParserType
    PROVE  LET q == Started(p, "br")
           IN  q = p \/ (p.content > 0 /\ q = [p EXCEPT !.text = Append(@, Break)])
BY StudyTextAssumption DEF Started, HiddenTags

-------------------------------------------------------------------------------
\* White space added, or the token just fed, keeps a text what it should be.
LEMMA OrderStays ==
    ASSUME NEW n \in Nat, NEW s \in Seq(0..n), InOrder(s)
    PROVE  InOrder(Append(s, Break)) /\ Pieces(Append(s, Break)) = Pieces(s)
<1> DEFINE u == Append(s, Break)
<1>1. /\ DOMAIN u = 1..(Len(s) + 1) /\ DOMAIN s = 1..Len(s) /\ Len(s) \in Nat
      /\ u[Len(s) + 1] = Break /\ \A i \in 1..Len(s) : u[i] = s[i]
    BY DEF Break
<1> HIDE DEF u
<1>2. Pieces(u) = Pieces(s)
    BY <1>1 DEF Pieces, ToSet
<1>3. InOrder(u)
    BY <1>1 DEF InOrder
<1> QED
    BY <1>2, <1>3 DEF u

LEMMA OrderGrows ==
    ASSUME NEW n \in Nat, NEW s \in Seq(0..n), InOrder(s)
    PROVE  /\ InOrder(Append(s, n + 1)) /\ Pieces(Append(s, n + 1)) = Pieces(s) \cup {n + 1}
           /\ Append(s, n + 1) \in Seq(0..(n + 1))
<1> DEFINE u == Append(s, n + 1)
<1>1. /\ DOMAIN u = 1..(Len(s) + 1) /\ DOMAIN s = 1..Len(s) /\ Len(s) \in Nat
      /\ u[Len(s) + 1] = n + 1 /\ \A i \in 1..Len(s) : u[i] = s[i] /\ s[i] \in 0..n
    OBVIOUS
<1>4. s \in Seq(0..(n + 1)) /\ u \in Seq(0..(n + 1))
    <2>1. \A i \in 1..Len(u) : u[i] \in 0..(n + 1)
        BY <1>1
    <2> QED
        BY <2>1
<1> HIDE DEF u
<1>2. Pieces(u) = Pieces(s) \cup {n + 1}
    BY <1>1 DEF Pieces, ToSet, Break
<1>3. InOrder(u)
    BY <1>1 DEF InOrder
<1> QED
    BY <1>2, <1>3, <1>4 DEF u

LEMMA PiecesAreFed ==
    ASSUME NEW n \in Nat, NEW s \in Seq(0..n)
    PROVE  n + 1 \notin Pieces(s)
BY DEF Pieces, ToSet

\* White space after a text keeps apart what is apart, and what ends with the
\* token just fed from all that follows.
LEMMA ApartStays ==
    ASSUME NEW n \in Nat, NEW s \in Seq(0..n), NEW E, E \subseteq 1..n,
           Apart(s, E), NEW F, F \subseteq E \cup {n + 1}
    PROVE  Apart(Append(s, Break), F) /\ Sealed(Append(s, Break), F)
<1> DEFINE u == Append(s, Break)
<1>1. /\ Len(u) = Len(s) + 1 /\ Len(s) \in Nat
      /\ u[Len(s) + 1] = Break /\ \A i \in 1..Len(s) : u[i] = s[i] /\ s[i] \in 0..n
    BY DEF Break
<1>2. Last(u) = Break
    BY <1>1 DEF Last
<1> HIDE DEF u
<1>3. ASSUME NEW i \in 1..(Len(u) - 1), u[i] # Break, u[i + 1] # Break, NEW e \in F
      PROVE  ~ (u[i] < e /\ e < u[i + 1])
    <2>1. i \in 1..(Len(s) - 1) /\ u[i] = s[i] /\ u[i + 1] = s[i + 1] /\ s[i + 1] \in 0..n
        BY <1>1, <1>3
    <2>2. CASE e \in E
        BY <1>3, <2>1, <2>2 DEF Apart
    <2>3. CASE e = n + 1
        BY <2>1, <2>3
    <2> QED
        BY <2>2, <2>3
<1>4. Apart(u, F)
    BY <1>3 DEF Apart
<1> QED
    BY <1>2, <1>4 DEF Sealed, u

LEMMA ApartGrows ==
    ASSUME NEW n \in Nat, NEW s \in Seq(0..n), NEW E, E \subseteq 1..n,
           Apart(s, E), Sealed(s, E)
    PROVE  Apart(Append(s, n + 1), E) /\ Sealed(Append(s, n + 1), E)
<1> DEFINE u == Append(s, n + 1)
<1>1. /\ Len(u) = Len(s) + 1 /\ Len(s) \in Nat
      /\ u[Len(s) + 1] = n + 1 /\ \A i \in 1..Len(s) : u[i] = s[i] /\ s[i] \in 0..n
    OBVIOUS
<1>2. Last(u) = n + 1
    BY <1>1 DEF Last
<1>3. s # <<>> <=> Len(s) > 0
    OBVIOUS
<1> HIDE DEF u
<1>4. ASSUME NEW i \in 1..(Len(u) - 1), u[i] # Break, u[i + 1] # Break, NEW e \in E
      PROVE  ~ (u[i] < e /\ e < u[i + 1])
    <2>1. CASE i = Len(s)
        <3>1. u[i] = Last(s) /\ Last(s) \in 0..n /\ s # <<>>
            BY <1>1, <1>3, <1>4, <2>1 DEF Last
        <3>2. e < u[i] /\ e \in 1..n
            BY <1>4, <3>1 DEF Sealed
        <3> QED
            BY <3>1, <3>2
    <2>2. CASE i # Len(s)
        <3>1. i \in 1..(Len(s) - 1) /\ u[i] = s[i] /\ u[i + 1] = s[i + 1]
            BY <1>1, <2>2
        <3> QED
            BY <1>4, <3>1 DEF Apart
    <2> QED
        BY <2>1, <2>2
<1>5. Apart(u, E)
    BY <1>4 DEF Apart
<1>6. Sealed(u, E)
    BY <1>2 DEF Sealed
<1> QED
    BY <1>5, <1>6 DEF u

\* A text after a step that may add white space to it, and after one that may
\* add the token just fed.
LEMMA ToldWithBreak ==
    ASSUME fed \in Nat, NEW s \in Seq(0..fed), NEW due, NEW E, E \subseteq 1..fed,
           Told(s, due, E), veiled' = veiled, crossed => crossed', unclosed \subseteq unclosed',
           NEW u, u = s \/ u = Append(s, Break),
           NEW F, F = E \/ (F = E \cup {fed + 1} /\ (HiddenClosed' => u = Append(s, Break)))
    PROVE  Told(u, due, F)'
<1>1. (HiddenClosed' => HiddenClosed) /\ (AllClosed' => AllClosed)
    BY DEF HiddenClosed, AllClosed
<1>2. InOrder(s) /\ InOrder(u) /\ Pieces(u) = Pieces(s)
    <2>1. InOrder(s)
        BY DEF Told
    <2>2. InOrder(Append(s, Break)) /\ Pieces(Append(s, Break)) = Pieces(s)
        BY <2>1, OrderStays
    <2> QED
        BY <2>1, <2>2
<1>3. ASSUME HiddenClosed' PROVE Apart(u, F) /\ Sealed(u, F)
    <2>1. Apart(s, E) /\ Sealed(s, E)
        BY <1>1, <1>3 DEF Told
    <2>2. F \subseteq E \cup {fed + 1}
        OBVIOUS
    <2>3. Apart(Append(s, Break), F) /\ Sealed(Append(s, Break), F)
        BY <2>1, <2>2, ApartStays
    <2> QED
        BY <1>3, <2>1, <2>3
<1> QED
    BY <1>1, <1>2, <1>3 DEF Told

LEMMA ToldWithToken ==
    ASSUME fed \in Nat, NEW s \in Seq(0..fed), NEW due \in Seq(1..fed), NEW E,
           E \subseteq 1..fed, Told(s, due, E), veiled \subseteq 1..fed,
           UNCHANGED <<crossed, unclosed>>,
           NEW u, u = s \/ u = Append(s, fed + 1),
           NEW w, w = due \/ w = Append(due, fed + 1),
           veiled' = veiled \/ (veiled' = veiled \cup {fed + 1} /\ (~ crossed => u = s)),
           HiddenClosed /\ w # due => u = Append(s, fed + 1),
           AllClosed /\ w = due => u = s
    PROVE  Told(u, w, E)'
<1>1. /\ HiddenClosed' <=> HiddenClosed
      /\ AllClosed' <=> AllClosed
      /\ crossed' <=> crossed
      /\ AllClosed => HiddenClosed
    BY DEF HiddenClosed, AllClosed
<1>2. due \in Seq(0..fed)
    OBVIOUS
<1>8. InOrder(s) /\ InOrder(due)
    BY DEF Told
<1>3. /\ InOrder(u) /\ InOrder(w)
      /\ u = s \/ Pieces(u) = Pieces(s) \cup {fed + 1}
      /\ w = due \/ Pieces(w) = Pieces(due) \cup {fed + 1}
      /\ u = Append(s, fed + 1) => Pieces(u) = Pieces(s) \cup {fed + 1}
    <2>1. /\ InOrder(Append(s, fed + 1))
          /\ Pieces(Append(s, fed + 1)) = Pieces(s) \cup {fed + 1}
        BY <1>8, OrderGrows
    <2>2. /\ InOrder(Append(due, fed + 1))
          /\ Pieces(Append(due, fed + 1)) = Pieces(due) \cup {fed + 1}
        BY <1>2, <1>8, OrderGrows
    <2> QED
        BY <1>8, <2>1, <2>2
<1>4. fed + 1 \notin Pieces(s) /\ fed + 1 \notin Pieces(due)
    BY <1>2, PiecesAreFed
<1>5. ~ crossed' => veiled' \cap Pieces(u) = {}
    <2>1. fed + 1 \notin veiled
        OBVIOUS
    <2> QED
        BY <1>1, <1>3, <1>4, <2>1 DEF Told
<1>6. ASSUME HiddenClosed'
      PROVE  Pieces(w) \subseteq Pieces(u) /\ Apart(u, E) /\ Sealed(u, E)
    <2>1. Apart(u, E) /\ Sealed(u, E)
        BY <1>1, <1>6, ApartGrows DEF Told
    <2>2. Pieces(due) \subseteq Pieces(s)
        BY <1>1, <1>6 DEF Told
    <2>3. Pieces(w) \subseteq Pieces(u)
        BY <1>1, <1>3, <1>6, <2>2
    <2> QED
        BY <2>1, <2>3
<1>7. ASSUME AllClosed' PROVE Pieces(u) = Pieces(w)
    <2>1. Pieces(s) = Pieces(due)
        BY <1>1, <1>7 DEF Told
    <2>2. w = due <=> u = s
        <3>1. u = Append(s, fed + 1) => u # s
            OBVIOUS
        <3> QED
            BY <1>1, <1>7, <3>1
    <2> QED
        BY <1>3, <2>1, <2>2
<1> QED
    BY <1>3, <1>5, <1>6, <1>7 DEF Told

-------------------------------------------------------------------------------
LEMMA TextStarts ==
    ASSUME TextInit
    PROVE  TextIInv
<1>1. <<>> \in Written /\ <<>> \in Seq(1..fed)
    BY DEF Written
<1>2. TextTypes
    <2>1. open \in Seq(PageTags) /\ Len(open) <= MaxOpen /\ fed \in 0..MaxTokens
        BY StudyTextAssumption DEF TextInit
    <2>2. parser \in ParserType /\ seen \in SeenType /\ ended \in EndedType
        BY <1>1 DEF TextInit, ParserType, SeenType, EndedType
    <2> QED
        BY <2>1, <2>2 DEF TextInit, TextTypes
<1>3. \A tags : Depth(tags) = 0
    <2> TAKE tags
    <2>1. NotedOf(tags) = {}
        BY DEF NotedOf, TextInit
    <2> QED
        BY <2>1, FS_EmptySet DEF Depth
<1>4. CountersFit
    BY <1>3 DEF CountersFit, TextInit
<1>5. Told(<<>>, <<>>, {})
    BY DEF Told, InOrder, Pieces, ToSet, Apart, Sealed
<1>6. TextsAreTold
    BY <1>5 DEF TextsAreTold, TextInit
<1> QED
    BY <1>2, <1>4, <1>6 DEF TextIInv

\* What the counters tell of what is open.
LEMMA CountersTell ==
    ASSUME TextTypes, CountersFit
    PROVE  /\ ~ crossed => (parser.hidden = 0 => Visible)
           /\ HiddenClosed =>
                 /\ parser.hidden = 0 <=> Visible
                 /\ Visible =>
                       /\ Within({"title"}) => parser.titled > 0
                       /\ Within(ContentTags) => parser.content > 0
                       /\ InHeading => parser.heading > 0
           /\ AllClosed =>
                 /\ HiddenClosed
                 /\ Visible =>
                       /\ Within({"title"}) <=> parser.titled > 0
                       /\ Within(ContentTags) <=> parser.content > 0
                       /\ InHeading <=> parser.heading > 0
<1>1. /\ Depth(HiddenTags) \in Nat /\ Depth(ContentTags) \in Nat /\ Depth({"h1"}) \in Nat
      /\ Depth({"title"}) \in Nat
    BY DepthIs
<1>2. /\ parser.hidden \in 0..fed /\ parser.content \in 0..fed
      /\ parser.heading \in 0..fed /\ parser.titled \in 0..fed /\ fed \in Nat
    BY ParserFields
<1>3. AllClosed => HiddenClosed
    BY DEF AllClosed, HiddenClosed
<1>4. ~ crossed => (parser.hidden = 0 => Visible)
    BY <1>1, <1>2, WhatIsOpen DEF CountersFit
<1>5. ASSUME HiddenClosed
      PROVE  /\ parser.hidden = 0 <=> Visible
             /\ Visible =>
                   /\ Within({"title"}) => parser.titled > 0
                   /\ Within(ContentTags) => parser.content > 0
                   /\ InHeading => parser.heading > 0
    BY <1>1, <1>2, <1>5, WhatIsOpen DEF CountersFit
<1>6. ASSUME AllClosed, Visible
      PROVE  /\ Within({"title"}) <=> parser.titled > 0
             /\ Within(ContentTags) <=> parser.content > 0
             /\ InHeading <=> parser.heading > 0
    BY <1>1, <1>2, <1>6, WhatIsOpen DEF CountersFit
<1> QED
    BY <1>3, <1>4, <1>5, <1>6

\* An element opens.
LEMMA OpenTagKeeps ==
    ASSUME TextIInv, OpenTag
    PROVE  TextIInv'
<1>1. PICK tag \in PageTags : open' = Append(open, tag) /\ parser' = Started(parser, tag)
    BY DEF OpenTag
<1>2. /\ TextTypes /\ CountersFit /\ TextsAreTold /\ fed \in Nat /\ fed' = fed + 1
      /\ fed' \in 0..MaxTokens /\ parser \in ParserType
      /\ seen' = seen /\ veiled' = veiled /\ ended' = ended /\ unclosed' = unclosed
      /\ (crossed' <=> crossed) /\ crossed' = crossed
    BY StudyTextAssumption DEF TextIInv, TextTypes, OpenTag, history
<1>3. /\ parser' \in ParserType'
      /\ parser'.text = parser.text /\ parser'.headings = parser.headings
      /\ parser'.title = parser.title
      /\ parser'.hidden = IF tag \in HiddenTags THEN parser.hidden + 1 ELSE parser.hidden
      /\ tag \in HiddenTags \/ parser.hidden > 0 =>
            /\ parser'.content = parser.content /\ parser'.heading = parser.heading
            /\ parser'.titled = parser.titled
      /\ tag \notin HiddenTags /\ parser.hidden = 0 =>
            /\ parser'.content = IF tag \in ContentTags THEN parser.content + 1
                                 ELSE parser.content
            /\ parser'.titled = IF tag = "title" THEN parser.titled + 1 ELSE parser.titled
            /\ parser'.heading = IF tag = "h1" /\ parser.content > 0
                                 THEN parser.heading + 1 ELSE parser.heading
    BY <1>1, <1>2, StartedDoes
<1>4. TextTypes'
    <2>1. open' \in Seq(PageTags) /\ Len(open') <= MaxOpen
        BY <1>1, <1>2, StudyTextAssumption DEF TextTypes, OpenTag
    <2>2. seen' \in SeenType' /\ ended' \in EndedType' /\ veiled' \subseteq 1..fed'
        BY <1>2, TypesGrow DEF TextTypes
    <2> QED
        BY <1>2, <1>3, <2>1, <2>2 DEF TextTypes
<1>5. TextsAreTold'
    BY <1>2, <1>3 DEF TextsAreTold, Told, HiddenClosed, AllClosed
<1>6. PICK n : n = Len(open) + 1
    OBVIOUS
<1>7. /\ open'[n] = tag /\ \A i \in 1..(n - 1) : open'[i] = open[i]
      /\ \A tags : Depth(tags)' = IF tag \in tags /\ Noted(n)' THEN Depth(tags) + 1
                                  ELSE Depth(tags)
    BY <1>1, <1>2, <1>6, OpenedDepth
<1>8. /\ tag \in HiddenTags => Noted(n)'
      /\ tag \notin HiddenTags => Noted(n)' <=>
            /\ Visible
            /\ tag \in ContentTags \cup {"title"} \/ (tag = "h1" /\ Within(ContentTags))
    <2>1. DOMAIN open = 1..(n - 1)
        BY <1>2, <1>6, ParserFields
    <2>2. {open'[i] : i \in 1..(n - 1)} = ToSet(open)
        BY <1>7, <2>1 DEF ToSet
    <2>3. ToSet(open) \cap ContentTags # {} <=> Within(ContentTags)
        BY <2>1 DEF ToSet, Within
    <2> QED
        BY <1>7, <2>2, <2>3, TagsDiffer DEF Noted, Visible
<1>9. /\ Depth(HiddenTags) \in Nat /\ Depth(ContentTags) \in Nat /\ Depth({"h1"}) \in Nat
      /\ Depth({"title"}) \in Nat
      /\ parser.hidden \in 0..fed /\ parser.content \in 0..fed
      /\ parser.heading \in 0..fed /\ parser.titled \in 0..fed
    BY <1>2, DepthIs, ParserFields
<1>10. (HiddenClosed' <=> HiddenClosed) /\ (AllClosed' <=> AllClosed)
    BY <1>2 DEF HiddenClosed, AllClosed
<1>11. Depth(HiddenTags)' = IF tag \in HiddenTags THEN Depth(HiddenTags) + 1
                            ELSE Depth(HiddenTags)
    BY <1>7, <1>8
<1>12. ~ crossed' => Depth(HiddenTags)' <= parser'.hidden
    BY <1>2, <1>3, <1>9, <1>11 DEF CountersFit
<1>13. ASSUME HiddenClosed'
       PROVE  /\ parser'.hidden = Depth(HiddenTags)' /\ Depth(ContentTags)' <= parser'.content
              /\ Depth({"h1"})' <= parser'.heading /\ Depth({"title"})' <= parser'.titled
    <2>1. /\ parser.hidden = Depth(HiddenTags) /\ Depth(ContentTags) <= parser.content
          /\ Depth({"h1"}) <= parser.heading /\ Depth({"title"}) <= parser.titled
        BY <1>2, <1>10, <1>13 DEF CountersFit
    <2>2. /\ parser.hidden = 0 <=> Visible
          /\ Visible => (Within(ContentTags) => parser.content > 0)
        BY <1>2, <1>10, <1>13, CountersTell
    <2>3. parser'.hidden = Depth(HiddenTags)'
        BY <1>3, <1>11, <2>1
    <2>4. Depth(ContentTags)' <= parser'.content
        BY <1>3, <1>7, <1>8, <1>9, <2>1, <2>2, TagsDiffer
    <2>5. Depth({"h1"})' <= parser'.heading
        BY <1>3, <1>7, <1>8, <1>9, <2>1, <2>2, TagsDiffer
    <2>6. Depth({"title"})' <= parser'.titled
        BY <1>3, <1>7, <1>8, <1>9, <2>1, <2>2, TagsDiffer
    <2> QED
        BY <2>3, <2>4, <2>5, <2>6
<1>14. ASSUME AllClosed'
       PROVE  /\ parser'.content = Depth(ContentTags)' /\ parser'.heading = Depth({"h1"})'
              /\ parser'.titled = Depth({"title"})'
    <2>1. /\ parser.content = Depth(ContentTags) /\ parser.heading = Depth({"h1"})
          /\ parser.titled = Depth({"title"})
        BY <1>2, <1>10, <1>14 DEF CountersFit
    <2>2. /\ parser.hidden = 0 <=> Visible
          /\ Visible => (Within(ContentTags) <=> parser.content > 0)
        BY <1>2, <1>10, <1>14, CountersTell
    <2>4. Depth(ContentTags)' = parser'.content
        BY <1>3, <1>7, <1>8, <1>9, <2>1, <2>2, TagsDiffer
    <2>5. Depth({"h1"})' = parser'.heading
        BY <1>3, <1>7, <1>8, <1>9, <2>1, <2>2, TagsDiffer
    <2>6. Depth({"title"})' = parser'.titled
        BY <1>3, <1>7, <1>8, <1>9, <2>1, <2>2, TagsDiffer
    <2> QED
        BY <2>4, <2>5, <2>6
<1>15. CountersFit'
    BY <1>12, <1>13, <1>14 DEF CountersFit
<1> QED
    BY <1>4, <1>5, <1>15 DEF TextIInv

\* Where an end tag leaves the counters and the texts.
LEMMA EndKeeps ==
    ASSUME TextTypes, CountersFit, TextsAreTold, fed' = fed + 1, fed' \in 0..MaxTokens,
           NEW tag \in PageTags, parser' = Ended(parser, tag), seen' = seen, veiled' = veiled,
           crossed' \in BOOLEAN, crossed => crossed', unclosed \subseteq unclosed',
           unclosed' \subseteq PageTags,
           open' \in Seq(PageTags), Len(open') <= MaxOpen, CountersFit',
           ended' = ended \/ ended' =
               [text |-> Added(ended.text, Visible /\ tag \in BlockTags /\ Within(ContentTags)),
                headings |-> Added(ended.headings, Visible /\ tag = "h1" /\ InHeading),
                title |-> Added(ended.title, Visible /\ tag = "title" /\ Within({"title"}))]
    PROVE  TextIInv'
<1>1. /\ fed \in Nat /\ parser.text \in Seq(0..fed) /\ parser.headings \in Seq(0..fed)
      /\ parser.title \in Seq(0..fed) /\ parser \in ParserType
      /\ parser.hidden \in 0..fed /\ parser.content \in 0..fed
      /\ parser.heading \in 0..fed /\ parser.titled \in 0..fed
      /\ ended.text \subseteq 1..fed /\ ended.headings \subseteq 1..fed
      /\ ended.title \subseteq 1..fed /\ ended \in EndedType
    BY ParserFields DEF TextTypes
<1>2. /\ parser' \in ParserType'
      /\ parser.hidden > 0 =>
            /\ parser'.text = parser.text /\ parser'.headings = parser.headings
            /\ parser'.title = parser.title
      /\ parser.hidden = 0 =>
            /\ parser'.title = IF tag = "title" /\ parser.titled > 0
                               THEN Append(parser.title, Break) ELSE parser.title
            /\ parser'.headings = IF tag = "h1" /\ parser.content > 0 /\ parser.heading > 0
                                  THEN Append(parser.headings, Break) ELSE parser.headings
            /\ parser'.text = IF tag \in BlockTags /\ parser.content > 0
                              THEN Append(parser.text, Break) ELSE parser.text
    BY <1>1, EndedDoes
<1>3. HiddenClosed' => HiddenClosed
    BY DEF HiddenClosed
<1>4. ASSUME HiddenClosed, Visible
      PROVE  /\ parser.hidden = 0
             /\ Within({"title"}) => parser.titled > 0
             /\ Within(ContentTags) => parser.content > 0
             /\ InHeading => parser.heading > 0 /\ parser.content > 0
    <2>1. InHeading => Within(ContentTags)
        BY DEF InHeading, Within
    <2> QED
        BY <1>4, <2>1, CountersTell
<1>5. \/ ended'.text = ended.text
      \/ /\ ended'.text = ended.text \cup {fed + 1}
         /\ HiddenClosed' => parser'.text = Append(parser.text, Break)
    <2>1. CASE ended'.text # ended.text
        <3>1. /\ Visible /\ tag \in BlockTags /\ Within(ContentTags)
              /\ ended'.text = ended.text \cup {fed + 1}
            BY <2>1 DEF Added
        <3> QED
            BY <1>2, <1>3, <1>4, <3>1
    <2> QED
        BY <2>1
<1>6. \/ ended'.headings = ended.headings
      \/ /\ ended'.headings = ended.headings \cup {fed + 1}
         /\ HiddenClosed' => parser'.headings = Append(parser.headings, Break)
    <2>1. CASE ended'.headings # ended.headings
        <3>1. /\ Visible /\ tag = "h1" /\ InHeading
              /\ ended'.headings = ended.headings \cup {fed + 1}
            BY <2>1 DEF Added
        <3> QED
            BY <1>2, <1>3, <1>4, <3>1
    <2> QED
        BY <2>1
<1>7. \/ ended'.title = ended.title
      \/ /\ ended'.title = ended.title \cup {fed + 1}
         /\ HiddenClosed' => parser'.title = Append(parser.title, Break)
    <2>1. CASE ended'.title # ended.title
        <3>1. /\ Visible /\ tag = "title" /\ Within({"title"})
              /\ ended'.title = ended.title \cup {fed + 1}
            BY <2>1 DEF Added
        <3> QED
            BY <1>2, <1>3, <1>4, <3>1
    <2> QED
        BY <2>1
<1>8. ended' \in EndedType'
    <2>1. \A E \in SUBSET (1..fed) : E \in SUBSET (1..fed') /\ E \cup {fed + 1} \in SUBSET (1..fed')
        BY <1>1
    <2>2. CASE ended' = ended
        BY <1>1, <2>2, TypesGrow
    <2>3. CASE ended' # ended
        <3>1. ended' = [text |-> ended'.text, headings |-> ended'.headings,
                        title |-> ended'.title]
            BY <2>3
        <3>2. /\ ended'.text \in SUBSET (1..fed') /\ ended'.headings \in SUBSET (1..fed')
              /\ ended'.title \in SUBSET (1..fed')
            BY <1>1, <1>5, <1>6, <1>7, <2>1
        <3> QED
            BY <3>1, <3>2 DEF EndedType
    <2> QED
        BY <2>2, <2>3
<1>9. TextTypes'
    <2>1. seen' \in SeenType' /\ veiled' \subseteq 1..fed'
        BY <1>1, TypesGrow DEF TextTypes
    <2> QED
        BY <1>2, <1>8, <2>1 DEF TextTypes
<1>10. /\ parser'.text = parser.text \/ parser'.text = Append(parser.text, Break)
       /\ parser'.headings = parser.headings \/ parser'.headings = Append(parser.headings, Break)
       /\ parser'.title = parser.title \/ parser'.title = Append(parser.title, Break)
    <2>1. parser.hidden = 0 \/ parser.hidden > 0
        BY <1>1
    <2>2. CASE parser.hidden = 0
        BY <1>2, <2>2, Zenon
    <2>3. CASE parser.hidden > 0
        BY <1>2, <2>3, Zenon
    <2> QED
        BY <2>1, <2>2, <2>3
<1>11. /\ Told(parser.text, seen.text, ended.text)
       /\ Told(parser.headings, seen.headings, ended.headings)
       /\ Told(parser.title, seen.title, ended.title)
    BY DEF TextsAreTold
<1>12. PICK due, u, F : due = seen.text /\ u = parser'.text /\ F = ended'.text
    OBVIOUS
<1>13. Told(u, due, F)'
    BY <1>1, <1>5, <1>10, <1>11, <1>12, ToldWithBreak
<1>14. PICK dueh, uh, Fh : dueh = seen.headings /\ uh = parser'.headings /\ Fh = ended'.headings
    OBVIOUS
<1>15. Told(uh, dueh, Fh)'
    BY <1>1, <1>6, <1>10, <1>11, <1>14, ToldWithBreak
<1>16. PICK duet, ut, Ft : duet = seen.title /\ ut = parser'.title /\ Ft = ended'.title
    OBVIOUS
<1>17. Told(ut, duet, Ft)'
    BY <1>1, <1>7, <1>10, <1>11, <1>16, ToldWithBreak
<1>18. TextsAreTold'
    BY <1>12, <1>13, <1>14, <1>15, <1>16, <1>17 DEF TextsAreTold, Told
<1> QED
    BY <1>9, <1>18 DEF TextIInv

\* An element ends, with all that is open in it.
LEMMA CloseTagKeeps ==
    ASSUME TextIInv, NEW tag \in PageTags, CloseTag(tag)
    PROVE  TextIInv'
<1>1. /\ TextTypes /\ CountersFit /\ TextsAreTold /\ fed' = fed + 1 /\ fed' \in 0..MaxTokens
      /\ parser' = Ended(parser, tag) /\ seen' = seen /\ veiled' = veiled
      /\ crossed' = crossed /\ crossed' \in BOOLEAN /\ fed \in Nat /\ parser \in ParserType
    BY ParserFields, StudyTextAssumption DEF TextIInv, TextTypes, CloseTag
<1>2. PICK i \in DOMAIN open :
          /\ open[i] = tag /\ \A j \in DOMAIN open : i < j => open[j] # tag
          /\ open' = SubSeq(open, 1, i - 1)
          /\ unclosed' = unclosed \cup {open[j] : j \in {k \in DOMAIN open : i < k /\ Noted(k)}}
    BY DEF CloseTag
<1>3. DOMAIN open = 1..Len(open) /\ Len(open) \in Nat /\ i \in 1..Len(open)
    BY <1>1, <1>2, ParserFields
<1>4. open' \in Seq(PageTags) /\ Len(open') <= MaxOpen
    BY <1>1, <1>2, <1>3, StudyTextAssumption DEF TextTypes
<1>5. unclosed \subseteq unclosed' /\ unclosed' \subseteq PageTags
    BY <1>1, <1>2 DEF TextTypes
<1>6. \A tags :
          /\ Depth(tags)' \in Nat /\ Depth(tags) \in Nat /\ Depth(tags)' <= Depth(tags)
          /\ i \in NotedOf(tags) => Depth(tags)' + 1 <= Depth(tags)
          /\ unclosed' \cap tags = {} =>
                Depth(tags)' = IF i \in NotedOf(tags) THEN Depth(tags) - 1 ELSE Depth(tags)
          /\ i \in NotedOf(tags) <=> tag \in tags /\ Noted(i)
    <2> TAKE tags
    <2>1. i \in NotedOf(tags) <=> tag \in tags /\ Noted(i)
        BY <1>2 DEF NotedOf
    <2> QED
        BY <1>1, <1>2, <2>1, ClosedDepth, DepthIs
<1>7. /\ parser'.hidden = IF tag \in HiddenTags /\ parser.hidden > 0 THEN parser.hidden - 1
                          ELSE parser.hidden
      /\ parser.hidden > 0 =>
            /\ parser'.content = parser.content /\ parser'.heading = parser.heading
            /\ parser'.titled = parser.titled
      /\ parser.hidden = 0 =>
            /\ parser'.content = IF tag \in ContentTags /\ parser.content > 0
                                 THEN parser.content - 1 ELSE parser.content
            /\ parser'.titled = IF tag = "title" /\ parser.titled > 0
                                THEN parser.titled - 1 ELSE parser.titled
            /\ parser'.heading = IF tag = "h1" /\ parser.content > 0 /\ parser.heading > 0
                                 THEN parser.heading - 1 ELSE parser.heading
    BY <1>1, EndedDoes
<1>8. /\ parser.hidden \in 0..fed /\ parser.content \in 0..fed
      /\ parser.heading \in 0..fed /\ parser.titled \in 0..fed
    BY <1>1, ParserFields
<1>9. tag \in HiddenTags => Noted(i)
    BY <1>2 DEF Noted
<1>10. /\ HiddenClosed' => HiddenClosed /\ unclosed' \cap HiddenTags = {}
       /\ AllClosed' => AllClosed /\ HiddenClosed' /\ unclosed' = {}
    BY <1>1, <1>5 DEF HiddenClosed, AllClosed
<1>11. ~ crossed' => Depth(HiddenTags)' <= parser'.hidden
    <2>1. SUFFICES ASSUME ~ crossed' PROVE Depth(HiddenTags)' <= parser'.hidden
        OBVIOUS
    <2>2. Depth(HiddenTags) <= parser.hidden
        BY <1>1, <2>1 DEF CountersFit
    <2>3. CASE tag \in HiddenTags
        <3>1. Depth(HiddenTags)' + 1 <= Depth(HiddenTags)
            BY <1>6, <1>9, <2>3
        <3> QED
            BY <1>6, <1>7, <1>8, <2>2, <2>3, <3>1
    <2>4. CASE tag \notin HiddenTags
        BY <1>6, <1>7, <1>8, <2>2, <2>4
    <2> QED
        BY <2>3, <2>4
\* In sight, the element that ends counts, unless it is an h1 that is in no content.
<1>12. ASSUME Visible
       PROVE  /\ tag \in ContentTags \cup {"title"} => Noted(i)
              /\ tag = "h1" /\ Noted(i) => InHeading /\ Within(ContentTags)
              /\ tag = "h1" /\ ~ Noted(i) => Depth({"h1"}) = 0
    <2>1. tag \in ContentTags \cup {"title"} => Noted(i)
        BY <1>1, <1>2, <1>12, WhatIsOpen
    <2>2. ASSUME tag = "h1", Noted(i) PROVE InHeading /\ Within(ContentTags)
        <3>1. i \in NotedOf({"h1"})
            BY <1>6, <2>2
        <3>2. Depth({"h1"}) # 0
            BY <1>1, <3>1, DepthIs
        <3>3. InHeading
            BY <1>1, <1>12, <3>2, WhatIsOpen
        <3> QED
            BY <3>3 DEF InHeading, Within
    <2>3. ASSUME tag = "h1", ~ Noted(i) PROVE Depth({"h1"}) = 0
        <3>1. SUFFICES ASSUME NEW j \in NotedOf({"h1"}) PROVE FALSE
            BY <1>1, DepthIs
        <3>2. j \in DOMAIN open /\ open[j] = "h1" /\ Noted(j) /\ j # i /\ ~ (i < j)
            BY <1>2, <2>3, <3>1 DEF NotedOf
        <3>3. j < i
            BY <1>3, <3>2
        <3>4. {open[k] : k \in 1..(j - 1)} \cap ContentTags # {}
            BY <3>2, TagsDiffer DEF Noted
        <3>5. PICK k \in 1..(j - 1) : open[k] \in ContentTags
            BY <3>4
        <3>6. k \in 1..(i - 1)
            BY <1>3, <3>2, <3>3
        <3>7. {open[m] : m \in 1..(i - 1)} \cap ContentTags # {}
            BY <3>5, <3>6
        <3>8. {open[m] : m \in 1..(i - 1)} \cap HiddenTags = {}
            BY <1>3, <1>12 DEF Visible, ToSet
        <3> QED
            BY <1>2, <2>3, <3>7, <3>8 DEF Noted
    <2> QED
        BY <2>1, <2>2, <2>3
<1>13. ASSUME HiddenClosed'
       PROVE  /\ parser'.hidden = Depth(HiddenTags)' /\ Depth(ContentTags)' <= parser'.content
              /\ Depth({"h1"})' <= parser'.heading /\ Depth({"title"})' <= parser'.titled
    <2>1. /\ parser.hidden = Depth(HiddenTags) /\ Depth(ContentTags) <= parser.content
          /\ Depth({"h1"}) <= parser.heading /\ Depth({"title"}) <= parser.titled
        BY <1>1, <1>10, <1>13 DEF CountersFit
    <2>2. parser'.hidden = Depth(HiddenTags)'
        <3>1. Depth(HiddenTags)' = IF tag \in HiddenTags THEN Depth(HiddenTags) - 1
                                   ELSE Depth(HiddenTags)
            BY <1>6, <1>9, <1>10, <1>13
        <3> QED
            BY <1>6, <1>7, <1>8, <2>1, <3>1
    <2>3. CASE parser.hidden > 0
        BY <1>6, <1>7, <1>8, <2>1, <2>2, <2>3
    <2>4. CASE parser.hidden = 0
        <3>1. Visible /\ (Within(ContentTags) => parser.content > 0)
            BY <1>1, <1>10, <1>13, <2>4, CountersTell
        <3>2. Depth(ContentTags)' <= parser'.content
            BY <1>6, <1>7, <1>8, <1>12, <2>1, <2>4, <3>1
        <3>3. Depth({"title"})' <= parser'.titled
            BY <1>6, <1>7, <1>8, <1>12, <2>1, <2>4, <3>1
        <3>4. Depth({"h1"})' <= parser'.heading
            <4>1. CASE tag = "h1" /\ Noted(i)
                BY <1>6, <1>7, <1>8, <1>12, <2>1, <2>4, <3>1, <4>1
            <4>2. CASE tag = "h1" /\ ~ Noted(i)
                <5>1. Depth({"h1"})' = 0
                    BY <1>6, <1>12, <3>1, <4>2
                <5> QED
                    BY <1>7, <1>8, <2>4, <5>1
            <4>3. CASE tag # "h1"
                BY <1>6, <1>7, <1>8, <2>1, <2>4, <4>3
            <4> QED
                BY <4>1, <4>2, <4>3
        <3> QED
            BY <2>2, <3>2, <3>3, <3>4
    <2> QED
        BY <1>8, <2>3, <2>4
<1>14. ASSUME AllClosed'
       PROVE  /\ parser'.content = Depth(ContentTags)' /\ parser'.heading = Depth({"h1"})'
              /\ parser'.titled = Depth({"title"})'
    <2>1. /\ parser.content = Depth(ContentTags) /\ parser.heading = Depth({"h1"})
          /\ parser.titled = Depth({"title"})
        BY <1>1, <1>10, <1>14 DEF CountersFit
    <2>2. \A tags : Depth(tags)' = IF tag \in tags /\ Noted(i) THEN Depth(tags) - 1
                                   ELSE Depth(tags)
        BY <1>6, <1>10, <1>14
    <2>3. CASE tag \in HiddenTags
        <3>1. tag \notin ContentTags /\ tag # "h1" /\ tag # "title"
            BY <2>3, TagsDiffer
        <3>2. /\ parser'.content = parser.content /\ parser'.heading = parser.heading
              /\ parser'.titled = parser.titled
            BY <1>7, <1>8, <3>1
        <3> QED
            BY <2>1, <2>2, <3>1, <3>2
    <2>4. CASE tag \notin HiddenTags /\ parser.hidden > 0
        <3>1. ~ Visible
            BY <1>1, <1>10, <1>14, <2>4, CountersTell
        <3>2. PICK k \in DOMAIN open : open[k] \in HiddenTags
            BY <1>3, <3>1 DEF Visible, ToSet
        <3>3. k # i
            BY <1>2, <2>4, <3>2
        <3>4. ~ (i < k)
            <4>1. SUFFICES ASSUME i < k PROVE FALSE
                OBVIOUS
            <4>2. Noted(k)
                BY <3>2 DEF Noted
            <4>3. open[k] \in unclosed'
                BY <1>2, <3>2, <4>1, <4>2
            <4> QED
                BY <1>10, <1>14, <4>3
        <3>5. k \in 1..(i - 1)
            BY <1>3, <3>2, <3>3, <3>4
        <3>6. ~ Noted(i)
            BY <1>2, <2>4, <3>2, <3>5 DEF Noted
        <3> QED
            BY <1>7, <1>8, <2>1, <2>2, <2>4, <3>6
    <2>5. CASE tag \notin HiddenTags /\ parser.hidden = 0
        <3>1. Visible /\ (Within(ContentTags) => parser.content > 0)
            BY <1>1, <1>10, <1>14, <2>5, CountersTell
        <3>2. parser'.content = Depth(ContentTags)'
            BY <1>6, <1>7, <1>8, <1>12, <2>1, <2>2, <2>5, <3>1
        <3>3. parser'.titled = Depth({"title"})'
            BY <1>6, <1>7, <1>8, <1>12, <2>1, <2>2, <2>5, <3>1
        <3>4. parser'.heading = Depth({"h1"})'
            <4>1. CASE tag = "h1" /\ Noted(i)
                BY <1>6, <1>7, <1>8, <1>12, <2>1, <2>2, <2>5, <3>1, <4>1
            <4>2. CASE tag = "h1" /\ ~ Noted(i)
                BY <1>7, <1>8, <1>12, <2>1, <2>2, <2>5, <3>1, <4>2
            <4>3. CASE tag # "h1"
                BY <1>7, <1>8, <2>1, <2>2, <2>5, <4>3
            <4> QED
                BY <4>1, <4>2, <4>3
        <3> QED
            BY <3>2, <3>3, <3>4
    <2> QED
        BY <1>8, <2>3, <2>4, <2>5
<1>15. CountersFit'
    BY <1>11, <1>13, <1>14 DEF CountersFit
<1>16. tag = "title" => Within({"title"})
    BY <1>2 DEF Within
<1>17. ended' =
           [text |-> Added(ended.text, Visible /\ tag \in BlockTags /\ Within(ContentTags)),
            headings |-> Added(ended.headings, Visible /\ tag = "h1" /\ InHeading),
            title |-> Added(ended.title, Visible /\ tag = "title" /\ Within({"title"}))]
    BY <1>16 DEF CloseTag, Added
<1> QED
    BY <1>1, <1>4, <1>5, <1>15, <1>17, EndKeeps

\* An end tag of what is not open: the counters of what is open stay.
LEMMA StrayTagKeeps ==
    ASSUME TextIInv, NEW tag \in PageTags, StrayTag(tag)
    PROVE  TextIInv'
<1>1. /\ TextTypes /\ CountersFit /\ TextsAreTold /\ fed' = fed + 1 /\ fed' \in 0..MaxTokens
      /\ parser' = Ended(parser, tag) /\ seen' = seen /\ veiled' = veiled
      /\ fed \in Nat /\ parser \in ParserType
      /\ open' = open /\ unclosed' = unclosed /\ ended' = ended
    BY ParserFields, StudyTextAssumption DEF TextIInv, TextTypes, StrayTag
<1>2. /\ crossed' \in BOOLEAN /\ (crossed => crossed')
      /\ ~ crossed' => ~ crossed /\ (tag \in HiddenTags => Visible)
    BY <1>1 DEF StrayTag, TextTypes
<1>3. /\ parser'.hidden = IF tag \in HiddenTags /\ parser.hidden > 0 THEN parser.hidden - 1
                          ELSE parser.hidden
      /\ parser.hidden > 0 =>
            /\ parser'.content = parser.content /\ parser'.heading = parser.heading
            /\ parser'.titled = parser.titled
      /\ parser.hidden = 0 =>
            /\ parser'.content = IF tag \in ContentTags /\ parser.content > 0
                                 THEN parser.content - 1 ELSE parser.content
            /\ parser'.titled = IF tag = "title" /\ parser.titled > 0
                                THEN parser.titled - 1 ELSE parser.titled
            /\ parser'.heading = IF tag = "h1" /\ parser.content > 0 /\ parser.heading > 0
                                 THEN parser.heading - 1 ELSE parser.heading
    BY <1>1, EndedDoes
<1>4. /\ parser.hidden \in 0..fed /\ parser.content \in 0..fed
      /\ parser.heading \in 0..fed /\ parser.titled \in 0..fed
    BY <1>1, ParserFields
<1>5. \A tags : Depth(tags)' = Depth(tags) /\ Depth(tags) \in Nat
    <2> TAKE tags
    <2>1. NotedOf(tags)' = NotedOf(tags)
        BY <1>1 DEF NotedOf, Noted
    <2> QED
        BY <1>1, <2>1, DepthIs DEF Depth
<1>6. /\ tag \in ContentTags => Depth(ContentTags) = 0
      /\ tag = "h1" => Depth({"h1"}) = 0
      /\ tag = "title" => Depth({"title"}) = 0
    <2>1. \A j \in DOMAIN open : open[j] # tag
        BY DEF StrayTag, Within
    <2>2. /\ tag \in ContentTags => NotedOf(ContentTags) = {}
          /\ tag = "h1" => NotedOf({"h1"}) = {}
          /\ tag = "title" => NotedOf({"title"}) = {}
        BY <2>1, TagsDiffer DEF NotedOf
    <2> QED
        BY <1>1, <2>2, DepthIs
<1>7. ~ crossed' => (tag \in HiddenTags => Depth(HiddenTags) = 0)
    BY <1>1, <1>2, WhatIsOpen
<1>8. /\ HiddenClosed' => HiddenClosed /\ ~ crossed'
      /\ AllClosed' => AllClosed /\ HiddenClosed'
    BY <1>1, <1>2 DEF HiddenClosed, AllClosed
<1>9. ~ crossed' => Depth(HiddenTags)' <= parser'.hidden
    BY <1>1, <1>2, <1>3, <1>4, <1>5, <1>7 DEF CountersFit
<1>10. ASSUME HiddenClosed'
       PROVE  /\ parser'.hidden = Depth(HiddenTags)' /\ Depth(ContentTags)' <= parser'.content
              /\ Depth({"h1"})' <= parser'.heading /\ Depth({"title"})' <= parser'.titled
    <2>1. /\ parser.hidden = Depth(HiddenTags) /\ Depth(ContentTags) <= parser.content
          /\ Depth({"h1"}) <= parser.heading /\ Depth({"title"}) <= parser.titled
        BY <1>1, <1>8, <1>10 DEF CountersFit
    <2>2. parser'.hidden = Depth(HiddenTags)'
        BY <1>3, <1>4, <1>5, <1>7, <1>8, <1>10, <2>1
    <2>3. Depth(ContentTags)' <= parser'.content
        BY <1>3, <1>4, <1>5, <1>6, <2>1
    <2>4. Depth({"h1"})' <= parser'.heading
        BY <1>3, <1>4, <1>5, <1>6, <2>1
    <2>5. Depth({"title"})' <= parser'.titled
        BY <1>3, <1>4, <1>5, <1>6, <2>1
    <2> QED
        BY <2>2, <2>3, <2>4, <2>5
<1>11. ASSUME AllClosed'
       PROVE  /\ parser'.content = Depth(ContentTags)' /\ parser'.heading = Depth({"h1"})'
              /\ parser'.titled = Depth({"title"})'
    <2>1. /\ parser.content = Depth(ContentTags) /\ parser.heading = Depth({"h1"})
          /\ parser.titled = Depth({"title"})
        BY <1>1, <1>8, <1>11 DEF CountersFit
    <2>2. parser'.content = Depth(ContentTags)'
        BY <1>3, <1>4, <1>5, <1>6, <2>1
    <2>3. parser'.heading = Depth({"h1"})'
        BY <1>3, <1>4, <1>5, <1>6, <2>1
    <2>4. parser'.titled = Depth({"title"})'
        BY <1>3, <1>4, <1>5, <1>6, <2>1
    <2> QED
        BY <2>2, <2>3, <2>4
<1>12. CountersFit'
    BY <1>9, <1>10, <1>11 DEF CountersFit
<1>13. /\ open' \in Seq(PageTags) /\ Len(open') <= MaxOpen
       /\ unclosed \subseteq unclosed' /\ unclosed' \subseteq PageTags
    BY <1>1 DEF TextTypes
<1>14. /\ TextTypes /\ CountersFit /\ TextsAreTold /\ fed' = fed + 1 /\ fed' \in 0..MaxTokens
       /\ parser' = Ended(parser, tag) /\ seen' = seen /\ veiled' = veiled /\ ended' = ended
    BY <1>1
<1>15. crossed' \in BOOLEAN /\ (crossed => crossed')
    BY <1>2
<1> QED
    BY <1>12, <1>13, <1>14, <1>15, EndKeeps

LEMMA LineBreakKeeps ==
    ASSUME TextIInv, LineBreak
    PROVE  TextIInv'
<1>1. /\ TextTypes /\ CountersFit /\ TextsAreTold /\ fed' = fed + 1 /\ fed' \in 0..MaxTokens
      /\ parser' = Started(parser, "br") /\ open' = open /\ seen' = seen /\ veiled' = veiled
      /\ ended' = ended /\ unclosed' = unclosed /\ crossed' = crossed
      /\ fed \in Nat /\ parser \in ParserType
    BY ParserFields, StudyTextAssumption DEF TextIInv, TextTypes, LineBreak, history
<1>2. parser' = parser \/ parser' = [parser EXCEPT !.text = Append(@, Break)]
    BY <1>1, BrokenTexts
<1>3. Append(parser.text, Break) \in Written
    BY <1>1 DEF ParserType, Written, Break
<1>4. parser' \in ParserType
    BY <1>1, <1>2, <1>3 DEF ParserType
<1>5. /\ parser'.hidden = parser.hidden /\ parser'.content = parser.content
      /\ parser'.heading = parser.heading /\ parser'.titled = parser.titled
      /\ parser'.headings = parser.headings /\ parser'.title = parser.title
      /\ parser'.text = parser.text \/ parser'.text = Append(parser.text, Break)
    BY <1>1, <1>2 DEF ParserType
<1>6. TextTypes'
    <2>1. /\ parser' \in ParserType' /\ seen' \in SeenType' /\ ended' \in EndedType'
          /\ veiled' \subseteq 1..fed'
        BY <1>1, <1>4, TypesGrow DEF TextTypes
    <2> QED
        BY <1>1, <2>1 DEF TextTypes
<1>7. \A tags : Depth(tags)' = Depth(tags)
    BY <1>1 DEF Depth, NotedOf, Noted
<1>8. CountersFit'
    BY <1>1, <1>5, <1>7 DEF CountersFit, HiddenClosed, AllClosed
<1>9. PICK due, u, F : due = seen.text /\ u = parser'.text /\ F = ended.text
    OBVIOUS
<1>10. Told(u, due, F)'
    <2>1. /\ parser.text \in Seq(0..fed) /\ ended.text \subseteq 1..fed
          /\ Told(parser.text, seen.text, ended.text)
        BY <1>1, ParserFields DEF TextsAreTold
    <2> QED
        BY <1>1, <1>5, <1>9, <2>1, ToldWithBreak
<1>11. TextsAreTold'
    BY <1>1, <1>5, <1>9, <1>10 DEF TextsAreTold, Told, HiddenClosed, AllClosed
<1> QED
    BY <1>6, <1>8, <1>11 DEF TextIInv

\* A piece of text: the parser takes it where a reader sees it, as far as its
\* counters are right.
LEMMA TextKeeps ==
    ASSUME TextIInv, Text
    PROVE  TextIInv'
<1>1. /\ TextTypes /\ CountersFit /\ TextsAreTold /\ fed' = fed + 1 /\ fed' \in 0..MaxTokens
      /\ open' = open /\ ended' = ended /\ unclosed' = unclosed /\ crossed' = crossed
      /\ fed \in Nat /\ parser \in ParserType /\ seen \in SeenType /\ veiled \subseteq 1..fed
    BY ParserFields, StudyTextAssumption DEF TextIInv, TextTypes, Text
<1>2. /\ parser.hidden \in 0..fed /\ parser.content \in 0..fed
      /\ parser.heading \in 0..fed /\ parser.titled \in 0..fed
      /\ parser.text \in Seq(0..fed) /\ parser.headings \in Seq(0..fed)
      /\ parser.title \in Seq(0..fed)
      /\ seen.text \in Seq(1..fed) /\ seen.headings \in Seq(1..fed)
      /\ seen.title \in Seq(1..fed)
      /\ ended.text \subseteq 1..fed /\ ended.headings \subseteq 1..fed
      /\ ended.title \subseteq 1..fed
    BY <1>1, ParserFields
<1> DEFINE d == parser.hidden > 0
           t == parser.titled > 0
           c == parser.content > 0
           h == parser.content > 0 /\ parser.heading > 0
           T == Visible /\ Within({"title"})
           C == Visible /\ Within(ContentTags)
           H == Visible /\ InHeading
           new(s, takes) == IF takes THEN Append(s, fed + 1) ELSE s
<1>3. /\ parser'.title = IF ~ d /\ t THEN Append(parser.title, fed + 1) ELSE parser.title
      /\ parser'.text = IF ~ d /\ c THEN Append(parser.text, fed + 1) ELSE parser.text
      /\ parser'.headings = IF ~ d /\ h THEN Append(parser.headings, fed + 1) ELSE parser.headings
      /\ parser'.hidden = parser.hidden /\ parser'.content = parser.content
      /\ parser'.heading = parser.heading /\ parser'.titled = parser.titled
      /\ parser' = [hidden |-> parser.hidden, content |-> parser.content,
                    heading |-> parser.heading, titled |-> parser.titled,
                    text |-> parser'.text, headings |-> parser'.headings,
                    title |-> parser'.title]
    <2>1. parser' = Data(parser, fed + 1)
        BY <1>1 DEF Text
    <2> HIDE DEF t, c, h
    <2>2. CASE d
        <3>1. parser' = parser
            BY <2>1, <2>2 DEF Data
        <3> QED
            BY <1>1, <2>2, <3>1 DEF ParserType
    <2>3. CASE ~ d
        <3>1. parser' = [parser EXCEPT !.title = IF t THEN Append(@, fed + 1) ELSE @,
                                       !.text = IF c THEN Append(@, fed + 1) ELSE @,
                                       !.headings = IF h THEN Append(@, fed + 1) ELSE @]
            BY <2>1, <2>3 DEF Data, t, c, h
        <3> QED
            BY <1>1, <2>3, <3>1 DEF ParserType
    <2> QED
        BY <2>2, <2>3
<1>4. /\ seen'.title = IF T THEN Append(seen.title, fed + 1) ELSE seen.title
      /\ seen'.text = IF C THEN Append(seen.text, fed + 1) ELSE seen.text
      /\ seen'.headings = IF H THEN Append(seen.headings, fed + 1) ELSE seen.headings
      /\ seen' = [text |-> seen'.text, headings |-> seen'.headings, title |-> seen'.title]
    <2>1. CASE Visible
        <3> DEFINE wt == Within({"title"})
                   wc == Within(ContentTags)
                   wh == InHeading
        <3>1. seen' = [seen EXCEPT !.title = IF wt THEN Append(@, fed + 1) ELSE @,
                                   !.text = IF wc THEN Append(@, fed + 1) ELSE @,
                                   !.headings = IF wh THEN Append(@, fed + 1) ELSE @]
            BY <1>1, <2>1 DEF Text
        <3>2. (T <=> wt) /\ (C <=> wc) /\ (H <=> wh)
            BY <2>1
        <3> HIDE DEF wt, wc, wh, T, C, H
        <3> QED
            BY <1>1, <3>1, <3>2 DEF SeenType
    <2>2. CASE ~ Visible
        <3>1. seen' = seen
            BY <2>2 DEF Text
        <3> QED
            BY <1>1, <2>2, <3>1 DEF SeenType
    <2> QED
        BY <2>1, <2>2
<1>5. /\ ~ crossed /\ ~ Visible => d
      /\ HiddenClosed =>
            /\ T => ~ d /\ t
            /\ C => ~ d /\ c
            /\ H => ~ d /\ h
      /\ AllClosed =>
            /\ T <=> ~ d /\ t
            /\ C <=> ~ d /\ c
            /\ H <=> ~ d /\ h
    <2>1. InHeading => Within(ContentTags)
        BY DEF InHeading, Within
    <2> QED
        BY <1>1, <1>2, <2>1, CountersTell
<1>6. veiled' = veiled \/ (veiled' = veiled \cup {fed + 1} /\ ~ Visible)
    BY <1>1 DEF Text, Added
<1> HIDE DEF d, t, c, h, T, C, H
<1>7. TextTypes'
    <2>1. ASSUME NEW s \in Seq(0..fed) PROVE s \in Seq(0..fed') /\ Append(s, fed + 1) \in Seq(0..fed')
        <3>1. s \in Seq(0..fed')
            BY <1>1, <2>1, TypesGrow DEF Written
        <3>2. fed + 1 \in 0..fed'
            BY <1>1
        <3> QED
            BY <3>1, <3>2
    <2>2. ASSUME NEW s \in Seq(1..fed) PROVE s \in Seq(1..fed') /\ Append(s, fed + 1) \in Seq(1..fed')
        <3>1. s \in Seq(1..fed')
            BY <1>1, <2>2, TypesGrow
        <3>2. fed + 1 \in 1..fed'
            BY <1>1
        <3> QED
            BY <3>1, <3>2
    <2>3. parser' \in ParserType'
        <3>1. /\ parser'.title \in Written' /\ parser'.text \in Written'
              /\ parser'.headings \in Written'
            BY <1>2, <1>3, <2>1 DEF Written
        <3>2. /\ parser.hidden \in 0..fed' /\ parser.content \in 0..fed'
              /\ parser.heading \in 0..fed' /\ parser.titled \in 0..fed'
            BY <1>1, <1>2
        <3> QED
            BY <1>3, <3>1, <3>2 DEF ParserType
    <2>4. seen' \in SeenType'
        <3>1. /\ seen'.title \in Seq(1..fed') /\ seen'.text \in Seq(1..fed')
              /\ seen'.headings \in Seq(1..fed')
            BY <1>2, <1>4, <2>2
        <3> QED
            BY <1>4, <3>1 DEF SeenType
    <2>5. ended' \in EndedType' /\ veiled' \subseteq 1..fed'
        <3>1. ended' \in EndedType'
            BY <1>1, TypesGrow DEF TextTypes
        <3>2. 1..fed \subseteq 1..fed' /\ fed + 1 \in 1..fed'
            BY <1>1
        <3> QED
            BY <1>1, <1>6, <3>1, <3>2
    <2> QED
        BY <1>1, <2>3, <2>4, <2>5 DEF TextTypes
<1>8. \A tags : Depth(tags)' = Depth(tags)
    BY <1>1 DEF Depth, NotedOf, Noted
<1>9. CountersFit'
    BY <1>1, <1>3, <1>8 DEF CountersFit, HiddenClosed, AllClosed
<1>10. AllClosed => HiddenClosed
    BY DEF AllClosed, HiddenClosed
<1>11. /\ Told(parser.text, seen.text, ended.text)
       /\ Told(parser.headings, seen.headings, ended.headings)
       /\ Told(parser.title, seen.title, ended.title)
    BY <1>1 DEF TextsAreTold
<1>12. PICK u, w, E : u = parser'.text /\ w = seen'.text /\ E = ended.text
    OBVIOUS
<1>13. Told(u, w, E)'
    <2>1. /\ ~ crossed /\ ~ Visible => u = parser.text
          /\ HiddenClosed /\ w # seen.text => u = Append(parser.text, fed + 1)
          /\ AllClosed /\ w = seen.text => u = parser.text
        <3>1. Append(seen.text, fed + 1) # seen.text
            BY <1>2
        <3> QED
            BY <1>3, <1>4, <1>5, <1>12, <3>1
    <2>2. /\ u = parser.text \/ u = Append(parser.text, fed + 1)
          /\ w = seen.text \/ w = Append(seen.text, fed + 1)
        BY <1>3, <1>4, <1>12
    <2> QED
        BY <1>1, <1>2, <1>6, <1>11, <1>12, <2>1, <2>2, ToldWithToken
<1>14. PICK uh, wh, Eh : uh = parser'.headings /\ wh = seen'.headings /\ Eh = ended.headings
    OBVIOUS
<1>15. Told(uh, wh, Eh)'
    <2>1. /\ ~ crossed /\ ~ Visible => uh = parser.headings
          /\ HiddenClosed /\ wh # seen.headings => uh = Append(parser.headings, fed + 1)
          /\ AllClosed /\ wh = seen.headings => uh = parser.headings
        <3>1. Append(seen.headings, fed + 1) # seen.headings
            BY <1>2
        <3> QED
            BY <1>3, <1>4, <1>5, <1>14, <3>1
    <2>2. /\ uh = parser.headings \/ uh = Append(parser.headings, fed + 1)
          /\ wh = seen.headings \/ wh = Append(seen.headings, fed + 1)
        BY <1>3, <1>4, <1>14
    <2> QED
        BY <1>1, <1>2, <1>6, <1>11, <1>14, <2>1, <2>2, ToldWithToken
<1>16. PICK ut, wt, Et : ut = parser'.title /\ wt = seen'.title /\ Et = ended.title
    OBVIOUS
<1>17. Told(ut, wt, Et)'
    <2>1. /\ ~ crossed /\ ~ Visible => ut = parser.title
          /\ HiddenClosed /\ wt # seen.title => ut = Append(parser.title, fed + 1)
          /\ AllClosed /\ wt = seen.title => ut = parser.title
        <3>1. Append(seen.title, fed + 1) # seen.title
            BY <1>2
        <3> QED
            BY <1>3, <1>4, <1>5, <1>16, <3>1
    <2>2. /\ ut = parser.title \/ ut = Append(parser.title, fed + 1)
          /\ wt = seen.title \/ wt = Append(seen.title, fed + 1)
        BY <1>3, <1>4, <1>16
    <2> QED
        BY <1>1, <1>2, <1>6, <1>11, <1>16, <2>1, <2>2, ToldWithToken
<1>18. TextsAreTold'
    BY <1>1, <1>12, <1>13, <1>14, <1>15, <1>16, <1>17 DEF TextsAreTold, Told
<1> QED
    BY <1>7, <1>9, <1>18 DEF TextIInv

LEMMA TextIsKept ==
    ASSUME TextIInv, [TextNext]_textVars
    PROVE  TextIInv'
<1>1. CASE OpenTag
    BY <1>1, OpenTagKeeps
<1>2. CASE LineBreak
    BY <1>2, LineBreakKeeps
<1>3. CASE \E tag \in PageTags : CloseTag(tag)
    BY <1>3, CloseTagKeeps
<1>4. CASE \E tag \in PageTags : StrayTag(tag)
    BY <1>4, StrayTagKeeps
<1>5. CASE Text
    BY <1>5, TextKeeps
<1>6. CASE UNCHANGED textVars
    BY <1>6 DEF TextIInv, textVars, TextTypes, ParserType, Written, SeenType, EndedType,
                CountersFit, HiddenClosed, AllClosed, Depth, NotedOf, Noted, TextsAreTold, Told
<1> QED
    BY <1>1, <1>2, <1>3, <1>4, <1>5, <1>6 DEF TextNext

LEMMA TextIInvIsEnough ==
    ASSUME TextIInv
    PROVE  StudyTextInv
<1>1. TextTypes /\ TextsAreTold
    BY DEF TextIInv
<1>2. StudyTextTypeOK
    BY <1>1 DEF StudyTextTypeOK, TextTypes, ParserType, Written, SeenType, EndedType
<1>3. HiddenProvesNothing
    BY <1>1 DEF HiddenProvesNothing, TextsAreTold, Told
<1>4. NothingIsMissed
    BY <1>1 DEF NothingIsMissed, TextsAreTold, Told, HiddenClosed
<1>5. TextIsVisible
    BY <1>1 DEF TextIsVisible, SameText, TextsAreTold, Told, AllClosed
<1>6. ElementsStayApart
    BY <1>1 DEF ElementsStayApart, TextsAreTold, Told, HiddenClosed
<1> QED
    BY <1>2, <1>3, <1>4, <1>5, <1>6 DEF StudyTextInv

(* Whatever a page nests, leaves open or closes too often, the parser's    *)
(* counters never fall below the elements that are open, except by a       *)
(* stray end tag within a hidden element.  So nothing hidden is evidence,  *)
(* nothing is missed but after a hidden element left open, what has ended  *)
(* is kept apart from what follows, and a page that closes what counts is  *)
(* read as a reader sees it.                                               *)
THEOREM TextIsShown == TextSpec => []StudyTextInv
<1>1. TextInit => TextIInv
    BY TextStarts
<1>2. TextIInv /\ [TextNext]_textVars => TextIInv'
    BY TextIsKept
<1>3. TextIInv => StudyTextInv
    BY TextIInvIsEnough
<1> QED
    BY <1>1, <1>2, <1>3, PTL DEF TextSpec

-------------------------------------------------------------------------------
(* Reported quantities.  Neither feed crowds the other out: of the first h *)
(* posts of a feed that name a number, each has at most 2h - 1 in front of *)
(* it, whatever the other feed offers.                                     *)

LEMMA LeastOfSome ==
    ASSUME NEW S \in SUBSET Nat, S # {}
    PROVE  \E m \in S : \A n \in S : m <= n
<1>1. PICK m \in S : \A n \in S : <<n, m>> \notin OpToRel(<, Nat)
    BY NatLessThanWellFounded, WFMin
<1>2. \A n \in S : ~ (n < m)
    BY <1>1 DEF OpToRel
<1> QED
    BY <1>2

LEMMA MinOfTwo ==
    ASSUME NEW a \in Int, NEW b \in Int
    PROVE  /\ Min({a, b}) \in {a, b} /\ Min({a, b}) <= a /\ Min({a, b}) <= b
<1>1. \E x \in {a, b} : \A y \in {a, b} : x <= y
    BY a <= b \/ b <= a
<1>2. Min({a, b}) \in {a, b} /\ \A y \in {a, b} : Min({a, b}) <= y
    BY <1>1 DEF Min
<1> QED
    BY <1>2

\* The first k of a finite set of places are k places, or all there are.
LEMMA FirstTurns ==
    ASSUME NEW named \in SUBSET Nat, IsFiniteSet(named), NEW k \in Nat
    PROVE  LET first == {n \in named : Turn(named, n) <= k}
           IN  /\ IsFiniteSet(first)
               /\ Cardinality(first) >= k \/ Cardinality(first) = Cardinality(named)
<1> DEFINE first == {n \in named : Turn(named, n) <= k}
<1>1. IsFiniteSet(first) /\ Cardinality(first) \in Nat
    BY FS_Subset, FS_CardinalityType
<1>2. CASE first = named
    BY <1>1, <1>2
<1>3. CASE first # named
    <2> DEFINE upTo(m) == {x \in named : x <= m}
    <2>1. \A x \in named : x \notin first => ~ (Turn(named, x) <= k)
        OBVIOUS
    <2>9. first \in SUBSET named
        OBVIOUS
    <2> HIDE DEF first
    <2>7. PICK m \in named \ first : \A n \in named \ first : m <= n
        <3>1. named \ first \in SUBSET Nat /\ named \ first # {}
            BY <1>3, <2>9
        <3> QED
            BY <3>1, LeastOfSome
    <2>2. upTo(m) \subseteq first \cup {m}
        <3>1. ASSUME NEW x \in named, x <= m, x \notin first PROVE x = m
            <4>1. m <= x /\ m \in Nat /\ x \in Nat
                BY <2>7, <3>1
            <4> QED
                BY <3>1, <4>1
        <3> QED
            BY <3>1
    <2>3. Turn(named, m) = Cardinality(upTo(m)) /\ ~ (Turn(named, m) <= k)
        BY <2>1, <2>7 DEF Turn
    <2>4. IsFiniteSet(first \cup {m}) /\ Cardinality(first \cup {m}) = Cardinality(first) + 1
        BY <1>1, <2>7, FS_AddElement
    <2>5. Cardinality(upTo(m)) <= Cardinality(first) + 1 /\ Cardinality(upTo(m)) \in Nat
        BY <2>2, <2>4, FS_Subset, FS_CardinalityType
    <2> HIDE DEF upTo
    <2>6. Cardinality(first) >= k
        BY <1>1, <2>3, <2>5
    <2> QED
        BY <1>1, <2>6 DEF first
<1> QED
    BY <1>2, <1>3

LEMMA TurnsAreCounted ==
    ASSUME NEW named \in SUBSET Nat, IsFiniteSet(named), NEW n \in named
    PROVE  Turn(named, n) \in Nat
<1>1. IsFiniteSet({m \in named : m <= n})
    BY FS_Subset
<1> QED
    BY <1>1, FS_CardinalityType DEF Turn

\* A post in its feed's first half is taken, whatever there is ahead of it.
LEMMA FirstHalfIsTaken ==
    ASSUME NEW feeds, NEW b \in {1, 2}, NEW n \in Naming(feeds[b]),
           \A c \in {1, 2} : Naming(feeds[c]) \in SUBSET Nat /\ IsFiniteSet(Naming(feeds[c])),
           ManifestLimit \in Nat,
           Turn(Naming(feeds[b]), n) <= ManifestLimit \div 2
    PROVE  feeds[b][n] \in Fairly(feeds)
<1> DEFINE turn == Turn(Naming(feeds[b]), n)
           mine == IF b = 1 THEN turn - 1 ELSE turn
           others == Cardinality(Naming(feeds[3 - b]))
           h == ManifestLimit \div 2
           L == ManifestLimit
<1>1. turn \in Nat
    BY TurnsAreCounted
<1>2. 3 - b \in {1, 2} /\ others \in Nat
    BY FS_CardinalityType
<1>3. h \in Nat /\ 2 * h <= L /\ turn <= h /\ L \in Nat
    OBVIOUS
<1>5. mine \in Int /\ mine <= turn
    BY <1>1
<1> HIDE DEF turn, others, h, L, mine
<1>4. Min({mine, others}) \in Int /\ Min({mine, others}) <= mine
    BY <1>2, <1>5, MinOfTwo
<1>6. turn - 1 + Min({mine, others}) < L
    BY <1>1, <1>3, <1>4, <1>5
<1> QED
    <2> DEFINE place(c, i) == Turn(Naming(feeds[c]), i)
               ahead(c, i) == place(c, i) - 1 +
                              Min({IF c = 1 THEN place(c, i) - 1 ELSE place(c, i),
                                   Cardinality(Naming(feeds[3 - c]))})
               part(c) == {feeds[c][i] : i \in {m \in Naming(feeds[c]) : ahead(c, m) < L}}
    <2>1. ahead(b, n) < L
        BY <1>6 DEF turn, others, mine
    <2>2. Fairly(feeds) = UNION {part(c) : c \in {1, 2}}
        BY DEF Fairly, L
    <2> HIDE DEF ahead
    <2>3. feeds[b][n] \in part(b)
        BY <2>1
    <2> HIDE DEF part
    <2> QED
        BY <2>2, <2>3

LEMMA OfferIsFinite ==
    ASSUME NEW feed \in {VideoTimes, Skeets}
    PROVE  /\ Naming(feed) \in SUBSET Nat /\ IsFiniteSet(Naming(feed))
           /\ IsFiniteSet(Offered(feed)) /\ Cardinality(Offered(feed)) = Cardinality(Naming(feed))
           /\ \A T \in SUBSET Naming(feed) :
                 Cardinality({feed[n] : n \in T}) = Cardinality(T)
<1>1. /\ feed \in Seq(Nat) /\ \A i, j \in DOMAIN feed : feed[i] = feed[j] => i = j
    BY VolumeAssumption
<1>2. DOMAIN feed = 1..Len(feed) /\ Len(feed) \in Nat
    BY <1>1
<1>3. IsFiniteSet(DOMAIN feed) /\ DOMAIN feed \subseteq Nat
    BY <1>2, FS_Interval
<1>4. Naming(feed) \subseteq DOMAIN feed
    BY DEF Naming
<1>5. Naming(feed) \in SUBSET Nat /\ IsFiniteSet(Naming(feed))
    BY <1>3, <1>4, FS_Subset
<1>6. ASSUME NEW T \in SUBSET Naming(feed)
      PROVE  /\ IsFiniteSet({feed[n] : n \in T})
             /\ Cardinality({feed[n] : n \in T}) = Cardinality(T)
    <2> DEFINE image == {feed[n] : n \in T}
               f == [n \in T |-> feed[n]]
    <2>1. IsFiniteSet(T)
        BY <1>5, FS_Subset
    <2>2. ExistsBijection(T, image)
        <3>1. f \in [T -> image]
            OBVIOUS
        <3>2. f \in Injection(T, image)
            BY <1>1, <1>4, <3>1 DEF Injection, IsInjective
        <3>3. f \in Surjection(T, image)
            BY <3>1 DEF Surjection
        <3> QED
            BY <3>2, <3>3 DEF ExistsBijection, Bijection
    <2> HIDE DEF image
    <2>3. IsFiniteSet(image) /\ Cardinality(image) = Cardinality(T)
        BY <2>1, <2>2, FS_Bijection
    <2> QED
        BY <2>3 DEF image
<1> QED
    BY <1>5, <1>6 DEF Offered

-------------------------------------------------------------------------------
(* Every read of a page, and every read still to come of a batch that      *)
(* claimed it, is paid for by a try of its row.                            *)

RowStates == {"reported", "checking", "verified", "conflicting"}
IsRow(r) ==
    \E s \in RowStates, a \in 0..CheckAttempts, t, c \in Nat : \E f :
        r = [state |-> s, attempts |-> a, until |-> t, checked |-> c, facts |-> f]

RowsOK ==
    \A u \in URLs_ :
        row[u] # NoRow =>
            /\ IsRow(row[u])
            /\ row[u].until > 0 <=> row[u].state = "checking"
            /\ u \in Posts => row[u].state \in {"reported", "conflicting"}

VolumeShape ==
    /\ clock \in 0..VolumeEnd /\ aliases \in [Reports -> SUBSET Addresses]
    /\ row = [u \in URLs_ |-> row[u]] /\ reads \in [URLs_ -> Nat]
    /\ batch \in [Checkers -> Seq(Addresses)]
    /\ reading \in [Checkers -> {"none", "verified", "retry"}]

BatchesOK ==
    \A w \in Checkers :
        /\ Len(batch[w]) <= BatchLimit
        /\ \A i, j \in DOMAIN batch[w] : batch[w][i] = batch[w][j] => i = j
        /\ batch[w] = <<>> => reading[w] = "none"

\* The batch of w is still to read u.
Awaits(w, u) == \E i \in DOMAIN batch[w] : batch[w][i] = u /\ ~ (i = 1 /\ reading[w] # "none")
Awaiting(u) == {w \in Checkers : Awaits(w, u)}

TriesOK ==
    \A u \in URLs_ :
        /\ row[u] = NoRow => reads[u] = 0 /\ Awaiting(u) = {}
        /\ row[u] # NoRow /\ u \notin Posts =>
              reads[u] + Cardinality(Awaiting(u)) <= row[u].attempts
        /\ u \in Posts => reads[u] = 0

VolumeIInv == VolumeShape /\ RowsOK /\ BatchesOK /\ TriesOK /\ FairShare

LEMMA RowFields ==
    ASSUME NEW r, IsRow(r)
    PROVE  /\ r # NoRow /\ r.state \in RowStates /\ r.attempts \in 0..CheckAttempts
           /\ r.until \in Nat /\ r.checked \in Nat
<1>5. PICK s \in RowStates, a \in 0..CheckAttempts, t \in Nat, c \in Nat : \E f :
          r = [state |-> s, attempts |-> a, until |-> t, checked |-> c, facts |-> f]
    BY DEF IsRow
<1>1. PICK f : r = [state |-> s, attempts |-> a, until |-> t, checked |-> c, facts |-> f]
    BY <1>5
<1>2. r.state = s /\ r.attempts = a /\ r.until = t /\ r.checked = c
    BY <1>1
<1>3. NoRow.state = "absent" /\ s # "absent"
    BY DEF NoRow, RowStates
<1> QED
    BY <1>2, <1>3

LEMMA RowUnlocks ==
    ASSUME NEW r, IsRow(r), NEW s \in RowStates
    PROVE  LET q == RowUnlocked(r, s)
           IN  /\ IsRow(q) /\ q.state = s /\ q.until = 0 /\ q.attempts = r.attempts
               /\ q.facts = r.facts
<1>1. PICK z \in RowStates, a \in 0..CheckAttempts, t \in Nat, c \in Nat : \E f :
          r = [state |-> z, attempts |-> a, until |-> t, checked |-> c, facts |-> f]
    BY DEF IsRow
<1>2. PICK f : r = [state |-> z, attempts |-> a, until |-> t, checked |-> c, facts |-> f]
    BY <1>1
<1> DEFINE mid == [r EXCEPT !.state = s]
<1>3. /\ RowUnlocked(r, s) = [mid EXCEPT !.until = 0]
      /\ mid = [state |-> s, attempts |-> a, until |-> t, checked |-> c, facts |-> f]
    BY <1>2 DEF RowUnlocked
<1> HIDE DEF mid
<1> DEFINE q == [state |-> s, attempts |-> a, until |-> 0, checked |-> c, facts |-> f]
<1>4. RowUnlocked(r, s) = q
    BY <1>3
<1>5. IsRow(q) /\ q.state = s /\ q.until = 0 /\ q.attempts = a /\ q.facts = f
    BY DEF IsRow
<1>6. r.attempts = a /\ r.facts = f
    BY <1>2
<1> HIDE DEF q
<1> QED
    BY <1>4, <1>5, <1>6

LEMMA RowIsChecked ==
    ASSUME NEW r, IsRow(r), NEW k \in Nat
    PROVE  LET q == [r EXCEPT !.checked = k]
           IN  /\ IsRow(q) /\ q.state = r.state /\ q.until = r.until
               /\ q.attempts = r.attempts /\ q.facts = r.facts
<1>1. PICK z \in RowStates, a \in 0..CheckAttempts, t \in Nat, c \in Nat : \E f :
          r = [state |-> z, attempts |-> a, until |-> t, checked |-> c, facts |-> f]
    BY DEF IsRow
<1>2. PICK f : r = [state |-> z, attempts |-> a, until |-> t, checked |-> c, facts |-> f]
    BY <1>1
<1> DEFINE q == [state |-> z, attempts |-> a, until |-> t, checked |-> k, facts |-> f]
<1>4. [r EXCEPT !.checked = k] = q
    BY <1>2
<1>5. IsRow(q) /\ q.state = z /\ q.until = t /\ q.attempts = a /\ q.facts = f
    BY DEF IsRow
<1>6. r.attempts = a /\ r.state = z /\ r.until = t /\ r.facts = f
    BY <1>2
<1> HIDE DEF q
<1> QED
    BY <1>4, <1>5, <1>6

RowClaimed(r, until) ==
    [r EXCEPT !.state = "checking", !.attempts = @ + 1, !.until = until]

LEMMA RowIsClaimed ==
    ASSUME NEW r, IsRow(r), r.attempts < CheckAttempts, CheckAttempts \in Nat, NEW u \in Nat
    PROVE  LET q == RowClaimed(r, u)
           IN  /\ IsRow(q) /\ q.state = "checking" /\ q.until = u
               /\ q.attempts = r.attempts + 1 /\ q.facts = r.facts
<1>1. PICK z \in RowStates, a \in 0..CheckAttempts, t \in Nat, c \in Nat : \E f :
          r = [state |-> z, attempts |-> a, until |-> t, checked |-> c, facts |-> f]
    BY DEF IsRow
<1>2. PICK f : r = [state |-> z, attempts |-> a, until |-> t, checked |-> c, facts |-> f]
    BY <1>1
<1>6. r.attempts = a /\ a + 1 \in 0..CheckAttempts /\ r.facts = f
    BY <1>2
<1> DEFINE s == "checking"
           n == a + 1
           mid == [r EXCEPT !.state = s]
           more == [mid EXCEPT !.attempts = n]
           q == [state |-> s, attempts |-> n, until |-> u, checked |-> c, facts |-> f]
<1>3. mid = [state |-> s, attempts |-> a, until |-> t, checked |-> c, facts |-> f]
    BY <1>2
<1>4. RowClaimed(r, u) = [more EXCEPT !.until = u]
    BY <1>2, <1>6 DEF RowClaimed
<1>8. IsRow(q) /\ q.state = "checking" /\ q.until = u /\ q.attempts = a + 1 /\ q.facts = f
    BY <1>6 DEF IsRow, RowStates
<1> HIDE DEF mid, n, s, q
<1>7. more = [state |-> s, attempts |-> n, until |-> t, checked |-> c, facts |-> f]
    BY <1>3
<1> HIDE DEF more
<1>5. RowClaimed(r, u) = q
    BY <1>4, <1>7 DEF q
<1> QED
    BY <1>5, <1>6, <1>8

LEMMA AwaitingIsFinite ==
    ASSUME NEW u
    PROVE  IsFiniteSet(Awaiting(u)) /\ Cardinality(Awaiting(u)) \in Nat
<1>1. Awaiting(u) \subseteq Checkers /\ IsFiniteSet(Checkers)
    BY VolumeAssumption DEF Awaiting
<1> QED
    BY <1>1, FS_Subset, FS_CardinalityType

LEMMA VolumeStarts ==
    ASSUME VolumeInit
    PROVE  VolumeIInv
<1>1. VolumeShape
    BY VolumeAssumption DEF VolumeInit, VolumeShape
<1>2. RowsOK
    BY DEF VolumeInit, RowsOK
<1>3. BatchesOK
    BY VolumeAssumption DEF VolumeInit, BatchesOK
<1>4. \A u : Awaiting(u) = {}
    BY DEF VolumeInit, Awaiting, Awaits
<1>5. TriesOK
    BY <1>4 DEF VolumeInit, TriesOK
<1>6. FairShare
    <2>1. offered[1] = {} /\ offered[2] = {} /\ taken = {}
        BY DEF VolumeInit
    <2>2. Cardinality({}) = 0
        BY FS_EmptySet
    <2>3. ManifestLimit \div 2 \in Nat
        BY VolumeAssumption
    <2> DEFINE none == 0
               h == ManifestLimit \div 2
    <2>6. none \in Int /\ h \in Int
        BY <2>3
    <2> HIDE DEF none, h
    <2>4. Min({none, h}) <= none
        BY <2>6, MinOfTwo
    <2>5. taken \cap {} = {}
        OBVIOUS
    <2> QED
        BY <2>1, <2>2, <2>4, <2>5 DEF FairShare, none, h
<1> QED
    BY <1>1, <1>2, <1>3, <1>5, <1>6 DEF VolumeIInv

\* What a step that touches no row and no batch keeps.
LEMMA IdleKeeps ==
    ASSUME VolumeIInv, UNCHANGED <<row, batch, reading, offered, taken, reads>>,
           clock' \in 0..VolumeEnd, aliases' \in [Reports -> SUBSET Addresses]
    PROVE  VolumeIInv'
<1>1. VolumeShape' /\ RowsOK' /\ BatchesOK'
    BY DEF VolumeIInv, VolumeShape, RowsOK, BatchesOK
<1>2. TriesOK' /\ FairShare'
    BY DEF VolumeIInv, TriesOK, Awaiting, Awaits, FairShare
<1> QED
    BY <1>1, <1>2 DEF VolumeIInv

\* An import adds rows without tries, and takes rows out of their check.
LEMMA ImportKeepsRows ==
    ASSUME VolumeIInv, NEW manifest, row' = Imported(manifest),
           UNCHANGED <<clock, aliases, batch, reading, reads>>
    PROVE  VolumeShape' /\ RowsOK' /\ BatchesOK' /\ TriesOK'
<1>1. ASSUME NEW u \in URLs_
      PROVE  /\ row'[u] # NoRow =>
                    /\ IsRow(row'[u])
                    /\ row'[u].until > 0 <=> row'[u].state = "checking"
                    /\ u \in Posts => row'[u].state \in {"reported", "conflicting"}
             /\ row[u] # NoRow => row'[u] # NoRow /\ row'[u].attempts = row[u].attempts
             /\ row[u] = NoRow /\ row'[u] # NoRow => row'[u].attempts = 0
    <2>1. CASE row'[u] = row[u]
        BY <2>1 DEF VolumeIInv, RowsOK
    <2>2. CASE row[u] = NoRow /\ row'[u] # row[u]
        <3> DEFINE new == [state |-> "reported", attempts |-> 0, until |-> 0, checked |-> 0,
                           facts |-> manifest[u]]
        <3>1. row'[u] = new
            BY <2>2 DEF Imported
        <3>2. "reported" \in RowStates /\ 0 \in 0..CheckAttempts /\ 0 \in Nat
            BY VolumeAssumption DEF RowStates
        <3>3. IsRow(new) /\ new.until = 0 /\ new.state = "reported" /\ new.attempts = 0
            BY <3>2 DEF IsRow
        <3> HIDE DEF new
        <3> QED
            BY <2>2, <3>1, <3>3
    <2>3. CASE row[u] # NoRow /\ row'[u] # row[u]
        <3>1. row'[u] = RowUnlocked(row[u], "conflicting") /\ IsRow(row[u])
            BY <2>3 DEF Imported, VolumeIInv, RowsOK
        <3>2. "conflicting" \in RowStates /\ 0 \in 0..CheckAttempts /\ 0 \in Nat
            BY VolumeAssumption DEF RowStates
        <3>3. /\ IsRow(row'[u]) /\ row'[u].until = 0 /\ row'[u].state = "conflicting"
              /\ row'[u].attempts = row[u].attempts
            <4>1. "conflicting" \in RowStates /\ row[u].attempts \in 0..CheckAttempts
                BY <3>1, <3>2, RowFields
            <4> QED
                BY <3>1, <3>2, <4>1, RowUnlocks
        <3> QED
            BY <2>3, <3>3, RowFields
    <2> QED
        BY <2>1, <2>2, <2>3
<1>2. RowsOK'
    BY <1>1 DEF RowsOK
<1>3. VolumeShape'
    BY DEF VolumeIInv, VolumeShape, Imported
<1>4. BatchesOK'
    BY DEF VolumeIInv, BatchesOK
<1>5. \A u : Awaiting(u)' = Awaiting(u)
    BY DEF Awaiting, Awaits
<1>6. TriesOK'
    <2>1. ASSUME NEW u \in URLs_
          PROVE  /\ row'[u] = NoRow => reads[u] = 0 /\ Awaiting(u) = {}
                 /\ row'[u] # NoRow /\ u \notin Posts =>
                        reads[u] + Cardinality(Awaiting(u)) <= row'[u].attempts
                 /\ u \in Posts => reads[u] = 0
        <3>1. CASE row[u] = NoRow
            <4>1. reads[u] = 0 /\ Awaiting(u) = {} /\ Cardinality({}) = 0
                BY <3>1, FS_EmptySet DEF VolumeIInv, TriesOK
            <4>2. row'[u] # NoRow => row'[u].attempts = 0
                BY <1>1, <3>1
            <4> QED
                BY <4>1, <4>2
        <3>2. CASE row[u] # NoRow
            BY <1>1, <3>2 DEF VolumeIInv, TriesOK
        <3> QED
            BY <3>1, <3>2
    <2> QED
        BY <1>5, <2>1 DEF TriesOK
<1> QED
    BY <1>2, <1>3, <1>4, <1>6

LEMMA ImportLedgerKeeps ==
    ASSUME VolumeIInv, ImportLedger
    PROVE  VolumeIInv'
<1>1. VolumeShape' /\ RowsOK' /\ BatchesOK' /\ TriesOK'
    BY ImportKeepsRows DEF ImportLedger
<1>2. FairShare'
    BY DEF VolumeIInv, FairShare, ImportLedger
<1> QED
    BY <1>1, <1>2 DEF VolumeIInv

\* The posts of a feed that a manifest takes are its share at least.
LEMMA ShareIsTaken ==
    ASSUME NEW b \in {1, 2}
    PROVE  LET feeds == <<VideoTimes, Skeets>>
               some == Fairly(feeds) \cap Offered(feeds[b])
           IN  Cardinality(some) >= Min({Cardinality(Offered(feeds[b])), ManifestLimit \div 2})
<1> DEFINE feeds == <<VideoTimes, Skeets>>
           feed == feeds[b]
           named == Naming(feed)
           h == ManifestLimit \div 2
           first == {n \in named : Turn(named, n) <= h}
           image == {feed[n] : n \in first}
           some == Fairly(feeds) \cap Offered(feed)
<1>1. ManifestLimit \in Nat /\ h \in Nat
    BY VolumeAssumption
<1>2. \A c \in {1, 2} : feeds[c] \in {VideoTimes, Skeets}
    OBVIOUS
<1>3. \A c \in {1, 2} : Naming(feeds[c]) \in SUBSET Nat /\ IsFiniteSet(Naming(feeds[c]))
    BY <1>2, OfferIsFinite
<1>4. /\ named \in SUBSET Nat /\ IsFiniteSet(named) /\ IsFiniteSet(Offered(feed))
      /\ Cardinality(Offered(feed)) = Cardinality(named)
      /\ \A T \in SUBSET named : Cardinality({feed[n] : n \in T}) = Cardinality(T)
    BY <1>2, OfferIsFinite
<1>5. first \in SUBSET named
    OBVIOUS
<1>6. Cardinality(image) = Cardinality(first)
    BY <1>4, <1>5
<1>7. /\ IsFiniteSet(first)
      /\ Cardinality(first) >= h \/ Cardinality(first) = Cardinality(named)
    BY <1>1, <1>4, FirstTurns
<1>8. image \subseteq some
    <2>1. ASSUME NEW n \in first PROVE feed[n] \in Fairly(feeds) /\ feed[n] \in Offered(feed)
        <3>1. n \in Naming(feeds[b]) /\ Turn(Naming(feeds[b]), n) <= ManifestLimit \div 2
            OBVIOUS
        <3> HIDE DEF feeds
        <3> QED
            BY <1>1, <1>3, <3>1, FirstHalfIsTaken DEF Offered
    <2> QED
        BY <2>1
<1>9. IsFiniteSet(some)
    BY <1>4, FS_Subset
<1> HIDE DEF image, some, first, h, named, feed
<1>10. Cardinality(image) <= Cardinality(some) /\ Cardinality(some) \in Nat
    BY <1>8, <1>9, FS_Subset, FS_CardinalityType
<1>11. Cardinality(named) \in Nat /\ Cardinality(first) \in Nat
    BY <1>4, <1>7, FS_CardinalityType
<1>12. /\ Min({Cardinality(named), h}) <= Cardinality(named)
       /\ Min({Cardinality(named), h}) <= h
       /\ Min({Cardinality(named), h}) \in Int
    <2> DEFINE a == Cardinality(named)
    <2>1. a \in Int /\ h \in Int
        BY <1>1, <1>11
    <2> HIDE DEF a
    <2>2. Min({a, h}) <= a /\ Min({a, h}) <= h /\ Min({a, h}) \in {a, h}
        BY <2>1, MinOfTwo
    <2>3. Min({a, h}) \in Int
        BY <2>1, <2>2
    <2> QED
        BY <2>2, <2>3 DEF a
<1>13. Cardinality(some) >= Min({Cardinality(named), h})
    BY <1>1, <1>6, <1>7, <1>10, <1>11, <1>12
<1> QED
    BY <1>4, <1>13 DEF some, h, feed

LEMMA ImportSocialKeeps ==
    ASSUME VolumeIInv, ImportSocial
    PROVE  VolumeIInv'
<1>1. VolumeShape' /\ RowsOK' /\ BatchesOK' /\ TriesOK'
    BY ImportKeepsRows DEF ImportSocial
<1> DEFINE feeds == <<VideoTimes, Skeets>>
<1>2. taken' = Fairly(feeds) /\ offered' = <<Offered(VideoTimes), Offered(Skeets)>>
    BY DEF ImportSocial, SocialManifest
<1>3. \A b \in {1, 2} : offered'[b] = Offered(feeds[b])
    BY <1>2
<1>4. \A b \in {1, 2} :
          Cardinality(Fairly(feeds) \cap Offered(feeds[b])) >=
              Min({Cardinality(Offered(feeds[b])), ManifestLimit \div 2})
    BY ShareIsTaken
<1> HIDE DEF feeds
<1>5. FairShare'
    BY <1>2, <1>3, <1>4 DEF FairShare
<1> QED
    BY <1>1, <1>5 DEF VolumeIInv

\* What a claim may take is an address whose row has a try left.
LEMMA DueIsAddress ==
    ASSUME NEW u \in URLs_, DueForCheck(u)
    PROVE  u \in Addresses /\ u \notin Posts /\ row[u] # NoRow /\ row[u].attempts < CheckAttempts
BY DEF DueForCheck, URLs_

\* A batch is claimed: the rows it takes get a try for the read it adds.
LEMMA ClaimBatchKeeps ==
    ASSUME VolumeIInv, NEW w \in Checkers, ClaimBatch(w)
    PROVE  VolumeIInv'
<1> DEFINE due == {u \in URLs_ : DueForCheck(u)}
           k == Cardinality(due)
<1>1. PICK S \in kSubset(Min({BatchLimit, k}), due) :
          /\ row' = [u \in URLs_ |-> IF u \in S
                        THEN [row[u] EXCEPT !.state = "checking", !.attempts = @ + 1,
                                            !.until = clock + LockFor] ELSE row[u]]
          /\ \E order \in SetToSeqs(S) : batch' = [batch EXCEPT ![w] = order]
    BY DEF ClaimBatch
<1>2. PICK order \in SetToSeqs(S) : batch' = [batch EXCEPT ![w] = order]
    BY <1>1
<1>3. /\ batch[w] = <<>> /\ UNCHANGED <<clock, aliases, reading, offered, taken, reads>>
      /\ reading[w] = "none"
    BY DEF ClaimBatch, VolumeIInv, BatchesOK
<1>4. /\ BatchLimit \in Nat /\ LockFor \in Nat \ {0} /\ CheckAttempts \in Nat
      /\ IsFiniteSet(Addresses) /\ IsFiniteSet(Checkers) /\ clock \in Nat
    BY VolumeAssumption DEF VolumeIInv, VolumeShape
<1>5. S \subseteq due /\ Cardinality(S) = Min({BatchLimit, k})
    BY DEF kSubset
<1>6. due \subseteq Addresses
    BY DueIsAddress
<1>7. IsFiniteSet(due) /\ k \in Nat /\ IsFiniteSet(S) /\ Cardinality(S) \in Nat
    BY <1>4, <1>5, <1>6, FS_Subset, FS_CardinalityType
<1>8. Cardinality(S) <= BatchLimit
    <2> HIDE DEF k
    <2>1. Min({BatchLimit, k}) <= BatchLimit
        <3> DEFINE limit == BatchLimit
        <3>1. limit \in Int /\ k \in Int
            BY <1>4, <1>7
        <3> HIDE DEF limit
        <3>2. Min({limit, k}) <= limit
            BY <3>1, MinOfTwo
        <3> QED
            BY <3>2 DEF limit
    <2> QED
        BY <1>5, <2>1
<1>9. ASSUME NEW u \in S
      PROVE  /\ u \in URLs_ /\ u \in Addresses /\ u \notin Posts /\ row[u] # NoRow
             /\ row[u].attempts < CheckAttempts
    BY <1>5, <1>9, DueIsAddress
<1> DEFINE n == Cardinality(S)
<1>10. /\ order \in [1..n -> S]
       /\ \A i, j \in 1..n : i # j => order[i] # order[j]
    BY DEF SetToSeqs
<1>11. n \in Nat /\ n <= BatchLimit
    BY <1>7, <1>8
<1> HIDE DEF due, k, n
<1>12. order \in Seq(Addresses) /\ Len(order) = n /\ DOMAIN order = 1..n
    BY <1>9, <1>10, <1>11
<1>13. batch' \in [Checkers -> Seq(Addresses)] /\ batch'[w] = order
       /\ \A v \in Checkers \ {w} : batch'[v] = batch[v]
    BY <1>2, <1>12 DEF VolumeIInv, VolumeShape
<1>14. VolumeShape'
    BY <1>1, <1>3, <1>13 DEF VolumeIInv, VolumeShape
<1>15. ASSUME NEW u \in S
       PROVE  /\ IsRow(row'[u]) /\ row'[u].state = "checking" /\ row'[u].until > 0
              /\ row'[u].attempts = row[u].attempts + 1
    <2>1. IsRow(row[u]) /\ clock + LockFor \in Nat /\ clock + LockFor > 0
        BY <1>4, <1>9, <1>15 DEF VolumeIInv, RowsOK
    <2>2. row'[u] = [row[u] EXCEPT !.state = "checking", !.attempts = @ + 1,
                                   !.until = clock + LockFor]
        BY <1>1, <1>9, <1>15
    <2> DEFINE until == clock + LockFor
               r == row[u]
    <2>5. row'[u] = RowClaimed(r, until)
        BY <2>2 DEF RowClaimed
    <2>6. IsRow(r) /\ until \in Nat /\ until > 0 /\ r.attempts < CheckAttempts
        BY <1>9, <1>15, <2>1
    <2>7. r = row[u]
        OBVIOUS
    <2> HIDE DEF until, r
    <2>3. /\ IsRow(row'[u]) /\ row'[u].state = "checking" /\ row'[u].until = until
          /\ row'[u].attempts = r.attempts + 1
        BY <1>4, <2>5, <2>6, RowIsClaimed
    <2> QED
        BY <2>3, <2>6, <2>7
<1>16. \A u \in URLs_ \ S : row'[u] = row[u]
    BY <1>1
<1>17. RowsOK'
    <2>1. ASSUME NEW u \in URLs_, row'[u] # NoRow
          PROVE  /\ IsRow(row'[u])
                 /\ row'[u].until > 0 <=> row'[u].state = "checking"
                 /\ u \in Posts => row'[u].state \in {"reported", "conflicting"}
        <3>1. CASE u \in S
            BY <1>9, <1>15, <3>1
        <3>2. CASE u \notin S
            BY <1>16, <2>1, <3>2 DEF VolumeIInv, RowsOK
        <3> QED
            BY <3>1, <3>2
    <2> QED
        BY <2>1 DEF RowsOK
<1>18. BatchesOK'
    <2>1. ASSUME NEW v \in Checkers
          PROVE  /\ Len(batch'[v]) <= BatchLimit
                 /\ \A i, j \in DOMAIN batch'[v] : batch'[v][i] = batch'[v][j] => i = j
                 /\ batch'[v] = <<>> => reading'[v] = "none"
        <3>1. CASE v = w
            BY <1>3, <1>10, <1>11, <1>12, <1>13, <3>1
        <3>2. CASE v # w
            BY <1>3, <1>13, <3>2 DEF VolumeIInv, BatchesOK
        <3> QED
            BY <3>1, <3>2
    <2> QED
        BY <2>1 DEF BatchesOK
<1>19. \A v \in Checkers \ {w} : \A u : Awaits(v, u)' <=> Awaits(v, u)
    BY <1>3, <1>13 DEF Awaits
<1>20. \A u : ~ Awaits(w, u)
    BY <1>3 DEF Awaits
<1>21. \A u : Awaits(w, u)' => u \in S
    BY <1>10, <1>12, <1>13 DEF Awaits
<1>22. TriesOK'
    <2>1. ASSUME NEW u \in URLs_
          PROVE  /\ row'[u] = NoRow => reads[u] = 0 /\ Awaiting(u)' = {}
                 /\ row'[u] # NoRow /\ u \notin Posts =>
                        reads[u] + Cardinality(Awaiting(u)') <= row'[u].attempts
                 /\ u \in Posts => reads[u] = 0
        <3>1. CASE u \in S
            <4>1. Awaiting(u)' \subseteq Awaiting(u) \cup {w}
                BY <1>19 DEF Awaiting
            <4>2. /\ IsFiniteSet(Awaiting(u)) /\ IsFiniteSet(Awaiting(u) \cup {w})
                  /\ Cardinality(Awaiting(u) \cup {w}) = Cardinality(Awaiting(u)) + 1
                  /\ Cardinality(Awaiting(u)) \in Nat
                <5>1. w \notin Awaiting(u)
                    BY <1>20 DEF Awaiting
                <5> QED
                    BY <5>1, AwaitingIsFinite, FS_AddElement
            <4>3. Cardinality(Awaiting(u)') <= Cardinality(Awaiting(u)) + 1
                  /\ Cardinality(Awaiting(u)') \in Nat
                BY <4>1, <4>2, FS_Subset, FS_CardinalityType
            <4>4. /\ reads[u] + Cardinality(Awaiting(u)) <= row[u].attempts /\ reads[u] \in Nat
                  /\ row[u].attempts \in Nat
                <5>1. u \notin Posts /\ row[u] # NoRow /\ IsRow(row[u])
                    BY <1>9, <3>1 DEF VolumeIInv, RowsOK
                <5>2. row[u].attempts \in Nat
                    BY <5>1, RowFields
                <5>3. reads[u] + Cardinality(Awaiting(u)) <= row[u].attempts /\ reads[u] \in Nat
                    BY <5>1 DEF VolumeIInv, TriesOK, VolumeShape
                <5> QED
                    BY <5>2, <5>3
            <4>5. reads[u] + Cardinality(Awaiting(u)') <= row'[u].attempts
                BY <1>15, <3>1, <4>2, <4>3, <4>4
            <4>6. row'[u] # NoRow /\ u \notin Posts
                BY <1>9, <1>15, <3>1, RowFields
            <4> QED
                BY <4>5, <4>6
        <3>2. CASE u \notin S
            <4>1. Awaiting(u)' = Awaiting(u)
                BY <1>19, <1>20, <1>21, <3>2 DEF Awaiting
            <4> QED
                BY <1>16, <3>2, <4>1 DEF VolumeIInv, TriesOK
        <3> QED
            BY <3>1, <3>2
    <2> QED
        BY <1>3, <2>1 DEF TriesOK
<1>23. FairShare'
    BY <1>3 DEF VolumeIInv, FairShare
<1> QED
    BY <1>14, <1>17, <1>18, <1>22, <1>23 DEF VolumeIInv

LEMMA PostsAreNoAddresses == \A u \in Addresses : u \in URLs_ /\ u \notin Posts
BY VolumeAssumption DEF URLs_

\* A page is read: what the batch awaited is now counted.
LEMMA VerifyCandidateKeeps ==
    ASSUME VolumeIInv, NEW w \in Checkers, VerifyCandidate(w)
    PROVE  VolumeIInv'
<1>1. PICK verdict \in {"verified", "retry"} : reading' = [reading EXCEPT ![w] = verdict]
    BY DEF VerifyCandidate
<1>14. /\ batch[w] # <<>> /\ reading[w] = "none"
       /\ UNCHANGED <<clock, aliases, row, batch, offered, taken>>
       /\ reads' = [reads EXCEPT ![Head(batch[w])] = @ + 1]
    BY DEF VerifyCandidate
<1>15. /\ batch[w] \in Seq(Addresses) /\ 1 \in DOMAIN batch[w] /\ Head(batch[w]) \in Addresses
       /\ Head(batch[w]) = batch[w][1]
    BY <1>14 DEF VolumeIInv, VolumeShape
<1>16. PICK p \in Addresses : p = Head(batch[w])
    BY <1>15
<1>2. /\ batch[w] # <<>> /\ reading[w] = "none" /\ reads' = [reads EXCEPT ![p] = @ + 1]
      /\ UNCHANGED <<clock, aliases, row, batch, offered, taken>>
    BY <1>14, <1>16
<1>3. /\ batch[w] \in Seq(Addresses) /\ 1 \in DOMAIN batch[w] /\ p = batch[w][1] /\ p \in Addresses
    BY <1>15, <1>16
<1>4. p \in URLs_ /\ p \notin Posts
    BY <1>3, PostsAreNoAddresses
<1>5. /\ reading \in [Checkers -> {"none", "verified", "retry"}] /\ reads \in [URLs_ -> Nat]
      /\ \A i, j \in DOMAIN batch[w] : batch[w][i] = batch[w][j] => i = j
    BY DEF VolumeIInv, VolumeShape, BatchesOK
<1>6. /\ reading'[w] # "none" /\ \A v \in Checkers \ {w} : reading'[v] = reading[v]
      /\ reads'[p] = reads[p] + 1 /\ \A u \in URLs_ \ {p} : reads'[u] = reads[u]
    BY <1>1, <1>2, <1>4, <1>5
<1>7. VolumeShape'
    BY <1>1, <1>2, <1>4 DEF VolumeIInv, VolumeShape
<1>8. RowsOK' /\ FairShare'
    BY <1>2 DEF VolumeIInv, RowsOK, FairShare
<1>9. BatchesOK'
    BY <1>2, <1>6 DEF VolumeIInv, BatchesOK
<1>10. \A v \in Checkers \ {w} : \A u : Awaits(v, u)' <=> Awaits(v, u)
    BY <1>2, <1>6 DEF Awaits
<1>11. Awaits(w, p) /\ ~ Awaits(w, p)'
    <2>1. Awaits(w, p)
        BY <1>2, <1>3 DEF Awaits
    <2>2. \A i \in DOMAIN batch[w] : batch[w][i] = p => i = 1
        BY <1>3, <1>5
    <2>3. batch'[w] = batch[w]
        BY <1>2
    <2>4. ~ Awaits(w, p)'
        BY <1>6, <2>2, <2>3 DEF Awaits
    <2> QED
        BY <2>1, <2>4
<1>12. \A u : u # p => (Awaits(w, u)' <=> Awaits(w, u))
    BY <1>2, <1>3, <1>6 DEF Awaits
<1>13. TriesOK'
    <2>1. ASSUME NEW u \in URLs_
          PROVE  /\ row[u] = NoRow => reads'[u] = 0 /\ Awaiting(u)' = {}
                 /\ row[u] # NoRow /\ u \notin Posts =>
                        reads'[u] + Cardinality(Awaiting(u)') <= row[u].attempts
                 /\ u \in Posts => reads'[u] = 0
        <3>1. CASE u = p
            <4>1. Awaiting(u)' = Awaiting(u) \ {w} /\ w \in Awaiting(u)
                <5>1. Awaits(w, u) /\ ~ Awaits(w, u)'
                    BY <1>11, <3>1
                <5>2. \A v \in Checkers \ {w} : Awaits(v, u)' <=> Awaits(v, u)
                    BY <1>10
                <5> QED
                    BY <5>1, <5>2 DEF Awaiting
            <4>2. /\ Cardinality(Awaiting(u)') = Cardinality(Awaiting(u)) - 1
                  /\ Cardinality(Awaiting(u)) \in Nat
                BY <4>1, AwaitingIsFinite, FS_RemoveElement
            <4>3. row[u] # NoRow
                BY <4>1 DEF VolumeIInv, TriesOK
            <4>4. reads[u] + Cardinality(Awaiting(u)) <= row[u].attempts /\ reads[u] \in Nat
                BY <1>4, <1>5, <3>1, <4>3 DEF VolumeIInv, TriesOK
            <4>5. row[u].attempts \in Nat
                BY <4>3, RowFields DEF VolumeIInv, RowsOK
            <4> QED
                BY <1>4, <1>6, <3>1, <4>2, <4>3, <4>4, <4>5
        <3>2. CASE u # p
            <4>1. Awaiting(u)' = Awaiting(u)
                BY <1>10, <1>12, <3>2 DEF Awaiting
            <4> QED
                BY <1>6, <3>2, <4>1 DEF VolumeIInv, TriesOK
        <3> QED
            BY <3>1, <3>2
    <2> QED
        BY <1>2, <2>1 DEF TriesOK
<1> QED
    BY <1>7, <1>8, <1>9, <1>13 DEF VolumeIInv

\* A step after which no batch awaits more, and no try is taken back.
LEMMA FewerAwait ==
    ASSUME VolumeIInv, reads' = reads, \A v \in Checkers : \A u : Awaits(v, u)' => Awaits(v, u),
           \A u \in URLs_ :
               /\ row'[u] = NoRow <=> row[u] = NoRow
               /\ row[u] # NoRow => row'[u].attempts = row[u].attempts
    PROVE  TriesOK'
<1>1. ASSUME NEW u \in URLs_
      PROVE  /\ row'[u] = NoRow => reads[u] = 0 /\ Awaiting(u)' = {}
             /\ row'[u] # NoRow /\ u \notin Posts =>
                    reads[u] + Cardinality(Awaiting(u)') <= row'[u].attempts
             /\ u \in Posts => reads[u] = 0
    <2>1. Awaiting(u)' \subseteq Awaiting(u)
        BY DEF Awaiting
    <2>2. /\ Cardinality(Awaiting(u)') <= Cardinality(Awaiting(u))
          /\ Cardinality(Awaiting(u)) \in Nat /\ Cardinality(Awaiting(u)') \in Nat
        BY <2>1, AwaitingIsFinite, FS_Subset, FS_CardinalityType
    <2>3. CASE row[u] = NoRow
        BY <2>1, <2>3 DEF VolumeIInv, TriesOK
    <2>4. CASE row[u] # NoRow
        <3>1. row[u].attempts \in Nat /\ reads[u] \in Nat
            BY <2>4, RowFields DEF VolumeIInv, RowsOK, VolumeShape
        <3>2. u \notin Posts => reads[u] + Cardinality(Awaiting(u)) <= row[u].attempts
            BY <2>4 DEF VolumeIInv, TriesOK
        <3>3. u \in Posts => reads[u] = 0
            BY DEF VolumeIInv, TriesOK
        <3> QED
            BY <2>2, <2>4, <3>1, <3>2, <3>3
    <2> QED
        BY <2>3, <2>4
<1> QED
    BY <1>1 DEF TriesOK

\* A batch goes on from the page it read, or ends with it.
LEMMA FinalizeCandidateKeeps ==
    ASSUME VolumeIInv, NEW w \in Checkers, FinalizeCandidate(w)
    PROVE  VolumeIInv'
<1> DEFINE p == Head(batch[w])
           done == IF reading[w] = "verified" THEN "verified" ELSE "reported"
<1>1. /\ reading[w] # "none" /\ reading' = [reading EXCEPT ![w] = "none"]
      /\ UNCHANGED <<clock, aliases, offered, taken, reads>>
    BY DEF FinalizeCandidate
<1>2. \/ /\ Locked(p) /\ batch' = [batch EXCEPT ![w] = Tail(@)]
         /\ row' = [row EXCEPT ![p] = [RowUnlocked(@, done) EXCEPT !.checked = clock + 1]]
      \/ batch' = [batch EXCEPT ![w] = <<>>] /\ row' = row
    BY DEF FinalizeCandidate
<1>3. /\ batch \in [Checkers -> Seq(Addresses)] /\ batch[w] # <<>>
      /\ reading \in [Checkers -> {"none", "verified", "retry"}]
      /\ \A i, j \in DOMAIN batch[w] : batch[w][i] = batch[w][j] => i = j
      /\ Len(batch[w]) <= BatchLimit /\ clock + 1 \in Nat /\ row = [u \in URLs_ |-> row[u]]
      /\ BatchLimit \in Nat
    BY <1>1, VolumeAssumption DEF VolumeIInv, VolumeShape, BatchesOK
<1>4. p \in Addresses /\ p \in URLs_ /\ p \notin Posts
    BY <1>3, PostsAreNoAddresses
<1> HIDE DEF p, done
<1>5. ASSUME Locked(p), row' = [row EXCEPT ![p] = [RowUnlocked(@, done) EXCEPT !.checked = clock + 1]]
      PROVE  /\ IsRow(row'[p]) /\ row'[p].until = 0 /\ row'[p].state = done /\ row[p] # NoRow
             /\ row'[p].attempts = row[p].attempts /\ done \in RowStates /\ done # "checking"
             /\ \A u \in URLs_ \ {p} : row'[u] = row[u]
             /\ row' = [u \in URLs_ |-> row'[u]]
    <2>1. row[p] # NoRow
        BY <1>5 DEF Locked, NoRow
    <2>2. IsRow(row[p])
        BY <1>4, <2>1 DEF VolumeIInv, RowsOK
    <2>3. done \in RowStates /\ done # "checking"
        BY DEF done, RowStates
    <2> DEFINE q == RowUnlocked(row[p], done)
    <2>4. IsRow(q) /\ q.state = done /\ q.until = 0 /\ q.attempts = row[p].attempts
        BY <2>2, <2>3, RowUnlocks
    <2>5. /\ row'[p] = [q EXCEPT !.checked = clock + 1]
          /\ \A u \in URLs_ \ {p} : row'[u] = row[u]
          /\ row' = [u \in URLs_ |-> row'[u]]
        BY <1>3, <1>4, <1>5
    <2> HIDE DEF q
    <2> DEFINE k == clock + 1
    <2>6. k \in Nat /\ row'[p] = [q EXCEPT !.checked = k]
        BY <1>3, <2>5
    <2> HIDE DEF k
    <2>7. IsRow(row'[p]) /\ row'[p].state = done /\ row'[p].until = 0
          /\ row'[p].attempts = q.attempts
        BY <2>4, <2>6, RowIsChecked
    <2> QED
        BY <2>1, <2>3, <2>4, <2>5, <2>7
<1>6. batch'[w] = Tail(batch[w]) \/ batch'[w] = <<>>
    BY <1>2, <1>3
<1>7. /\ batch' \in [Checkers -> Seq(Addresses)] /\ \A v \in Checkers \ {w} : batch'[v] = batch[v]
      /\ reading' \in [Checkers -> {"none", "verified", "retry"}] /\ reading'[w] = "none"
      /\ \A v \in Checkers \ {w} : reading'[v] = reading[v]
    <2>1. Tail(batch[w]) \in Seq(Addresses) /\ <<>> \in Seq(Addresses)
        BY <1>3
    <2>2. PICK left \in Seq(Addresses) : batch' = [batch EXCEPT ![w] = left]
        BY <1>2, <2>1
    <2> QED
        BY <1>1, <1>3, <2>2
<1>8. /\ Len(Tail(batch[w])) = Len(batch[w]) - 1 /\ Len(batch[w]) \in Nat \ {0}
      /\ DOMAIN Tail(batch[w]) = 1..(Len(batch[w]) - 1) /\ DOMAIN batch[w] = 1..Len(batch[w])
      /\ \A i \in 1..(Len(batch[w]) - 1) : Tail(batch[w])[i] = batch[w][i + 1]
    BY <1>3
<1>9. VolumeShape'
    <2>1. row' = [u \in URLs_ |-> row'[u]]
        BY <1>2, <1>3, <1>5
    <2> QED
        BY <1>1, <1>7, <2>1 DEF VolumeIInv, VolumeShape
<1>10. RowsOK'
    <2>1. ASSUME NEW u \in URLs_, row'[u] # NoRow
          PROVE  /\ IsRow(row'[u])
                 /\ row'[u].until > 0 <=> row'[u].state = "checking"
                 /\ u \in Posts => row'[u].state \in {"reported", "conflicting"}
        <3>1. CASE row'[u] = row[u]
            BY <2>1, <3>1 DEF VolumeIInv, RowsOK
        <3>2. CASE row'[u] # row[u]
            BY <1>2, <1>4, <1>5, <3>2
        <3> QED
            BY <3>1, <3>2
    <2> QED
        BY <2>1 DEF RowsOK
<1>11. BatchesOK'
    <2>1. ASSUME NEW v \in Checkers
          PROVE  /\ Len(batch'[v]) <= BatchLimit
                 /\ \A i, j \in DOMAIN batch'[v] : batch'[v][i] = batch'[v][j] => i = j
                 /\ batch'[v] = <<>> => reading'[v] = "none"
        <3>1. CASE v = w /\ batch'[w] = Tail(batch[w])
            <4>1. \A i, j \in 1..(Len(batch[w]) - 1) :
                      batch[w][i + 1] = batch[w][j + 1] => i = j
                <5> TAKE i, j \in 1..(Len(batch[w]) - 1)
                <5>1. i + 1 \in DOMAIN batch[w] /\ j + 1 \in DOMAIN batch[w]
                    BY <1>8
                <5> QED
                    BY <1>3, <5>1
            <4> QED
                BY <1>3, <1>7, <1>8, <3>1, <4>1
        <3>2. CASE v = w /\ batch'[w] = <<>>
            BY <1>3, <1>7, <3>2
        <3>3. CASE v # w
            BY <1>7, <3>3 DEF VolumeIInv, BatchesOK
        <3> QED
            BY <1>6, <3>1, <3>2, <3>3
    <2> QED
        BY <2>1 DEF BatchesOK
<1>12. \A v \in Checkers : \A u : Awaits(v, u)' => Awaits(v, u)
    <2>1. ASSUME NEW v \in Checkers, NEW u, Awaits(v, u)' PROVE Awaits(v, u)
        <3>1. CASE v = w
            <4>1. PICK i \in DOMAIN batch'[w] : batch'[w][i] = u
                BY <2>1, <3>1 DEF Awaits
            <4>2. batch'[w] = Tail(batch[w])
                BY <1>6, <4>1
            <4>3. /\ i \in 1..(Len(batch[w]) - 1) /\ batch[w][i + 1] = u
                  /\ i + 1 \in DOMAIN batch[w] /\ i + 1 # 1
                BY <1>8, <4>1, <4>2
            <4> QED
                BY <3>1, <4>3 DEF Awaits
        <3>2. CASE v # w
            BY <1>7, <2>1, <3>2 DEF Awaits
        <3> QED
            BY <3>1, <3>2
    <2> QED
        BY <2>1
<1>13. \A u \in URLs_ :
           /\ row'[u] = NoRow <=> row[u] = NoRow
           /\ row[u] # NoRow => row'[u].attempts = row[u].attempts
    BY <1>2, <1>5, RowFields
<1>14. TriesOK'
    BY <1>1, <1>12, <1>13, FewerAwait
<1>15. FairShare'
    BY <1>1 DEF VolumeIInv, FairShare
<1> QED
    BY <1>9, <1>10, <1>11, <1>14, <1>15 DEF VolumeIInv

LEMMA BatchAbortedKeeps ==
    ASSUME VolumeIInv, NEW w \in Checkers, BatchAborted(w)
    PROVE  VolumeIInv'
<1>1. /\ batch' = [batch EXCEPT ![w] = <<>>] /\ reading' = [reading EXCEPT ![w] = "none"]
      /\ UNCHANGED <<clock, aliases, row, offered, taken, reads>>
    BY DEF BatchAborted
<1>2. /\ batch \in [Checkers -> Seq(Addresses)] /\ <<>> \in Seq(Addresses)
      /\ reading \in [Checkers -> {"none", "verified", "retry"}] /\ BatchLimit \in Nat
    BY VolumeAssumption DEF VolumeIInv, VolumeShape
<1>3. /\ batch' \in [Checkers -> Seq(Addresses)] /\ \A v \in Checkers \ {w} : batch'[v] = batch[v]
      /\ reading' \in [Checkers -> {"none", "verified", "retry"}] /\ reading'[w] = "none"
      /\ \A v \in Checkers \ {w} : reading'[v] = reading[v]
      /\ batch'[w] = <<>>
    BY <1>1, <1>2
<1>4. VolumeShape' /\ RowsOK' /\ FairShare'
    BY <1>1, <1>3 DEF VolumeIInv, VolumeShape, RowsOK, FairShare
<1>5. BatchesOK'
    <2>1. ASSUME NEW v \in Checkers
          PROVE  /\ Len(batch'[v]) <= BatchLimit
                 /\ \A i, j \in DOMAIN batch'[v] : batch'[v][i] = batch'[v][j] => i = j
                 /\ batch'[v] = <<>> => reading'[v] = "none"
        <3>1. CASE v = w
            BY <1>2, <1>3, <3>1
        <3>2. CASE v # w
            BY <1>3, <3>2 DEF VolumeIInv, BatchesOK
        <3> QED
            BY <3>1, <3>2
    <2> QED
        BY <2>1 DEF BatchesOK
<1>6. \A v \in Checkers : \A u : Awaits(v, u)' => Awaits(v, u)
    BY <1>3 DEF Awaits
<1>7. TriesOK'
    BY <1>1, <1>6, FewerAwait
<1> QED
    BY <1>4, <1>5, <1>7 DEF VolumeIInv

LEMMA FindAddressKeeps ==
    ASSUME VolumeIInv, NEW r \in Reports, NEW a \in Addresses, FindAddress(r, a)
    PROVE  VolumeIInv'
<1>1. aliases' \in [Reports -> SUBSET Addresses] /\ clock' \in 0..VolumeEnd
    BY DEF FindAddress, VolumeIInv, VolumeShape
<1> QED
    BY <1>1, IdleKeeps DEF FindAddress

LEMMA VolumeIsKept ==
    ASSUME VolumeIInv, [VolumeNext]_volumeVars
    PROVE  VolumeIInv'
<1>1. CASE ImportLedger
    BY <1>1, ImportLedgerKeeps
<1>2. CASE ImportSocial
    BY <1>2, ImportSocialKeeps
<1>3. ASSUME NEW r \in Reports, NEW a \in Addresses, FindAddress(r, a)
      PROVE  VolumeIInv'
    BY <1>3, FindAddressKeeps
<1>4. ASSUME NEW p \in Posts, NEW said \in Texts, EditPost(p, said)
      PROVE  VolumeIInv'
    BY <1>4, IdleKeeps DEF EditPost, VolumeIInv, VolumeShape
<1>5. ASSUME NEW w \in Checkers,
             ClaimBatch(w) \/ VerifyCandidate(w) \/ FinalizeCandidate(w) \/ BatchAborted(w)
      PROVE  VolumeIInv'
    BY <1>5, ClaimBatchKeeps, VerifyCandidateKeeps, FinalizeCandidateKeeps, BatchAbortedKeeps
<1>6. CASE VolumeTick
    <2>1. clock' \in 0..VolumeEnd
        BY <1>6, VolumeAssumption DEF VolumeTick, VolumeIInv, VolumeShape
    <2> QED
        BY <1>6, <2>1, IdleKeeps DEF VolumeTick, VolumeIInv, VolumeShape
<1>7. CASE UNCHANGED volumeVars
    BY <1>7, IdleKeeps DEF volumeVars, VolumeIInv, VolumeShape
<1> QED
    BY <1>1, <1>2, <1>3, <1>4, <1>5, <1>6, <1>7 DEF VolumeNext

LEMMA VolumeIInvIsEnough ==
    ASSUME VolumeIInv
    PROVE  VolumeInv
<1>1. VolumeTypeOK
    <2>1. \A u \in URLs_ : row[u] # NoRow =>
             /\ row[u].state \in {"reported", "checking", "verified", "conflicting"}
             /\ row[u].attempts \in 0..CheckAttempts
             /\ row[u].until > 0 <=> row[u].state = "checking"
             /\ u \in Posts => row[u].state \in {"reported", "conflicting"}
        BY RowFields DEF VolumeIInv, RowsOK, RowStates
    <2> QED
        BY <2>1 DEF VolumeTypeOK, VolumeIInv, VolumeShape, BatchesOK
<1>2. ReadsAreBounded
    <2>1. ASSUME NEW u \in URLs_
          PROVE  reads[u] <= IF u \in Posts THEN 0 ELSE CheckAttempts
        <3>1. CheckAttempts \in Nat /\ reads[u] \in Nat
            BY VolumeAssumption DEF VolumeIInv, VolumeShape
        <3>2. CASE u \in Posts \/ row[u] = NoRow
            BY <3>1, <3>2 DEF VolumeIInv, TriesOK
        <3>3. CASE u \notin Posts /\ row[u] # NoRow
            <4>1. row[u].attempts \in 0..CheckAttempts
                BY <3>3, RowFields DEF VolumeIInv, RowsOK
            <4>2. reads[u] + Cardinality(Awaiting(u)) <= row[u].attempts
                BY <3>3 DEF VolumeIInv, TriesOK
            <4>3. Cardinality(Awaiting(u)) \in Nat
                BY AwaitingIsFinite
            <4> QED
                BY <3>1, <3>3, <4>1, <4>2, <4>3
        <3> QED
            BY <3>2, <3>3
    <2> QED
        BY <2>1 DEF ReadsAreBounded
<1> QED
    BY <1>1, <1>2 DEF VolumeInv, VolumeIInv

(* Whatever batches overlap, run out of time or die, a page is read no     *)
(* more often than it may be tried, and a post never; and whatever the two *)
(* feeds offer, each gets its half of a manifest or all it asks for.       *)
THEOREM ReadsAndSharesAreBounded == VolumeSpec => []VolumeInv
<1>1. VolumeInit => VolumeIInv
    BY VolumeStarts
<1>2. VolumeIInv /\ [VolumeNext]_volumeVars => VolumeIInv'
    BY VolumeIsKept
<1>3. VolumeIInv => VolumeInv
    BY VolumeIInvIsEnough
<1> QED
    BY <1>1, <1>2, <1>3, PTL DEF VolumeSpec

\* A row keeps the facts of its first import, and leaves "verified" only, and
\* "conflicting" never.
KeepsFacts(r, q) ==
    /\ q # NoRow /\ q.facts = r.facts
    /\ r.state = "conflicting" => q.state = "conflicting"
    /\ r.state = "verified" => q.state \in {"verified", "conflicting"}

LEMMA RowsKeepFacts ==
    ASSUME VolumeIInv, [VolumeNext]_volumeVars, NEW u \in URLs_, row[u] # NoRow
    PROVE  KeepsFacts(row[u], row'[u])
<1>1. IsRow(row[u])
    BY DEF VolumeIInv, RowsOK
<1>2. CASE row'[u] = row[u]
    BY <1>2 DEF KeepsFacts
<1>3. ASSUME NEW manifest, row' = Imported(manifest)
      PROVE  KeepsFacts(row[u], row'[u])
    <2>1. CASE row'[u] # row[u]
        <3>1. row'[u] = RowUnlocked(row[u], "conflicting")
            BY <1>3, <2>1 DEF Imported
        <3>2. "conflicting" \in RowStates
            BY DEF RowStates
        <3>3. IsRow(row'[u]) /\ row'[u].facts = row[u].facts /\ row'[u].state = "conflicting"
            BY <1>1, <3>1, <3>2, RowUnlocks
        <3> QED
            BY <3>3, RowFields DEF KeepsFacts
    <2> QED
        BY <1>2, <2>1
<1>4. ASSUME NEW w \in Checkers, ClaimBatch(w)
      PROVE  KeepsFacts(row[u], row'[u])
    <2>1. PICK S : /\ S \subseteq {v \in URLs_ : DueForCheck(v)}
                   /\ row' = [v \in URLs_ |-> IF v \in S
                                THEN [row[v] EXCEPT !.state = "checking", !.attempts = @ + 1,
                                                    !.until = clock + LockFor] ELSE row[v]]
        BY <1>4 DEF ClaimBatch, kSubset
    <2>2. CASE u \in S
        <3>1. DueForCheck(u)
            BY <2>1, <2>2
        <3>2. /\ row[u].attempts < CheckAttempts /\ row[u].state \in {"reported", "checking"}
            BY <3>1 DEF DueForCheck
        <3> DEFINE until == clock + LockFor
        <3>3. row'[u] = RowClaimed(row[u], until)
            BY <2>1, <2>2 DEF RowClaimed
        <3>4. until \in Nat /\ CheckAttempts \in Nat
            BY VolumeAssumption DEF VolumeIInv, VolumeShape
        <3> HIDE DEF until
        <3>5. IsRow(row'[u]) /\ row'[u].facts = row[u].facts
            BY <1>1, <3>2, <3>3, <3>4, RowIsClaimed
        <3> QED
            BY <3>2, <3>5, RowFields DEF KeepsFacts
    <2>3. CASE u \notin S
        BY <1>2, <2>1, <2>3
    <2> QED
        BY <2>2, <2>3
<1>5. ASSUME NEW w \in Checkers, FinalizeCandidate(w)
      PROVE  KeepsFacts(row[u], row'[u])
    <2> DEFINE p == Head(batch[w])
               done == IF reading[w] = "verified" THEN "verified" ELSE "reported"
    <2>1. CASE row' = row
        BY <1>2, <2>1
    <2>2. CASE row' # row
        <3>1. /\ Locked(p)
              /\ row' = [row EXCEPT ![p] = [RowUnlocked(@, done) EXCEPT !.checked = clock + 1]]
            BY <1>5, <2>2 DEF FinalizeCandidate
        <3>2. CASE u # p
            BY <1>2, <3>1, <3>2 DEF VolumeIInv, VolumeShape
        <3>3. CASE u = p
            <4> HIDE DEF p
            <4>1. row[u].state = "checking"
                BY <3>1, <3>3 DEF Locked
            <4>2. done \in RowStates
                BY DEF RowStates
            <4> DEFINE q == RowUnlocked(row[u], done)
                       k == clock + 1
            <4>3. IsRow(q) /\ q.facts = row[u].facts
                BY <1>1, <4>2, RowUnlocks
            <4>4. row'[u] = [q EXCEPT !.checked = k] /\ k \in Nat
                BY <3>1, <3>3, VolumeAssumption DEF VolumeIInv, VolumeShape
            <4> HIDE DEF q, k
            <4>5. IsRow(row'[u]) /\ row'[u].facts = q.facts
                BY <4>3, <4>4, RowIsChecked
            <4> QED
                BY <4>1, <4>3, <4>5, RowFields DEF KeepsFacts
        <3> QED
            BY <3>2, <3>3
    <2> QED
        BY <2>1, <2>2
<1> QED
    BY <1>2, <1>3, <1>4, <1>5
    DEF VolumeNext, volumeVars, ImportLedger, ImportSocial, FindAddress, EditPost,
        VerifyCandidate, BatchAborted, VolumeTick

(* What a report first said is what is counted: no import replaces the     *)
(* facts of a row, a verified row only ever turns into a conflict, and a   *)
(* conflict is for good, also for a batch that still holds the row.        *)
THEOREM ConflictsAreForGood ==
    VolumeSpec =>
        [][\A u \in URLs_ : row[u] # NoRow => KeepsFacts(row[u], row'[u])]_volumeVars
<1>1. VolumeInit => VolumeIInv
    BY VolumeStarts
<1>2. VolumeIInv /\ [VolumeNext]_volumeVars => VolumeIInv'
    BY VolumeIsKept
<1>3. VolumeIInv /\ [VolumeNext]_volumeVars =>
          [\A u \in URLs_ : row[u] # NoRow => KeepsFacts(row[u], row'[u])]_volumeVars
    BY RowsKeepFacts
<1> QED
    BY <1>1, <1>2, <1>3, PTL DEF VolumeSpec
===============================================================================
