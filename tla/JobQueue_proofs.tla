---------------------------- MODULE JobQueue_proofs ----------------------------
(***************************************************************************)
(* Proofs about JobQueue, for every value of its constants.  The inductive *)
(* invariant is the conjunction of the types, the row constraints and the  *)
(* relation of gates and leases: a retry delay is looked up by the number  *)
(* of attempts, which is only positive because running rows were claimed,  *)
(* and a heartbeat revives no gate only because gates follow their leases. *)
(* On top of it the queue implements JobLedger.                            *)
(***************************************************************************)
EXTENDS JobQueue, FiniteSetTheorems, TLAPS

USE DEF Max2, Min2

QueueInv == QueueTypeOK /\ RowConstraints /\ GatesFollowLeases
-------------------------------------------------------------------------------
(* Types of the values that the actions store.                             *)

LEMMA UnlockType ==
    ASSUME QueueTypeOK, NEW j \in Jobs, NEW newStatus \in Status, Unlock(j, newStatus)
    PROVE  /\ status' \in [Jobs -> Status]
           /\ locked_by' \in [Jobs -> Workers \cup {NoWorker}]
           /\ lease_left' \in [Jobs -> Nat]
BY DEF QueueTypeOK, Unlock

LEMMA SweptType ==
    ASSUME QueueTypeOK
    PROVE  /\ SweptStatus \in [Jobs -> Status]
           /\ SweptGeneration \in [Jobs -> Nat]
           /\ SweptOwner \in [Jobs -> Workers \cup {NoWorker}]
BY DEF QueueTypeOK, SweptStatus, SweptGeneration, SweptOwner, IssuedGeneration,
       Status, Terminal

LEMMA GateMoveType ==
    ASSUME QueueTypeOK, NEW j, NEW g, NEW left \in Nat
    PROVE  /\ RenewedGates(j, g, left) \in [Sources -> Gate]
           /\ ReleasedGates(j, g) \in [Sources -> Gate]
<1>1. \A s \in Sources : [gate[s] EXCEPT !.left = left] \in Gate
    BY DEF QueueTypeOK, Gate
<1>2. FreeGate \in Gate
    BY DEF FreeGate, Gate
<1> QED BY <1>1, <1>2 DEF QueueTypeOK, RenewedGates, ReleasedGates

LEMMA InitType == QueueInit => QueueTypeOK
BY ConstantsAssumption DEF QueueInit, QueueTypeOK, Status, Terminal, Gate, FreeGate

LEMMA NextType == QueueTypeOK /\ RowConstraints /\ [QueueNext]_queueVars => QueueTypeOK'
<1> SUFFICES ASSUME QueueTypeOK, RowConstraints, [QueueNext]_queueVars
             PROVE  QueueTypeOK'
    OBVIOUS
<1> USE ConstantsAssumption
<1>1. ASSUME NEW j \in Jobs, NEW d \in 0..MaxDelay, Enqueue(j, d) PROVE QueueTypeOK'
    BY <1>1 DEF Enqueue, sourceVars, Status, QueueTypeOK
<1>2. CASE Sweep
    BY <1>2, SweptType DEF Sweep, sourceVars, QueueTypeOK
<1>3. ASSUME NEW w \in Workers, NEW j \in Jobs, Claim(w, j) PROVE QueueTypeOK'
    <2>1. status' \in [Jobs -> Status] /\ locked_by' \in [Jobs -> Workers \cup {NoWorker}]
        BY <1>3, SweptType DEF Claim, Status
    <2>2. generation' \in [Jobs -> Nat]
        BY <1>3, SweptType DEF Claim, IssuedGeneration, QueueTypeOK
    <2>3. attempts' \in [Jobs -> Nat] /\ lease_left' \in [Jobs -> Nat]
        BY <1>3 DEF Claim, QueueTypeOK
    <2> QED BY <1>3, <2>1, <2>2, <2>3 DEF Claim, sourceVars, QueueTypeOK
<1>4. ASSUME NEW w \in Workers, NEW j \in Jobs, NEW g \in 1..MaxGeneration,
             Heartbeat(j, w, g)
      PROVE  QueueTypeOK'
    BY <1>4, GateMoveType DEF Heartbeat, QueueTypeOK
<1>5. ASSUME NEW w \in Workers, NEW j \in Jobs, NEW g \in 1..MaxGeneration,
             Begin(j, w, g)
      PROVE  QueueTypeOK'
    BY <1>5 DEF Begin, Gate, QueueTypeOK
<1>6. ASSUME NEW w \in Workers, NEW j \in Jobs, NEW g \in 1..MaxGeneration,
             NEW base \in 0..Cardinality(Jobs), Finalize(j, w, g, base)
      PROVE  QueueTypeOK'
    <2>1. Unlock(j, "completed") /\ "completed" \in Status
        BY <1>6 DEF Finalize, Status, Terminal
    <2>2. FreeGate \in Gate
        BY DEF FreeGate, Gate
    <2>3. CASE source_of[j] \in Sources
        <3>1. /\ gate' \in [Sources -> Gate]
              /\ revision' \in [Sources -> Nat]
            <4>1. /\ gate' = [gate EXCEPT ![source_of[j]] = FreeGate]
                  /\ revision' = [revision EXCEPT ![source_of[j]] = @ + 1]
                BY <1>6, <2>3 DEF Finalize
            <4>2. gate \in [Sources -> Gate] /\ revision \in [Sources -> Nat]
                BY DEF QueueTypeOK
            <4> QED BY <2>2, <2>3, <4>1, <4>2
        <3>2. cooldown' \in [Sources -> Nat]
            BY <1>6, <2>3 DEF Finalize, QueueTypeOK
        <3> QED BY <1>6, <2>1, <3>1, <3>2, UnlockType DEF Finalize, QueueTypeOK
    <2>4. CASE source_of[j] \notin Sources
        BY <1>6, <2>1, <2>4, UnlockType DEF Finalize, QueueTypeOK
    <2> QED BY <2>3, <2>4
<1>7. ASSUME NEW w \in Workers, NEW j \in Jobs, NEW g \in 1..MaxGeneration,
             NEW retryable \in BOOLEAN, Fail(j, w, g, retryable)
      PROVE  QueueTypeOK'
    <2> PICK newStatus \in {"dead", "pending"} : Unlock(j, newStatus)
        BY <1>7 DEF Fail
    <2>1. newStatus \in Status
        BY DEF Status, Terminal
    <2>2. gate' \in [Sources -> Gate] /\ cooldown' \in [Sources -> Nat]
        BY <1>7, GateMoveType DEF Fail, QueueTypeOK
    <2>3. attempts[j] \in 1..MaxAttempts
        BY <1>7 DEF Fail, LeaseLive, RowConstraints, QueueTypeOK
    <2>4. due_in' \in [Jobs -> Nat]
        BY <1>7, <2>3 DEF Fail, QueueTypeOK
    <2> QED BY <1>7, <2>1, <2>2, <2>4, UnlockType DEF Fail, QueueTypeOK
<1>8. ASSUME NEW w \in Workers, NEW j \in Jobs, NEW g \in 1..MaxGeneration,
             NEW r \in 0..MaxDelay, Pause(j, w, g, r)
      PROVE  QueueTypeOK'
    <2>1. Unlock(j, "pending") /\ "pending" \in Status
        BY <1>8 DEF Pause, Status
    <2>2. attempts' \in [Jobs -> Nat] /\ due_in' \in [Jobs -> Nat]
        BY <1>8 DEF Pause, QueueTypeOK
    <2> QED BY <1>8, <2>1, <2>2, UnlockType DEF Pause, sourceVars, QueueTypeOK
<1>9. ASSUME NEW j \in Jobs, Cancel(j) PROVE QueueTypeOK'
    BY <1>9, UnlockType DEF Cancel, sourceVars, Status, Terminal, QueueTypeOK
<1>10. ASSUME NEW s \in Sources, Disable(s) PROVE QueueTypeOK'
    BY <1>10 DEF Disable, jobVars, QueueTypeOK
<1>11. CASE Tick
    <2>1. \A t \in Nat : Elapse(t) \in Nat
        BY DEF Elapse
    <2>2. \A s \in Sources : gate[s] \in Gate /\ Elapse(gate[s].left) \in Nat
        BY <2>1 DEF QueueTypeOK, Gate
    <2>3. \A s \in Sources : [gate[s] EXCEPT !.left = Elapse(@)] \in Gate
        BY <2>2 DEF Gate
    <2> QED BY <1>11, <2>1, <2>3 DEF Tick, QueueTypeOK
<1>12. CASE UNCHANGED queueVars
    BY <1>12 DEF queueVars, QueueTypeOK
<1> QED
    BY <1>1, <1>2, <1>3, <1>4, <1>5, <1>6, <1>7, <1>8, <1>9, <1>10, <1>11, <1>12
    DEF QueueNext, Call
-------------------------------------------------------------------------------
(* The row constraints.                                                    *)

LEMMA NextRows ==
    QueueTypeOK /\ RowConstraints /\ [QueueNext]_queueVars => RowConstraints'
<1> SUFFICES ASSUME QueueTypeOK, RowConstraints, [QueueNext]_queueVars
             PROVE  RowConstraints'
    OBVIOUS
<1> USE ConstantsAssumption
<1>1. ASSUME NEW j \in Jobs, NEW d \in 0..MaxDelay, Enqueue(j, d) PROVE RowConstraints'
    BY <1>1 DEF Enqueue, RowConstraints, QueueTypeOK
<1>2. CASE Sweep
    BY <1>2 DEF Sweep, SweptStatus, SweptGeneration, SweptOwner, IssuedGeneration,
                Exhausted, Available, RowConstraints, QueueTypeOK
<1>3. ASSUME NEW w \in Workers, NEW j \in Jobs, Claim(w, j) PROVE RowConstraints'
    <2> SUFFICES ASSUME NEW k \in Jobs
                 PROVE  /\ status'[k] = "running" <=> locked_by'[k] # NoWorker
                        /\ status'[k] # "running" => lease_left'[k] = 0
                        /\ status'[k] = "running" => attempts'[k] > 0
                        /\ attempts'[k] <= Min2(MaxAttempts, generation'[k])
        BY DEF RowConstraints
    <2>1. CASE k = j
        <3>1. status'[j] = "running" /\ locked_by'[j] = w
            BY <1>3, SweptType DEF Claim
        <3>2. generation'[j] = generation[j] + 1
            BY <1>3, SweptType DEF Claim, IssuedGeneration
        <3>3. attempts'[j] = attempts[j] + 1 /\ attempts[j] < MaxAttempts
            BY <1>3 DEF Claim, Claimable, QueueTypeOK
        <3> QED BY <2>1, <3>1, <3>2, <3>3 DEF RowConstraints, QueueTypeOK
    <2>2. CASE k # j
        <3>1. /\ status'[k] = SweptStatus[k] /\ generation'[k] = SweptGeneration[k]
              /\ locked_by'[k] = SweptOwner[k]
              /\ lease_left'[k] = lease_left[k] /\ attempts'[k] = attempts[k]
            BY <1>3, <2>2, SweptType DEF Claim, QueueTypeOK
        <3> QED BY <3>1 DEF SweptStatus, SweptGeneration, SweptOwner, IssuedGeneration,
                            Exhausted, Available, RowConstraints, QueueTypeOK
    <2> QED BY <2>1, <2>2
<1>4. ASSUME NEW w \in Workers, NEW j \in Jobs, NEW g \in 1..MaxGeneration,
             Heartbeat(j, w, g)
      PROVE  RowConstraints'
    BY <1>4 DEF Heartbeat, LeaseLive, RowConstraints, QueueTypeOK
<1>5. ASSUME NEW w \in Workers, NEW j \in Jobs, NEW g \in 1..MaxGeneration,
             Begin(j, w, g)
      PROVE  RowConstraints'
    BY <1>5 DEF Begin, LeaseLive, RowConstraints, QueueTypeOK
<1>6. ASSUME NEW w \in Workers, NEW j \in Jobs, NEW g \in 1..MaxGeneration,
             NEW base \in 0..Cardinality(Jobs), Finalize(j, w, g, base)
      PROVE  RowConstraints'
    BY <1>6 DEF Finalize, Unlock, RowConstraints, QueueTypeOK
<1>7. ASSUME NEW w \in Workers, NEW j \in Jobs, NEW g \in 1..MaxGeneration,
             NEW retryable \in BOOLEAN, Fail(j, w, g, retryable)
      PROVE  RowConstraints'
    <2> PICK newStatus \in {"dead", "pending"} : Unlock(j, newStatus)
        BY <1>7 DEF Fail
    <2> QED BY <1>7 DEF Fail, Unlock, RowConstraints, QueueTypeOK
<1>8. ASSUME NEW w \in Workers, NEW j \in Jobs, NEW g \in 1..MaxGeneration,
             NEW r \in 0..MaxDelay, Pause(j, w, g, r)
      PROVE  RowConstraints'
    BY <1>8 DEF Pause, NamesLease, Unlock, RowConstraints, QueueTypeOK
<1>9. ASSUME NEW j \in Jobs, Cancel(j) PROVE RowConstraints'
    BY <1>9 DEF Cancel, Unlock, RowConstraints, QueueTypeOK
<1>10. ASSUME NEW s \in Sources, Disable(s) PROVE RowConstraints'
    BY <1>10 DEF Disable, jobVars, RowConstraints
<1>11. CASE Tick
    BY <1>11 DEF Tick, Elapse, RowConstraints, QueueTypeOK
<1>12. CASE UNCHANGED queueVars
    BY <1>12 DEF queueVars, RowConstraints
<1> QED
    BY <1>1, <1>2, <1>3, <1>4, <1>5, <1>6, <1>7, <1>8, <1>9, <1>10, <1>11, <1>12
    DEF QueueNext, Call
-------------------------------------------------------------------------------
(* Gates follow leases.                                                    *)

\* The condition of GatesFollowLeases on the gate of one source.
GateFollows(s) ==
    gate[s].job # NoJob =>
        /\ gate[s].job \in Jobs
        /\ source_of[gate[s].job] = s
        /\ gate[s].gen \in 1..generation[gate[s].job]
        /\ gate[s].gen = generation[gate[s].job] /\ status[gate[s].job] = "running"
               => gate[s].left = lease_left[gate[s].job]

LEMMA GateFollowsEach ==
    ASSUME QueueTypeOK
    PROVE  GatesFollowLeases <=> \A s \in Sources : GateFollows(s)
BY DEF GatesFollowLeases, GateFollows, QueueTypeOK, Gate

\* A gate that is left alone goes on following: its lease lasts unchanged,
\* ends, or is followed by a lease of a later generation.
LEMMA KeptGateFollows ==
    ASSUME QueueTypeOK, QueueTypeOK', NEW s \in Sources, GateFollows(s),
           gate'[s] = gate[s],
           \A j \in Jobs :
               \/ generation'[j] > generation[j]
               \/ /\ generation'[j] = generation[j]
                  /\ source_of[j] = s /\ status'[j] = "running" =>
                        status[j] = "running" /\ lease_left'[j] = lease_left[j]
    PROVE  GateFollows(s)'
BY DEF GateFollows, QueueTypeOK, Gate

LEMMA FreeGateFollows ==
    ASSUME NEW s \in Sources, gate'[s] = FreeGate
    PROVE  GateFollows(s)'
BY DEF GateFollows, FreeGate

LEMMA UnlockStops ==
    ASSUME QueueTypeOK, NEW j \in Jobs, NEW newStatus, newStatus # "running",
           Unlock(j, newStatus), generation' = generation
    PROVE  \A k \in Jobs :
              /\ generation'[k] = generation[k]
              /\ status'[k] = "running" =>
                    status[k] = "running" /\ lease_left'[k] = lease_left[k]
BY DEF Unlock, QueueTypeOK

LEMMA NextGates == QueueInv /\ [QueueNext]_queueVars => GatesFollowLeases'
<1> SUFFICES ASSUME QueueInv, [QueueNext]_queueVars PROVE GatesFollowLeases'
    OBVIOUS
<1> USE ConstantsAssumption
<1>a. QueueTypeOK /\ RowConstraints /\ \A s \in Sources : GateFollows(s)
    BY GateFollowsEach DEF QueueInv
<1>b. QueueTypeOK'
    BY <1>a, NextType
<1> SUFFICES ASSUME NEW s \in Sources PROVE GateFollows(s)'
    BY <1>b DEF GatesFollowLeases, GateFollows, QueueTypeOK, Gate
<1>1. ASSUME NEW j \in Jobs, NEW d \in 0..MaxDelay, Enqueue(j, d) PROVE GateFollows(s)'
    BY <1>1, <1>a, <1>b, KeptGateFollows DEF Enqueue, sourceVars, QueueTypeOK
<1>2. CASE Sweep
    BY <1>2, <1>a, <1>b, KeptGateFollows
    DEF Sweep, SweptStatus, SweptGeneration, IssuedGeneration, sourceVars, QueueTypeOK
<1>3. ASSUME NEW w \in Workers, NEW j \in Jobs, Claim(w, j) PROVE GateFollows(s)'
    <2>1. ASSUME NEW k \in Jobs
          PROVE  \/ generation'[k] > generation[k]
                 \/ /\ generation'[k] = generation[k]
                    /\ status'[k] = "running" =>
                          status[k] = "running" /\ lease_left'[k] = lease_left[k]
        <3>1. CASE k = j
            BY <1>3, <1>a, <3>1, SweptType DEF Claim, IssuedGeneration, QueueTypeOK
        <3>2. CASE k # j
            <4>1. /\ status'[k] = SweptStatus[k] /\ generation'[k] = SweptGeneration[k]
                  /\ lease_left'[k] = lease_left[k]
                BY <1>3, <1>a, <3>2, SweptType DEF Claim, QueueTypeOK
            <4> QED BY <4>1, <1>a DEF SweptStatus, SweptGeneration, IssuedGeneration,
                                      QueueTypeOK
        <3> QED BY <3>1, <3>2
    <2> QED BY <1>3, <1>a, <1>b, <2>1, KeptGateFollows DEF Claim, sourceVars
<1>4. ASSUME NEW w \in Workers, NEW j \in Jobs, NEW g \in 1..MaxGeneration,
             Heartbeat(j, w, g)
      PROVE  GateFollows(s)'
    <2>1. CASE OwnsGate(s, j, g)
        BY <1>4, <1>a, <2>1 DEF Heartbeat, RenewedGates, OwnsGate, GateFollows,
                                LeaseLive, QueueTypeOK, Gate
    <2>2. CASE ~OwnsGate(s, j, g)
        BY <1>4, <1>a, <2>2 DEF Heartbeat, RenewedGates, OwnsGate, GateFollows,
                                LeaseLive, QueueTypeOK, Gate
    <2> QED BY <2>1, <2>2
<1>5. ASSUME NEW w \in Workers, NEW j \in Jobs, NEW g \in 1..MaxGeneration,
             Begin(j, w, g)
      PROVE  GateFollows(s)'
    <2>1. CASE source_of[j] = s
        BY <1>5, <1>a, <2>1 DEF Begin, LeaseLive, GateFollows, QueueTypeOK, Gate
    <2>2. CASE source_of[j] # s
        BY <1>5, <1>a, <2>2 DEF Begin, GateFollows, QueueTypeOK, Gate
    <2> QED BY <2>1, <2>2
<1>6. ASSUME NEW w \in Workers, NEW j \in Jobs, NEW g \in 1..MaxGeneration,
             NEW base \in 0..Cardinality(Jobs), Finalize(j, w, g, base)
      PROVE  GateFollows(s)'
    <2>1. CASE source_of[j] = s
        BY <1>6, <1>a, <2>1, FreeGateFollows DEF Finalize, QueueTypeOK
    <2>2. CASE source_of[j] # s
        <3>1. gate'[s] = gate[s]
            BY <1>6, <1>a, <2>2 DEF Finalize, QueueTypeOK
        <3> QED BY <1>6, <1>a, <1>b, <3>1, UnlockStops, KeptGateFollows DEF Finalize
    <2> QED BY <2>1, <2>2
<1>7. ASSUME NEW w \in Workers, NEW j \in Jobs, NEW g \in 1..MaxGeneration,
             NEW retryable \in BOOLEAN, Fail(j, w, g, retryable)
      PROVE  GateFollows(s)'
    <2>1. CASE OwnsGate(s, j, g)
        BY <1>7, <1>a, <2>1, FreeGateFollows DEF Fail, ReleasedGates
    <2>2. CASE ~OwnsGate(s, j, g)
        <3>1. gate'[s] = gate[s]
            BY <1>7, <1>a, <2>2 DEF Fail, ReleasedGates
        <3>2. PICK newStatus \in {"dead", "pending"} : Unlock(j, newStatus)
            BY <1>7 DEF Fail
        <3> QED BY <1>7, <1>a, <1>b, <3>1, <3>2, UnlockStops, KeptGateFollows DEF Fail
    <2> QED BY <2>1, <2>2
<1>8. ASSUME NEW w \in Workers, NEW j \in Jobs, NEW g \in 1..MaxGeneration,
             NEW r \in 0..MaxDelay, Pause(j, w, g, r)
      PROVE  GateFollows(s)'
    BY <1>8, <1>a, <1>b, UnlockStops, KeptGateFollows DEF Pause, sourceVars
<1>9. ASSUME NEW j \in Jobs, Cancel(j) PROVE GateFollows(s)'
    BY <1>9, <1>a, <1>b, UnlockStops, KeptGateFollows DEF Cancel, sourceVars
<1>10. ASSUME NEW t \in Sources, Disable(t) PROVE GateFollows(s)'
    BY <1>10, <1>a, <1>b, KeptGateFollows DEF Disable, jobVars
<1>11. CASE Tick
    <2>1. gate[s] \in Gate /\ gate'[s] = [gate[s] EXCEPT !.left = Elapse(@)]
        BY <1>11, <1>a DEF Tick, QueueTypeOK
    <2>2. /\ gate'[s].job = gate[s].job /\ gate'[s].gen = gate[s].gen
          /\ gate'[s].left = Elapse(gate[s].left)
        BY <2>1 DEF Gate
    <2> QED BY <1>11, <1>a, <2>2 DEF Tick, GateFollows, QueueTypeOK
<1>12. CASE UNCHANGED queueVars
    BY <1>12, <1>a, <1>b, KeptGateFollows DEF queueVars
<1> QED
    BY <1>1, <1>2, <1>3, <1>4, <1>5, <1>6, <1>7, <1>8, <1>9, <1>10, <1>11, <1>12
    DEF QueueNext, Call
-------------------------------------------------------------------------------
(* The inductive invariant holds of every reachable state.                 *)
LEMMA InitInv == QueueInit => QueueInv
BY InitType, ConstantsAssumption
DEF QueueInit, QueueInv, RowConstraints, GatesFollowLeases, FreeGate

LEMMA NextInv == QueueInv /\ [QueueNext]_queueVars => QueueInv'
BY NextType, NextRows, NextGates DEF QueueInv

LEMMA QueueInvariant == QueueSpec => []QueueInv
BY InitInv, NextInv, PTL DEF QueueSpec

(* No call of any client stores a value outside its column or leaves a row *)
(* the CHECK constraints of ingest.jobs refuse: no job is tried more often *)
(* than it may be, and no retry is asked for an attempt without a backoff. *)
THEOREM RowsKeepConstraints == QueueSpec => []RowsAreSound
BY QueueInvariant, PTL DEF QueueInv, RowsAreSound

(* A gate runs out with the lease it was granted to, and names a lease     *)
(* that was really issued for a job of its source.                         *)
THEOREM GatesKeepFollowing == QueueSpec => []GatesFollowLeases
BY QueueInvariant, PTL DEF QueueInv
-------------------------------------------------------------------------------
(* What one step never does.                                               *)

LEMMA StepKeepsTerminal ==
    ASSUME QueueTypeOK, [QueueNext]_queueVars, NEW k \in Jobs, status[k] \in Terminal
    PROVE  status'[k] = status[k]
<1>1. ASSUME NEW j \in Jobs, NEW w, NEW g, LeaseLive(j, w, g) \/ NamesLease(j, w, g)
      PROVE  j # k
    BY <1>1 DEF LeaseLive, NamesLease, Terminal
<1>2. ASSUME NEW j \in Jobs, NEW newStatus, j # k, Unlock(j, newStatus)
      PROVE  status'[k] = status[k]
    BY <1>2 DEF Unlock, QueueTypeOK
<1>3. ASSUME NEW j \in Jobs, NEW d \in 0..MaxDelay, Enqueue(j, d)
      PROVE  status'[k] = status[k]
    BY <1>3 DEF Enqueue, Terminal, QueueTypeOK
<1>4. CASE Sweep
    BY <1>4 DEF Sweep, SweptStatus, Exhausted, Available, Terminal
<1>5. ASSUME NEW w \in Workers, NEW j \in Jobs, Claim(w, j) PROVE status'[k] = status[k]
    BY <1>5 DEF Claim, Claimable, SweptStatus, Exhausted, Available, Terminal
<1>6. ASSUME NEW w \in Workers, NEW j \in Jobs, NEW g \in 1..MaxGeneration, Call(j, w, g)
      PROVE  status'[k] = status[k]
    BY <1>1, <1>2, <1>6 DEF Call, Heartbeat, Begin, Finalize, Fail, Pause
<1>7. ASSUME NEW j \in Jobs, Cancel(j) PROVE status'[k] = status[k]
    BY <1>2, <1>7 DEF Cancel, Terminal
<1>8. ASSUME NEW s \in Sources, Disable(s) PROVE status'[k] = status[k]
    BY <1>8 DEF Disable, jobVars
<1>9. CASE Tick
    BY <1>9 DEF Tick
<1>10. CASE UNCHANGED queueVars
    BY <1>10 DEF queueVars
<1> QED BY <1>3, <1>4, <1>5, <1>6, <1>7, <1>8, <1>9, <1>10 DEF QueueNext

(* A completed, cancelled or dead row is never written again, whatever     *)
(* calls arrive late or twice.                                             *)
THEOREM TerminalRowsStay == QueueSpec => TerminalStays
<1>1. QueueInv /\ [QueueNext]_queueVars =>
          [\A j \in Jobs : status[j] \in Terminal => status'[j] = status[j]]_queueVars
    BY StepKeepsTerminal DEF QueueInv
<1> QED BY <1>1, QueueInvariant, PTL DEF QueueSpec, TerminalStays

LEMMA StepRespectsGate ==
    ASSUME QueueInv, [QueueNext]_queueVars,
           NEW s \in Sources, GateBusy(s), gate'[s] # gate[s]
    PROVE  FreedByOwner(s) \/ RenewedByOwner(s) \/ RunsOut(s)
<1> DEFINE j0 == gate[s].job
<1>a. QueueTypeOK /\ GateFollows(s)
    BY GateFollowsEach DEF QueueInv
<1>b. j0 \in Jobs /\ gate[s].left \in Nat \ {0}
    BY <1>a DEF GateBusy, GateFollows, QueueTypeOK, Gate
<1>1. gate' # gate
    OBVIOUS
<1>2. ASSUME NEW w \in Workers, NEW j \in Jobs, NEW g \in 1..MaxGeneration,
             Heartbeat(j, w, g)
      PROVE  RenewedByOwner(s)
    <2>1. OwnsGate(s, j, g) /\ gate'[s] = [gate[s] EXCEPT !.left = LeaseFor]
        BY <1>2 DEF Heartbeat, RenewedGates
    <2>2. OwnerLive(s) /\ lease_left'[j] = LeaseFor
        BY <1>2, <1>a, <2>1 DEF Heartbeat, LeaseLive, OwnsGate, OwnerLive, QueueTypeOK
    <2>3. gate'[s].job = j /\ gate'[s].gen = g
        BY <1>a, <2>1 DEF OwnsGate, QueueTypeOK, Gate
    <2>4. OwnerLive(s)'
        BY <1>2, <2>2, <2>3, ConstantsAssumption DEF Heartbeat, LeaseLive, OwnerLive
    <2> QED BY <2>1, <2>2, <2>4 DEF OwnsGate, RenewedByOwner
<1>3. ASSUME NEW w \in Workers, NEW j \in Jobs, NEW g \in 1..MaxGeneration,
             Begin(j, w, g)
      PROVE  FALSE
    BY <1>3, <1>a DEF Begin, MayBegin, QueueTypeOK
<1>4. ASSUME NEW w \in Workers, NEW j \in Jobs, NEW g \in 1..MaxGeneration,
             NEW base \in 0..Cardinality(Jobs), Finalize(j, w, g, base)
      PROVE  FreedByOwner(s)
    <2>1. source_of[j] \in Sources /\ s = source_of[j] /\ gate'[s] = FreeGate
        BY <1>4, <1>a DEF Finalize, QueueTypeOK
    <2>2. OwnsGate(s, j, g)
        BY <1>4, <2>1 DEF Finalize, MayPersist
    <2>3. status'[j] = "completed"
        BY <1>4, <1>a DEF Finalize, Unlock, QueueTypeOK
    <2> QED BY <1>4, <2>1, <2>2, <2>3 DEF Finalize, LeaseLive, OwnsGate, OwnerLive,
                                          FreedByOwner
<1>5. ASSUME NEW w \in Workers, NEW j \in Jobs, NEW g \in 1..MaxGeneration,
             NEW retryable \in BOOLEAN, Fail(j, w, g, retryable)
      PROVE  FreedByOwner(s)
    <2>1. OwnsGate(s, j, g) /\ gate'[s] = FreeGate
        BY <1>5 DEF Fail, ReleasedGates
    <2>2. status'[j] # "running"
        BY <1>5, <1>a DEF Fail, Unlock, QueueTypeOK
    <2> QED BY <1>5, <2>1, <2>2 DEF Fail, LeaseLive, OwnsGate, OwnerLive, FreedByOwner
<1>6. CASE Tick
    BY <1>6, <1>b DEF Tick, Elapse, RunsOut
<1>7. ASSUME NEW w \in Workers, NEW j \in Jobs, NEW g \in 1..MaxGeneration,
             NEW r \in 0..MaxDelay, Pause(j, w, g, r)
      PROVE  FALSE
    BY <1>1, <1>7 DEF Pause, sourceVars
<1>8. ASSUME \/ \E j \in Jobs, d \in 0..MaxDelay : Enqueue(j, d)
             \/ Sweep
             \/ \E w \in Workers, j \in Jobs : Claim(w, j)
             \/ \E j \in Jobs : Cancel(j)
             \/ \E t \in Sources : Disable(t)
             \/ UNCHANGED queueVars
      PROVE  FALSE
    BY <1>1, <1>8 DEF Enqueue, Sweep, Claim, Cancel, Disable, sourceVars, queueVars
<1> QED BY <1>2, <1>3, <1>4, <1>5, <1>6, <1>7, <1>8 DEF QueueNext, Call

(* No request is admitted to a source behind the back of the one that may  *)
(* still be running: a busy gate is freed by the transaction that ends the *)
(* live lease it was granted to, renewed with that lease, or runs out with *)
(* the time.  No other caller, late or foreign, moves it.                  *)
THEOREM BusyGatesRespected == QueueSpec => BusyGateNotStolen
<1>1. QueueInv /\ [QueueNext]_queueVars =>
          [\A s \in Sources :
              GateBusy(s) /\ gate'[s] # gate[s] =>
                  FreedByOwner(s) \/ RenewedByOwner(s) \/ RunsOut(s)]_queueVars
    BY StepRespectsGate
<1> QED BY <1>1, QueueInvariant, PTL DEF QueueSpec, BusyGateNotStolen

LEMMA StepGuardsLease ==
    ASSUME QueueTypeOK, RowConstraints, [QueueNext]_queueVars, NEW k \in Jobs
    PROVE  /\ lease_left[k] = 0 /\ lease_left'[k] > 0 => generation'[k] > generation[k]
           /\ lease_left[k] > 0 =>
                 /\ generation'[k] = generation[k]
                 /\ locked_by'[k] \in {locked_by[k], NoWorker}
<1> DEFINE Guarded ==
        /\ lease_left[k] = 0 /\ lease_left'[k] > 0 => generation'[k] > generation[k]
        /\ lease_left[k] > 0 =>
              /\ generation'[k] = generation[k]
              /\ locked_by'[k] \in {locked_by[k], NoWorker}
<1>1. CASE Sweep
    BY <1>1 DEF Sweep, SweptGeneration, SweptOwner, Exhausted, Available, RowConstraints,
                QueueTypeOK
<1>2. ASSUME NEW w \in Workers, NEW j \in Jobs, Claim(w, j) PROVE Guarded
    <2>1. CASE j = k
        <3>1. lease_left[k] = 0
            BY <1>2, <2>1 DEF Claim, Claimable, Available, RowConstraints
        <3>2. generation'[k] = generation[k] + 1
            BY <1>2, <2>1, SweptType DEF Claim, IssuedGeneration
        <3> QED BY <3>1, <3>2 DEF QueueTypeOK
    <2>2. CASE j # k
        <3>1. /\ generation'[k] = SweptGeneration[k] /\ locked_by'[k] = SweptOwner[k]
              /\ lease_left'[k] = lease_left[k]
            BY <1>2, <2>2, SweptType DEF Claim, QueueTypeOK
        <3> QED BY <3>1 DEF SweptGeneration, SweptOwner, Exhausted, Available,
                            RowConstraints, QueueTypeOK
    <2> QED BY <2>1, <2>2
<1>3. ASSUME NEW j \in Jobs, NEW newStatus, Unlock(j, newStatus), generation' = generation
      PROVE  Guarded
    BY <1>3 DEF Unlock, QueueTypeOK
<1>4. ASSUME NEW j \in Jobs, NEW w \in Workers, NEW g \in 1..MaxGeneration, Call(j, w, g)
      PROVE  Guarded
    <2>1. CASE Heartbeat(j, w, g)
        BY <2>1 DEF Heartbeat, LeaseLive, QueueTypeOK
    <2>2. CASE Begin(j, w, g)
        BY <2>2 DEF Begin, LeaseLive, QueueTypeOK
    <2> QED BY <1>3, <1>4, <2>1, <2>2 DEF Call, Finalize, Fail, Pause
<1>5. ASSUME NEW j \in Jobs, Cancel(j) PROVE Guarded
    BY <1>3, <1>5 DEF Cancel
<1>6. CASE Tick
    BY <1>6 DEF Tick, Elapse, QueueTypeOK
<1>7. ASSUME \/ \E j \in Jobs, d \in 0..MaxDelay : Enqueue(j, d)
             \/ \E t \in Sources : Disable(t)
             \/ UNCHANGED queueVars
      PROVE  Guarded
    BY <1>7 DEF Enqueue, Disable, jobVars, queueVars
<1> QED BY <1>1, <1>2, <1>4, <1>5, <1>6, <1>7 DEF QueueNext

(* A lease comes to life only under a generation that was never issued.    *)
THEOREM LeasesAreFresh == QueueSpec => NewLeaseNewGeneration
<1>1. QueueInv /\ [QueueNext]_queueVars =>
          [\A j \in Jobs :
              lease_left[j] = 0 /\ lease_left'[j] > 0
                  => generation'[j] > generation[j]]_queueVars
    BY StepGuardsLease DEF QueueInv
<1> QED BY <1>1, QueueInvariant, PTL DEF QueueSpec, NewLeaseNewGeneration

(* A row under a live lease is not handed to another worker.               *)
THEOREM LiveLeasesRespected == QueueSpec => LiveLeaseNotStolen
<1>1. QueueInv /\ [QueueNext]_queueVars =>
          [\A j \in Jobs :
              lease_left[j] > 0 =>
                  /\ generation'[j] = generation[j]
                  /\ locked_by'[j] \in {locked_by[j], NoWorker}]_queueVars
    BY StepGuardsLease DEF QueueInv
<1> QED BY <1>1, QueueInvariant, PTL DEF QueueSpec, LiveLeaseNotStolen
-------------------------------------------------------------------------------
(* Results are persisted once.                                             *)

LEMMA CompletedJobsFinite ==
    ASSUME NEW s
    PROVE  IsFiniteSet(CompletedJobs(s)) /\ Cardinality(CompletedJobs(s)) \in Nat
BY ConstantsAssumption, FS_Subset, FS_CardinalityType DEF CompletedJobs

\* Only a finalizer completes a job or writes a result.
LEMMA OnlyFinalizeCompletes ==
    ASSUME QueueTypeOK, [QueueNext]_queueVars,
           ~ \E w \in Workers, j \in Jobs :
               \E g \in 1..MaxGeneration, base \in 0..Cardinality(Jobs) :
                   Finalize(j, w, g, base)
    PROVE  /\ revision' = revision
           /\ \A k \in Jobs : status'[k] = "completed" <=> status[k] = "completed"
<1> DEFINE Same == /\ revision' = revision
                   /\ \A k \in Jobs : status'[k] = "completed" <=> status[k] = "completed"
<1>1. CASE Sweep
    BY <1>1 DEF Sweep, SweptStatus, Exhausted, Available, sourceVars, QueueTypeOK
<1>2. ASSUME NEW w \in Workers, NEW j \in Jobs, Claim(w, j) PROVE Same
    BY <1>2, SweptType
    DEF Claim, Claimable, SweptStatus, Exhausted, Available, sourceVars, QueueTypeOK
<1>3. ASSUME NEW j \in Jobs, NEW newStatus \in {"pending", "dead", "cancelled"},
             Unlock(j, newStatus), status[j] # "completed", revision' = revision
      PROVE  Same
    BY <1>3 DEF Unlock, QueueTypeOK
<1>4. ASSUME NEW j \in Jobs, NEW w \in Workers, NEW g \in 1..MaxGeneration, Call(j, w, g)
      PROVE  Same
    <2>1. CASE \E retryable \in BOOLEAN : Fail(j, w, g, retryable)
        <3>1. PICK newStatus \in {"pending", "dead"} : Unlock(j, newStatus)
            BY <2>1 DEF Fail
        <3> QED BY <1>3, <2>1, <3>1 DEF Fail, LeaseLive
    <2>2. CASE \E r \in 0..MaxDelay : Pause(j, w, g, r)
        BY <1>3, <2>2 DEF Pause, NamesLease, sourceVars
    <2> QED BY <1>4, <2>1, <2>2 DEF Call, Heartbeat, Begin
<1>5. ASSUME NEW j \in Jobs, Cancel(j) PROVE Same
    BY <1>3, <1>5 DEF Cancel, sourceVars
<1>6. ASSUME NEW j \in Jobs, NEW d \in 0..MaxDelay, Enqueue(j, d) PROVE Same
    BY <1>6 DEF Enqueue, sourceVars, QueueTypeOK
<1>7. CASE Tick \/ (\E t \in Sources : Disable(t)) \/ UNCHANGED queueVars
    BY <1>7 DEF Tick, Disable, jobVars, queueVars
<1> QED BY <1>1, <1>2, <1>4, <1>5, <1>6, <1>7 DEF QueueNext

LEMMA NextResults ==
    QueueTypeOK /\ ResultsPersistedOnce /\ [QueueNext]_queueVars => ResultsPersistedOnce'
<1> SUFFICES ASSUME QueueTypeOK, ResultsPersistedOnce, [QueueNext]_queueVars,
                    NEW s \in Sources
             PROVE  revision'[s] = Cardinality(CompletedJobs(s)')
    BY DEF ResultsPersistedOnce
<1>1. ASSUME NEW w \in Workers, NEW j \in Jobs, NEW g \in 1..MaxGeneration,
             NEW base \in 0..Cardinality(Jobs), Finalize(j, w, g, base)
      PROVE  revision'[s] = Cardinality(CompletedJobs(s)')
    <2>1. status[j] = "running" /\ status' = [status EXCEPT ![j] = "completed"]
        BY <1>1 DEF Finalize, LeaseLive, Unlock
    <2>2. CASE source_of[j] = s
        <3>1. CompletedJobs(s)' = CompletedJobs(s) \cup {j} /\ j \notin CompletedJobs(s)
            BY <2>1, <2>2 DEF CompletedJobs, QueueTypeOK
        <3>2. Cardinality(CompletedJobs(s)') = Cardinality(CompletedJobs(s)) + 1
            BY <3>1, CompletedJobsFinite, FS_AddElement
        <3>3. revision'[s] = revision[s] + 1
            BY <1>1, <2>2 DEF Finalize, QueueTypeOK
        <3> QED BY <3>2, <3>3 DEF ResultsPersistedOnce
    <2>3. CASE source_of[j] # s
        <3>1. CompletedJobs(s)' = CompletedJobs(s)
            BY <2>1, <2>3 DEF CompletedJobs, QueueTypeOK
        <3>2. revision'[s] = revision[s]
            BY <1>1, <2>3 DEF Finalize, QueueTypeOK
        <3> QED BY <3>1, <3>2 DEF ResultsPersistedOnce
    <2> QED BY <2>2, <2>3
<1>2. CASE ~ \E w \in Workers, j \in Jobs :
               \E g \in 1..MaxGeneration, base \in 0..Cardinality(Jobs) :
                   Finalize(j, w, g, base)
    <2>1. CompletedJobs(s)' = CompletedJobs(s) /\ revision'[s] = revision[s]
        BY <1>2, OnlyFinalizeCompletes DEF CompletedJobs
    <2> QED BY <2>1 DEF ResultsPersistedOnce
<1> QED BY <1>1, <1>2

LEMMA InitResults == QueueInit => ResultsPersistedOnce
<1> SUFFICES ASSUME QueueInit, NEW s \in Sources
             PROVE  revision[s] = Cardinality(CompletedJobs(s))
    BY DEF ResultsPersistedOnce
<1>1. CompletedJobs(s) = {}
    BY DEF QueueInit, CompletedJobs
<1> QED BY <1>1, FS_EmptySet DEF QueueInit

(* However often jobs are retried, leases revoked and calls repeated, the  *)
(* results of a source are exactly those of its completed jobs, once each. *)
THEOREM ResultsOncePerJob == QueueSpec => []ResultsPersistedOnce
<1>1. QueueInv /\ ResultsPersistedOnce /\ [QueueNext]_queueVars => ResultsPersistedOnce'
    BY NextResults DEF QueueInv
<1> QED BY <1>1, InitResults, QueueInvariant, PTL DEF QueueSpec

-------------------------------------------------------------------------------
(* JobQueue implements JobLedger: seen through LedgerPhase and LedgerUser, *)
(* each transaction is the ledger's action of the same purpose or a        *)
(* stutter, and the clock is Lapse.                                        *)

\* What a lease that nobody else can have looks like in the ledger.
LEMMA LiveIsLeased ==
    ASSUME NEW j \in Jobs, NEW w, NEW g, LeaseLive(j, w, g)
    PROVE  j \in Ledger!Leased
BY DEF LeaseLive, Ledger!Leased, LedgerPhase

LEMMA AvailableIsWaiting ==
    ASSUME QueueTypeOK, RowConstraints, NEW j \in Jobs, Available(j)
    PROVE  j \in Ledger!Waiting
BY DEF Available, Ledger!Waiting, LedgerPhase, QueueTypeOK

\* The row leaves status running or pending.
LEMMA UnlockMoves ==
    ASSUME QueueTypeOK, NEW j \in Jobs, NEW newStatus \in Status \ {"running", "absent"},
           Unlock(j, newStatus)
    PROVE  LedgerPhase' = Ledger!Move({j}, IF newStatus = "pending" THEN "waiting"
                                                                    ELSE newStatus)
BY DEF QueueTypeOK, Unlock, LedgerPhase, Ledger!Move, Status, Terminal

LEMMA SameRowsSamePhases ==
    ASSUME UNCHANGED <<status, lease_left>>
    PROVE  LedgerPhase' = LedgerPhase
BY DEF LedgerPhase

LEMMA SameGatesSameUsers ==
    ASSUME gate' = gate
    PROVE  LedgerUser' = LedgerUser
BY DEF LedgerUser, GateBusy
-------------------------------------------------------------------------------
(* One lemma per transaction.                                              *)

LEMMA EnqueueSubmits ==
    ASSUME QueueTypeOK, NEW j \in Jobs, NEW d, Enqueue(j, d)
    PROVE  Ledger!Submit(j)
<1>1. LedgerPhase[j] = "absent"
    BY DEF Enqueue, LedgerPhase
<1>2. LedgerPhase' = Ledger!Move({j}, "waiting")
    BY DEF Enqueue, LedgerPhase, Ledger!Move, QueueTypeOK
<1>3. LedgerUser' = LedgerUser /\ revision' = revision
    BY SameGatesSameUsers DEF Enqueue, sourceVars
<1> QED BY <1>1, <1>2, <1>3 DEF Ledger!Submit

LEMMA ExhaustedWaits ==
    ASSUME QueueTypeOK, RowConstraints
    PROVE  Exhausted \in SUBSET Ledger!Waiting
BY AvailableIsWaiting DEF Exhausted

LEMMA SweepBuries ==
    ASSUME QueueTypeOK, RowConstraints, Sweep
    PROVE  Ledger!Bury(Exhausted)
<1>1. LedgerPhase' = Ledger!Move(Exhausted, "dead")
    BY DEF Sweep, SweptStatus, LedgerPhase, Ledger!Move, Exhausted
<1>2. LedgerUser' = LedgerUser /\ revision' = revision
    BY SameGatesSameUsers DEF Sweep, sourceVars
<1> QED BY <1>1, <1>2 DEF Ledger!Bury

LEMMA ClaimGrants ==
    ASSUME QueueTypeOK, RowConstraints, NEW w \in Workers, NEW j \in Jobs, Claim(w, j)
    PROVE  Ledger!Grant(j, Exhausted)
<1>1. j \in Ledger!Waiting \ Exhausted
    <2>1. Available(j) /\ attempts[j] < MaxAttempts
        BY DEF Claim, Claimable
    <2>2. attempts[j] \in Nat /\ MaxAttempts \in Nat
        BY ConstantsAssumption DEF QueueTypeOK
    <2> QED BY <2>1, <2>2, AvailableIsWaiting DEF Exhausted
<1>2. LedgerPhase' = [Ledger!Move(Exhausted, "dead") EXCEPT ![j] = "leased"]
    <2>1. /\ status' = [SweptStatus EXCEPT ![j] = "running"]
          /\ lease_left' = [lease_left EXCEPT ![j] = LeaseFor]
        BY DEF Claim
    <2>2. \A k \in Jobs : LedgerPhase'[k] =
              IF k = j THEN "leased" ELSE IF k \in Exhausted THEN "dead" ELSE LedgerPhase[k]
        <3> TAKE k \in Jobs
        <3>1. CASE k = j
            BY <2>1, <3>1, SweptType, ConstantsAssumption DEF LedgerPhase, QueueTypeOK
        <3>2. CASE k # j
            BY <2>1, <3>2, SweptType DEF LedgerPhase, SweptStatus, QueueTypeOK
        <3> QED BY <3>1, <3>2
    <2>3. LedgerPhase' = [k \in Jobs |-> LedgerPhase'[k]]
        BY DEF LedgerPhase
    <2> QED BY <2>2, <2>3 DEF Ledger!Move
<1>3. LedgerUser' = LedgerUser /\ revision' = revision
    BY SameGatesSameUsers DEF Claim, sourceVars
<1> QED BY <1>1, <1>2, <1>3 DEF Ledger!Grant

LEMMA HeartbeatHides ==
    ASSUME QueueInv, NEW w \in Workers, NEW j \in Jobs, NEW g \in 1..MaxGeneration,
           Heartbeat(j, w, g)
    PROVE  UNCHANGED <<LedgerPhase, LedgerUser, revision>>
<1> USE ConstantsAssumption
<1>1. QueueTypeOK /\ \A s \in Sources : GateFollows(s)
    BY GateFollowsEach DEF QueueInv
<1>2. LedgerPhase' = LedgerPhase
    BY <1>1 DEF Heartbeat, LeaseLive, LedgerPhase, QueueTypeOK
<1>3. ASSUME NEW s \in Sources
      PROVE  gate'[s].job = gate[s].job /\ (GateBusy(s)' <=> GateBusy(s))
    <2>1. CASE OwnsGate(s, j, g)
        <3>1. gate'[s].left = LeaseFor /\ gate'[s].job = gate[s].job
            BY <1>1, <2>1 DEF Heartbeat, RenewedGates, QueueTypeOK, Gate
        <3>2. gate[s].left > 0
            BY <1>1, <2>1 DEF Heartbeat, LeaseLive, OwnsGate, GateFollows, QueueTypeOK
        <3> QED BY <3>1, <3>2 DEF GateBusy
    <2>2. CASE ~OwnsGate(s, j, g)
        BY <2>2 DEF Heartbeat, RenewedGates, GateBusy
    <2> QED BY <2>1, <2>2
<1>4. LedgerUser' = LedgerUser
    BY <1>3 DEF LedgerUser
<1> QED BY <1>2, <1>4 DEF Heartbeat

LEMMA BeginOpens ==
    ASSUME QueueTypeOK, NEW w \in Workers, NEW j \in Jobs, NEW g \in 1..MaxGeneration,
           Begin(j, w, g)
    PROVE  Ledger!Open(j)
<1> USE ConstantsAssumption
<1>1. j \in Ledger!Leased /\ source_of[j] \in Sources
    BY LiveIsLeased DEF Begin
<1>2. LedgerUser[source_of[j]] = NoJob
    BY <1>1 DEF Begin, MayBegin, LedgerUser
<1>3. PICK left \in Nat \ {0} :
          /\ lease_left' = [lease_left EXCEPT ![j] = left]
          /\ gate' = [gate EXCEPT ![source_of[j]] = [job |-> j, gen |-> g, left |-> left]]
    <2>1. Max2(lease_left[j], BeginLease) \in Nat \ {0}
        BY DEF Max2, QueueTypeOK
    <2> QED BY <2>1 DEF Begin
<1>4. LedgerPhase' = LedgerPhase
    BY <1>3 DEF Begin, LeaseLive, LedgerPhase, QueueTypeOK
<1>5. LedgerUser' = [LedgerUser EXCEPT ![source_of[j]] = j]
    <2>1. gate \in [Sources -> Gate] /\ j # NoJob
        BY DEF QueueTypeOK
    <2>2. \A s \in Sources : LedgerUser'[s] = IF s = source_of[j] THEN j ELSE LedgerUser[s]
        BY <1>1, <1>3, <2>1 DEF LedgerUser, GateBusy
    <2>3. LedgerUser' = [s \in Sources |-> LedgerUser'[s]]
        BY DEF LedgerUser
    <2> QED BY <2>2, <2>3 DEF LedgerUser
<1> QED BY <1>1, <1>2, <1>4, <1>5 DEF Ledger!Open, Begin

LEMMA FinalizeCompletes ==
    ASSUME QueueTypeOK, NEW w \in Workers, NEW j \in Jobs, NEW g \in 1..MaxGeneration,
           NEW base, Finalize(j, w, g, base)
    PROVE  Ledger!Complete(j)
<1> USE ConstantsAssumption
<1>1. j \in Ledger!Leased
    BY LiveIsLeased DEF Finalize
<1>2. LedgerPhase' = Ledger!Move({j}, "completed")
    BY UnlockMoves DEF Finalize, Status, Terminal
<1>3. CASE source_of[j] \in Sources
    <2>1. /\ gate' = [gate EXCEPT ![source_of[j]] = FreeGate]
          /\ revision' = [revision EXCEPT ![source_of[j]] = @ + 1]
          /\ OwnsGate(source_of[j], j, g) /\ gate[source_of[j]].left > 0
        BY <1>3 DEF Finalize, MayPersist
    <2>2. LedgerUser[source_of[j]] = j
        BY <1>3, <2>1 DEF LedgerUser, GateBusy, OwnsGate
    <2>3. LedgerUser' = Ledger!Freed({source_of[j]})
        BY <1>3, <2>1 DEF LedgerUser, Ledger!Freed, GateBusy, FreeGate, QueueTypeOK
    <2> QED BY <1>1, <1>2, <1>3, <2>1, <2>2, <2>3 DEF Ledger!Complete
<1>4. CASE source_of[j] \notin Sources
    BY <1>1, <1>2, <1>4, SameGatesSameUsers DEF Finalize, Ledger!Complete
<1> QED BY <1>3, <1>4

LEMMA FailGivesUp ==
    ASSUME QueueInv, NEW w \in Workers, NEW j \in Jobs, NEW g \in 1..MaxGeneration,
           NEW retryable \in BOOLEAN, Fail(j, w, g, retryable)
    PROVE  \E outcome \in {"waiting", "dead"} : Ledger!GiveUp(j, outcome)
<1> DEFINE freed == {s \in Sources : OwnsGate(s, j, g)}
<1>1. QueueTypeOK /\ \A s \in Sources : GateFollows(s)
    BY GateFollowsEach DEF QueueInv
<1>2. j \in Ledger!Leased
    BY LiveIsLeased DEF Fail
<1>3. PICK newStatus \in {"pending", "dead"} : Unlock(j, newStatus)
    BY DEF Fail
<1>4. \E outcome \in {"waiting", "dead"} : LedgerPhase' = Ledger!Move({j}, outcome)
    BY <1>1, <1>3, UnlockMoves DEF Status, Terminal
<1>5. freed \in SUBSET {s \in Sources : LedgerUser[s] = j}
    <2> SUFFICES ASSUME NEW s \in Sources, OwnsGate(s, j, g) PROVE LedgerUser[s] = j
        OBVIOUS
    <2>1. gate[s].left > 0
        BY <1>1, ConstantsAssumption
        DEF Fail, LeaseLive, OwnsGate, GateFollows, QueueTypeOK
    <2> QED BY <2>1, ConstantsAssumption DEF LedgerUser, GateBusy, OwnsGate
<1>6. LedgerUser' = Ledger!Freed(freed)
    BY DEF Fail, ReleasedGates, LedgerUser, Ledger!Freed, GateBusy, FreeGate
<1> QED BY <1>2, <1>4, <1>5, <1>6 DEF Ledger!GiveUp, Fail

LEMMA PauseGivesUp ==
    ASSUME QueueTypeOK, NEW w \in Workers, NEW j \in Jobs, NEW g \in 1..MaxGeneration,
           NEW r, Pause(j, w, g, r)
    PROVE  Ledger!GiveUp(j, "waiting") \/ UNCHANGED <<LedgerPhase, LedgerUser, revision>>
<1>1. status[j] = "running"
    BY DEF Pause, NamesLease
<1>2. LedgerPhase' = Ledger!Move({j}, "waiting")
    BY UnlockMoves DEF Pause, Status
<1>3. UNCHANGED <<LedgerUser, revision>> /\ LedgerUser' = Ledger!Freed({})
    BY SameGatesSameUsers DEF Pause, sourceVars, Ledger!Freed, LedgerUser
<1>4. CASE lease_left[j] > 0
    <2>1. j \in Ledger!Leased
        BY <1>1, <1>4 DEF Ledger!Leased, LedgerPhase
    <2> QED BY <2>1, <1>2, <1>3 DEF Ledger!GiveUp
<1>5. CASE ~(lease_left[j] > 0)
    <2>a. lease_left[j] = 0
        BY <1>5 DEF QueueTypeOK
    <2>1. LedgerPhase[j] = "waiting"
        BY <1>1, <2>a DEF LedgerPhase
    <2>2. LedgerPhase = [k \in Jobs |-> LedgerPhase[k]]
        BY DEF LedgerPhase
    <2>3. [k \in Jobs |-> IF k \in {j} THEN "waiting" ELSE LedgerPhase[k]]
              = [k \in Jobs |-> LedgerPhase[k]]
        BY <2>1
    <2>4. LedgerPhase' = LedgerPhase
        BY <1>2, <2>2, <2>3 DEF Ledger!Move
    <2> QED BY <1>3, <2>4
<1> QED BY <1>4, <1>5

LEMMA CancelWithdraws ==
    ASSUME QueueTypeOK, NEW j \in Jobs, Cancel(j)
    PROVE  Ledger!Withdraw(j)
<1>1. j \in Ledger!Waiting
    BY DEF Cancel, Ledger!Waiting, LedgerPhase
<1>2. LedgerPhase' = Ledger!Move({j}, "cancelled")
    BY UnlockMoves DEF Cancel, Status, Terminal
<1>3. LedgerUser' = LedgerUser /\ revision' = revision
    BY SameGatesSameUsers DEF Cancel, sourceVars
<1> QED BY <1>1, <1>2, <1>3 DEF Ledger!Withdraw

LEMMA TickLapses ==
    ASSUME QueueTypeOK, Tick
    PROVE  \E lapsed \in SUBSET Ledger!Leased, freed \in SUBSET Sources :
               Ledger!Lapse(lapsed, freed)
<1> DEFINE lapsed == {j \in Jobs : status[j] = "running" /\ lease_left[j] = 1}
           freed == {s \in Sources : gate[s].left = 1}
<1>1. lapsed \in SUBSET Ledger!Leased /\ freed \in SUBSET Sources
    BY DEF Ledger!Leased, LedgerPhase
<1>2. LedgerPhase' = Ledger!Move(lapsed, "waiting")
    <2>1. \A j \in Jobs :
              LedgerPhase'[j] = IF j \in lapsed THEN "waiting" ELSE LedgerPhase[j]
        BY DEF Tick, Elapse, LedgerPhase, QueueTypeOK
    <2>2. LedgerPhase' = [j \in Jobs |-> LedgerPhase'[j]]
        BY DEF LedgerPhase
    <2> QED BY <2>1, <2>2 DEF Ledger!Move
<1>3. LedgerUser' = Ledger!Freed(freed)
    <2>1. ASSUME NEW s \in Sources
          PROVE  LedgerUser'[s] = IF s \in freed THEN NoJob ELSE LedgerUser[s]
        <3>1. /\ gate[s] \in Gate
              /\ gate'[s] = [gate[s] EXCEPT !.left = Elapse(@)]
            BY DEF Tick, QueueTypeOK
        <3>2. /\ gate'[s].job = gate[s].job /\ gate[s].left \in Nat
              /\ gate'[s].left = Elapse(gate[s].left)
            BY <3>1 DEF Gate
        <3> QED BY <3>2 DEF LedgerUser, GateBusy, Elapse
    <2>2. LedgerUser' = [s \in Sources |-> LedgerUser'[s]]
        BY DEF LedgerUser
    <2> QED BY <2>1, <2>2 DEF Ledger!Freed
<1> QED BY <1>1, <1>2, <1>3 DEF Ledger!Lapse, Tick
-------------------------------------------------------------------------------
LEMMA InitImplements == QueueInit => Ledger!Init
BY DEF QueueInit, Ledger!Init, LedgerPhase, LedgerUser, GateBusy, FreeGate

LEMMA NextImplements ==
    QueueInv /\ [QueueNext]_queueVars => [Ledger!Next]_(Ledger!ledgerVars)
<1> SUFFICES ASSUME QueueInv, [QueueNext]_queueVars
             PROVE  Ledger!Next \/ UNCHANGED <<LedgerPhase, LedgerUser, revision>>
    BY DEF Ledger!ledgerVars
<1>a. QueueTypeOK /\ RowConstraints
    BY DEF QueueInv
<1>1. ASSUME NEW j \in Jobs, NEW d \in 0..MaxDelay, Enqueue(j, d) PROVE Ledger!Next
    BY <1>1, <1>a, EnqueueSubmits DEF Ledger!Next
<1>2. CASE Sweep
    BY <1>2, <1>a, SweepBuries, ExhaustedWaits DEF Ledger!Next
<1>3. ASSUME NEW w \in Workers, NEW j \in Jobs, Claim(w, j) PROVE Ledger!Next
    BY <1>3, <1>a, ClaimGrants, ExhaustedWaits DEF Ledger!Next
<1>4. ASSUME NEW w \in Workers, NEW j \in Jobs, NEW g \in 1..MaxGeneration,
             Heartbeat(j, w, g)
      PROVE  UNCHANGED <<LedgerPhase, LedgerUser, revision>>
    BY <1>4, HeartbeatHides
<1>5. ASSUME NEW w \in Workers, NEW j \in Jobs, NEW g \in 1..MaxGeneration,
             Begin(j, w, g)
      PROVE  Ledger!Next
    BY <1>5, <1>a, BeginOpens DEF Ledger!Next
<1>6. ASSUME NEW w \in Workers, NEW j \in Jobs, NEW g \in 1..MaxGeneration,
             NEW base \in 0..Cardinality(Jobs), Finalize(j, w, g, base)
      PROVE  Ledger!Next
    BY <1>6, <1>a, FinalizeCompletes DEF Ledger!Next
<1>7. ASSUME NEW w \in Workers, NEW j \in Jobs, NEW g \in 1..MaxGeneration,
             NEW retryable \in BOOLEAN, Fail(j, w, g, retryable)
      PROVE  Ledger!Next
    BY <1>7, FailGivesUp DEF Ledger!Next
<1>8. ASSUME NEW w \in Workers, NEW j \in Jobs, NEW g \in 1..MaxGeneration,
             NEW r \in 0..MaxDelay, Pause(j, w, g, r)
      PROVE  Ledger!Next \/ UNCHANGED <<LedgerPhase, LedgerUser, revision>>
    BY <1>8, <1>a, PauseGivesUp DEF Ledger!Next
<1>9. ASSUME NEW j \in Jobs, Cancel(j) PROVE Ledger!Next
    BY <1>9, <1>a, CancelWithdraws DEF Ledger!Next
<1>10. ASSUME NEW s \in Sources, Disable(s)
       PROVE  UNCHANGED <<LedgerPhase, LedgerUser, revision>>
    BY <1>10, SameRowsSamePhases, SameGatesSameUsers DEF Disable, jobVars
<1>11. CASE Tick
    BY <1>11, <1>a, TickLapses DEF Ledger!Next
<1>12. CASE UNCHANGED queueVars
    BY <1>12, SameRowsSamePhases, SameGatesSameUsers DEF queueVars
<1> QED
    BY <1>1, <1>2, <1>3, <1>4, <1>5, <1>6, <1>7, <1>8, <1>9, <1>10, <1>11, <1>12
    DEF QueueNext, Call

(* The queue implements the ledger: with any number of jobs, workers and   *)
(* sources, and whatever its callers do, a job is leased to one holder, a  *)
(* source is used by one job, and a result is recorded in the very step    *)
(* that settles a leased job that uses the source.                         *)
THEOREM QueueImplementsLedger == QueueSpec => KeepsLedger
<1>1. QueueInv /\ [QueueNext]_queueVars => [Ledger!Next]_(Ledger!ledgerVars)
    BY NextImplements
<1> QED BY <1>1, InitImplements, QueueInvariant, PTL DEF QueueSpec, KeepsLedger, Ledger!Spec
===============================================================================
