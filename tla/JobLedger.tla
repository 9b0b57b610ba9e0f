------------------------------- MODULE JobLedger -------------------------------
(***************************************************************************)
(* What the job queue promises to whoever relies on it, without workers,   *)
(* generations, clocks or retries: a job is waiting, leased or settled for *)
(* good, at most one job uses a source at a time, and a result is recorded *)
(* only for a leased job that uses its source, in the step that settles it.*)
(***************************************************************************)
EXTENDS Naturals

CONSTANTS Jobs, Sources, NoJob, source_of

VARIABLES
    phase,     \* "absent", "waiting", "leased", or how the job was settled
    user,      \* the job that may have a request to the source open, or NoJob
    results    \* results recorded per source

ledgerVars == <<phase, user, results>>

Waiting == {j \in Jobs : phase[j] = "waiting"}
Leased == {j \in Jobs : phase[j] = "leased"}

Init ==
    /\ phase = [j \in Jobs |-> "absent"]
    /\ user = [s \in Sources |-> NoJob]
    /\ results = [s \in Sources |-> 0]

\* Every job of moved enters phase p.
Move(moved, p) == [j \in Jobs |-> IF j \in moved THEN p ELSE phase[j]]

\* Sources of freed are no longer used.
Freed(freed) == [s \in Sources |-> IF s \in freed THEN NoJob ELSE user[s]]

Submit(j) ==
    /\ phase[j] = "absent"
    /\ phase' = Move({j}, "waiting")
    /\ UNCHANGED <<user, results>>

\* Jobs that used up their attempts are buried, with or without a new lease.
Bury(buried) ==
    /\ phase' = Move(buried, "dead")
    /\ UNCHANGED <<user, results>>

Grant(j, buried) ==
    /\ j \in Waiting \ buried
    /\ phase' = [Move(buried, "dead") EXCEPT ![j] = "leased"]
    /\ UNCHANGED <<user, results>>

Open(j) ==
    /\ j \in Leased
    /\ source_of[j] \in Sources
    /\ user[source_of[j]] = NoJob
    /\ user' = [user EXCEPT ![source_of[j]] = j]
    /\ UNCHANGED <<phase, results>>

Complete(j) ==
    /\ j \in Leased
    /\ phase' = Move({j}, "completed")
    /\ IF source_of[j] \in Sources
       THEN /\ user[source_of[j]] = j
            /\ user' = Freed({source_of[j]})
            /\ results' = [results EXCEPT ![source_of[j]] = @ + 1]
       ELSE UNCHANGED <<user, results>>

\* The holder gives the job up, and with it the sources it uses or none.
GiveUp(j, outcome) ==
    /\ j \in Leased
    /\ phase' = Move({j}, outcome)
    /\ \E freed \in SUBSET {s \in Sources : user[s] = j} : user' = Freed(freed)
    /\ UNCHANGED results

Withdraw(j) ==
    /\ j \in Waiting
    /\ phase' = Move({j}, "cancelled")
    /\ UNCHANGED <<user, results>>

\* Leases and uses run out together or apart.
Lapse(lapsed, freed) ==
    /\ phase' = Move(lapsed, "waiting")
    /\ user' = Freed(freed)
    /\ UNCHANGED results

Next ==
    \/ \E j \in Jobs :
          \/ Submit(j)
          \/ \E buried \in SUBSET Waiting : Grant(j, buried)
          \/ Open(j)
          \/ Complete(j)
          \/ \E outcome \in {"waiting", "dead"} : GiveUp(j, outcome)
          \/ Withdraw(j)
    \/ \E buried \in SUBSET Waiting : Bury(buried)
    \/ \E lapsed \in SUBSET Leased, freed \in SUBSET Sources : Lapse(lapsed, freed)

Spec == Init /\ [][Next]_ledgerVars
===============================================================================
