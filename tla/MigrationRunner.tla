---------------------------- MODULE MigrationRunner ----------------------------
(***************************************************************************)
(* Applying the missing migrations of a checkout to the hosted database      *)
(* (scripts/run_supabase_migrations.py, check_migration_safety.py, in the    *)
(* order of .github/workflows/migrate-database.yml): list the ledger, audit  *)
(* what is missing, apply it one transaction at a time through an API that   *)
(* may lose the answer and commit later, verify that nothing is missing.     *)
(*                                                                         *)
(* Neither script excludes another run of itself: runs may overlap, from     *)
(* checkouts of different revisions.  No run outlives MaxRequests requests.  *)
(***************************************************************************)
EXTENDS Naturals, FiniteSets, FiniteSetsExt

CONSTANTS
    Releases,       \* runs of the workflow
    Checkouts,      \* sets of versions a revision holds
    Preapplied,         \* versions recorded before the first run
    Deletes,        \* [version -> DELETE statements in its file]
    ReviewedDeletes,       \* [version -> reviewed deletes in the allowlist]
    Forbidden,      \* versions with a DROP or TRUNCATE
    MaxRequests     \* bound of the apply requests ever sent

Versions == UNION Checkouts

\* Versions are timestamps; what was applied first is part of some revision.
ASSUME MigrationAssumption ==
    /\ Versions \subseteq Nat /\ Preapplied \subseteq Versions
    /\ MaxRequests \in Nat

VARIABLES
    ledger,         \* versions in schema_migrations
    effects,        \* [version -> times its body was committed]
    requests,       \* apply requests the database still holds
    release,        \* [Releases -> where it is, its checkout and what is pending]
    sent            \* apply requests ever sent

migrationVars == <<ledger, effects, requests, release, sent>>

Waiting == [at |-> "rest", checkout |-> {}, pending |-> {}, request |-> 0]

MigrationInit ==
    /\ ledger = Preapplied
    /\ effects = [v \in Versions |-> IF v \in Preapplied THEN 1 ELSE 0]
    /\ requests = {} /\ sent = 0
    /\ release = [r \in Releases |-> Waiting]

Moves(r, where, pending) == release' = [release EXCEPT ![r].at = where, ![r].pending = pending]
RunStops(r) == release' = [release EXCEPT ![r] = Waiting]

(* A version the checkout lacks stops the run.                              *)
AllKnown(r) == ledger \subseteq release[r].checkout
Missing(r) == release[r].checkout \ ledger

List(r, c) ==
    /\ release[r] = Waiting
    /\ release' = [release EXCEPT ![r] = 
          [Waiting EXCEPT !.at = "audit", !.checkout = c, !.pending = c \ ledger]]
    /\ ledger \subseteq c
    /\ UNCHANGED <<ledger, effects, requests, sent>>

(* The audit reads the listed ledger, not the hosted one.  An allowlist      *)
(* entry without its statement refuses the checkout.                        *)
WithinAllowlist(v) == v \notin Forbidden /\ Deletes[v] <= ReviewedDeletes[v]
Audit(r) ==
    /\ release[r].at = "audit"
    /\ IF /\ \A v \in release[r].checkout : ReviewedDeletes[v] <= Deletes[v]
          /\ \A v \in release[r].pending : WithinAllowlist(v)
       THEN Moves(r, "read", {})
       ELSE RunStops(r)
    /\ UNCHANGED <<ledger, effects, requests, sent>>

(* The pending list is computed once.                                       *)
ReadLedger(r) ==
    /\ release[r].at = "read"
    /\ IF ~AllKnown(r) THEN RunStops(r)
       ELSE Moves(r, IF Missing(r) = {} THEN "verify" ELSE "send", Missing(r))
    /\ UNCHANGED <<ledger, effects, requests, sent>>

Send(r) ==
    /\ release[r].at = "send" /\ sent < MaxRequests
    /\ requests' = requests \cup
          {[id |-> sent + 1, version |-> Min(release[r].pending), checkout |-> release[r].checkout]}
    /\ sent' = sent + 1
    /\ release' = [release EXCEPT ![r].at = "await", ![r].request = sent + 1]
    /\ UNCHANGED <<ledger, effects>>

Answers(q, where) ==
    release' = [r \in Releases |->
        IF release[r].at = "await" /\ release[r].request = q.id
        THEN [release[r] EXCEPT !.at = where, !.request = 0]
        ELSE release[r]]

(* One transaction runs the body and inserts the ledger row; a version       *)
(* already there violates the primary key.                                  *)
RowFitsAlways(v) == TRUE
RowFits(v) == v \notin ledger

Commit(q) ==
    /\ q \in requests /\ RowFits(q.version)
    /\ ledger' = ledger \cup {q.version}
    /\ effects' = [effects EXCEPT ![q.version] = @ + 1]
    /\ requests' = requests \ {q}
    /\ Answers(q, "confirm")
    /\ UNCHANGED sent

RollBack(q) ==
    /\ q \in requests
    /\ requests' = requests \ {q}
    /\ Answers(q, "failed")
    /\ UNCHANGED <<ledger, effects, sent>>

(* The request fails or its answer is lost, or the run is cancelled: the     *)
(* database may still hold the request.                                     *)
GivesUp(r) == RunStops(r)

LoseAnswer(r) ==
    /\ release[r].at \in {"send", "await", "failed"}
    /\ GivesUp(r)
    /\ UNCHANGED <<ledger, effects, requests, sent>>

Confirm(r) ==
    /\ release[r].at = "confirm"
    /\ LET v == Min(release[r].pending)
           left == release[r].pending \ {v} IN
       IF v \notin ledger THEN RunStops(r)
       ELSE Moves(r, IF left = {} THEN "verify" ELSE "send", left)
    /\ UNCHANGED <<ledger, effects, requests, sent>>

(* The ledger is read once more: a version recorded meanwhile that the      *)
(* checkout lacks fails the run too.                                        *)
IsCurrent(r) == AllKnown(r) /\ Missing(r) = {}

Verify(r) ==
    /\ release[r].at = "verify"
    /\ IF IsCurrent(r) THEN Moves(r, "current", {}) ELSE RunStops(r)
    /\ UNCHANGED <<ledger, effects, requests, sent>>

Leaves(r) ==
    /\ release[r].at = "current"
    /\ RunStops(r)
    /\ UNCHANGED <<ledger, effects, requests, sent>>

MigrationNext ==
    \/ \E r \in Releases :
          \/ \E c \in Checkouts : List(r, c)
          \/ Audit(r) \/ ReadLedger(r) \/ Send(r) \/ LoseAnswer(r) \/ Confirm(r) \/ Verify(r) \/ Leaves(r)
    \/ \E q \in requests : Commit(q) \/ RollBack(q)

MigrationSpec == MigrationInit /\ [][MigrationNext]_migrationVars

----------------------------------------------------------------------------
(* A run has something to send exactly while it applies, and only versions   *)
(* of its checkout.                                                         *)
MigrationTypeOK ==
    /\ ledger \subseteq Versions /\ sent \in 0 .. MaxRequests
    /\ \A r \in Releases :
          /\ release[r].at \in {"rest", "audit", "read", "send", "await", "confirm", "failed", "verify", "current"}
          /\ release[r].pending \subseteq release[r].checkout
          /\ release[r].at \in {"send", "await", "confirm", "failed"} => release[r].pending # {}
    /\ \A q \in requests : q.version \in q.checkout

(* However many runs overlap, give up and start again while earlier         *)
(* requests still commit, a migration takes effect once, with its row.      *)
MigratedOnce == \A v \in Versions : effects[v] = IF v \in ledger THEN 1 ELSE 0

(* Everything applied was within the audited allowlist, although the audit   *)
(* judged a ledger listed before the one the runner read.                   *)
AppliedWasAllowed == 
    \A v \in ledger \ Preapplied : v \notin Forbidden /\ Deletes[v] <= ReviewedDeletes[v]

(* A run that reports a current ledger stays right as long as nothing newer  *)
(* is merged: nothing is rolled back and no version of it is missing.       *)
CurrentIsComplete == \A r \in Releases : release[r].at = "current" => release[r].checkout \subseteq ledger

(* The ledger is right in every state: each row once, allowed, none missing *)
(* where a run said so.                                                    *)
MigrationInv == MigrationTypeOK /\ MigratedOnce /\ AppliedWasAllowed /\ CurrentIsComplete
================================================================================
