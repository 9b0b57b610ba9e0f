--------------------------- MODULE AuthorizedOpening ---------------------------
(***************************************************************************)
(* The private review of authorized openings: an operator submits an       *)
(* envelope, reviewers decide it under a revision fence, an accepted        *)
(* opening becomes an immutable observation, and a retraction takes it out  *)
(* of every aggregate (authorized_opening_operator.py and                   *)
(* ingest.{submit,review,retract}_authorized_opening_v1).  Each command is   *)
(* one connection: it attests its role, makes one call, and may lose the    *)
(* reply of a call that committed; the operator then runs it again.  Any     *)
(* submission and any acceptance may be refused: its source may be disabled. *)
(*                                                                         *)
(* A review reads its clock before it waits for the row lock, so its time   *)
(* is anywhere between the listing it answers and its commit.               *)
(***************************************************************************)
EXTENDS Integers, Sequences

CONSTANTS
    Envelopes,      \* records [key, evidence, source, packs, hits, eligible, platform, file, json]
    OpeningKeys,    \* submission keys
    Logins,         \* database logins of the operators' environments
    HeldBy,         \* [Logins -> SUBSET {"submitter", "reviewer"}]: memberships
    Asked,          \* the states reviewers ask for
    Reasons,        \* retraction reasons
    ExpireAfter,    \* the 30 days a submission may wait
    OpeningEnd      \* bound of the clock

ASSUME OpeningAssumption ==
    /\ {ExpireAfter, OpeningEnd} \subseteq Nat
    /\ \A e \in Envelopes : e.key \in OpeningKeys

VARIABLES
    openingClock, submissions, history, observations, retractions,
    calls,          \* [Logins -> the review command under way]
    acknowledged    \* envelopes whose submission was confirmed to an operator

openingVars == <<openingClock, submissions, history, observations, retractions, calls, acknowledged>>

OpenStates == {"queued", "in_review"}
Verdicts == {"accepted_statistics", "accepted_activity_only", "duplicate", "rejected", "expired"}

NoSubmission == [state |-> "none", revision |-> 0]
NoCall == [revision |-> 0]
NotRetracted == "none"

OpeningInit ==
    /\ openingClock = 0
    /\ submissions = [k \in OpeningKeys |-> NoSubmission]
    /\ history = [k \in OpeningKeys |-> << >>]
    /\ observations = {}
    /\ retractions = [k \in OpeningKeys |-> NotRetracted]
    /\ calls = [l \in Logins |-> NoCall]
    /\ acknowledged = {}

(* The URL pins the role of the command, which its login can take on.       *)
Pinned(l, role) == role \in HeldBy[l]

(* Every field of the one attestation row is true: this login holds the     *)
(* capability of the command and no other.                                 *)
Attested(l, role) == Pinned(l, role) /\ HeldBy[l] \subseteq {role}

(* Only a mode-0600 regular file of the operator's own is read, and only    *)
(* bounded JSON without repeated keys is an envelope.                      *)
Readable(e) == e.file = "private"
Loaded(e) == Readable(e) /\ e.json = "exact"

(* The envelope contract: coherent counts, and never a social discovery.   *)
Canonical(e) == e.hits <= e.packs /\ e.platform = "direct"

(* What identifies an opening whoever submits it.                          *)
Fact(e) == <<e.source, e.packs, e.hits>>

----------------------------------------------------------------------------
(* Submitting carries nothing that can go stale, so a command is one step;  *)
(* an operator who lost its reply runs it again, as anybody else may.      *)
Event(k, from, to, at, l) ==
    history' = [history EXCEPT ![k] = Append(@, [from |-> from, to |-> to, at |-> at, by |-> l])]

Taken(e) ==
    \E k \in OpeningKeys : submissions[k] # NoSubmission /\ submissions[k].envelope.evidence = e.evidence

(* A retry is one of the very payload that is stored under the key.        *)
SamePayload(e) == submissions[e.key] # NoSubmission /\ submissions[e.key].envelope = e

Submit(l, e) ==
    /\ Attested(l, "submitter") /\ Loaded(e) /\ Canonical(e)
    /\ \/ /\ submissions[e.key] = NoSubmission /\ ~Taken(e)
          /\ submissions' = [submissions EXCEPT ![e.key] =
                [state |-> "queued", revision |-> 1, envelope |-> e,
                 expires |-> openingClock + ExpireAfter]]
          /\ Event(e.key, "none", "queued", openingClock, l)
       \/ SamePayload(e) /\ UNCHANGED <<submissions, history>>
    /\ \/ acknowledged' = acknowledged \cup {e}
       \/ UNCHANGED acknowledged
    /\ UNCHANGED <<openingClock, observations, retractions, calls>>

(* The operator answers one listed row; a decision on a row listed as       *)
(* closed is refused without effect and is left out.                       *)
BeginReview(l, k, target) ==
    /\ calls[l] = NoCall /\ Attested(l, "reviewer") /\ submissions[k].state \in OpenStates
    /\ calls' = [calls EXCEPT ![l] =
          [key |-> k, revision |-> submissions[k].revision, target |-> target, since |-> openingClock]]
    /\ UNCHANGED <<openingClock, submissions, history, observations, retractions, acknowledged>>

(* A committed call whose reply is lost is run again, or abandoned.        *)
Replied(l) == calls' = [calls EXCEPT ![l] = NoCall]
Answered(l) == Replied(l) \/ UNCHANGED calls

(* The opening is already an observation, retracted or not.                *)
Recorded(e) ==
    \E k \in observations : Fact(submissions[k].envelope) = Fact(e)

Allowed(from, to) ==
    \/ from = "queued" /\ to \in {"in_review", "expired"}
    \/ from = "in_review" /\ to \in Verdicts

(* The row is still the one the reviewer was shown.                        *)
FenceByState(k, call) == submissions[k].state \in OpenStates
Fence(k, call) == submissions[k].revision = call.revision

(* Past its deadline a waiting submission can only expire.                 *)
Forced(k, target, at) ==
    IF submissions[k].state \in OpenStates /\ submissions[k].expires <= at THEN "expired" ELSE target

Decided(k, to, at, l) ==
    /\ submissions' = [submissions EXCEPT ![k].state = to, ![k].revision = @ + 1]
    /\ Event(k, submissions[k].state, to, at, l)

Review(l) ==
    /\ calls[l] # NoCall
    /\ \E at \in calls[l].since .. openingClock :
       LET call == calls[l]  k == call.key
           to == Forced(k, call.target, at)
           e == submissions[k].envelope
           fits == Fence(k, call) /\ Allowed(submissions[k].state, to)
           statistics == to = "accepted_statistics"
       IN
       \/ /\ fits /\ ~statistics /\ Decided(k, to, at, l)
          /\ Answered(l) /\ UNCHANGED observations
       \/ /\ fits /\ statistics /\ e.eligible /\ ~Recorded(e)
          /\ Decided(k, to, at, l) /\ observations' = observations \cup {k}
          /\ Answered(l)
       \/ /\ fits /\ statistics /\ e.eligible /\ Recorded(e)
          /\ Decided(k, "duplicate", at, l)
          /\ Answered(l) /\ UNCHANGED observations
       \/ /\ ~fits \/ statistics
          /\ Replied(l) /\ UNCHANGED <<submissions, history, observations>>
    /\ UNCHANGED <<openingClock, retractions, acknowledged>>

(* One retraction per observation: a repeat returns it, another reason is  *)
(* refused.                                                                *)
Retract(l, k, reason) ==
    /\ Attested(l, "reviewer") /\ k \in observations
    /\ retractions' = [retractions EXCEPT ![k] = IF @ = NotRetracted THEN reason ELSE @]
    /\ UNCHANGED <<openingClock, submissions, history, observations, calls, acknowledged>>

Abandon(l) ==
    /\ calls[l] # NoCall
    /\ calls' = [calls EXCEPT ![l] = NoCall]
    /\ UNCHANGED <<openingClock, submissions, history, observations, retractions, acknowledged>>

OpeningTick ==
    /\ openingClock < OpeningEnd
    /\ openingClock' = openingClock + 1
    /\ UNCHANGED <<submissions, history, observations, retractions, calls, acknowledged>>

OpeningNext ==
    \/ OpeningTick
    \/ \E l \in Logins :
       \/ \E e \in Envelopes : Submit(l, e)
       \/ \E k \in OpeningKeys, t \in Asked : BeginReview(l, k, t)
       \/ Review(l)
       \/ \E k \in OpeningKeys, r \in Reasons : Retract(l, k, r)
       \/ Abandon(l)

OpeningSpec == OpeningInit /\ [][OpeningNext]_openingVars

----------------------------------------------------------------------------
(* Types: a stored submission has a state, a revision and an envelope that  *)
(* the reader and the contract admit; a review under way is of the past.   *)
OpeningTypeOK ==
    /\ openingClock \in 0 .. OpeningEnd
    /\ \A k \in OpeningKeys : submissions[k] = NoSubmission \/
          /\ submissions[k].state \in OpenStates \cup Verdicts
          /\ submissions[k].revision \in 1 .. 3
          /\ submissions[k].envelope \in {e \in Envelopes : e.hits <= e.packs /\ e.key = k}
    /\ observations \subseteq OpeningKeys /\ acknowledged \subseteq Envelopes
    /\ retractions \in [OpeningKeys -> Reasons \cup {NotRetracted}]
    /\ \A l \in Logins : calls[l] = NoCall \/ calls[l].since \in 0 .. openingClock

(* However many reviewers decide at once, retry and lose replies, an        *)
(* opening is counted at most once: no two observations are of one fact or  *)
(* of one piece of evidence, and observations are exactly the submissions   *)
(* whose final state says they were accepted for statistics.               *)
OpeningCountsOnce ==
    /\ \A j, k \in observations : j # k =>
          /\ Fact(submissions[j].envelope) # Fact(submissions[k].envelope)
          /\ submissions[j].envelope.evidence # submissions[k].envelope.evidence
    /\ observations = {k \in OpeningKeys : submissions[k].state = "accepted_statistics"}

(* The audit trail explains the row: one event per revision, each starting  *)
(* from where the last one ended, in the order of their recorded times      *)
(* although a review takes its time before it waits for the row; the last   *)
(* one ends in the row's state.                                            *)
HistoryExplains ==
    \A k \in OpeningKeys : LET h == history[k] IN
        /\ Len(h) = submissions[k].revision
        /\ h # << >> => h[1].from = "none" /\ h[Len(h)].to = submissions[k].state
        /\ \A i \in 1 .. Len(h) - 1 : h[i].to = h[i + 1].from /\ h[i].at <= h[i + 1].at

(* Whatever is decided after the deadline, by the decision's own time, is   *)
(* an expiry.                                                              *)
LateMeansExpired ==
    \A k \in OpeningKeys : \A i \in 2 .. Len(history[k]) :
        history[k][i].at >= submissions[k].expires => history[k][i].to = "expired"

(* A retraction stands for good: an opening whose observation was retracted *)
(* is not counted under another submission either.                         *)
RetractionStands ==
    \A j, k \in observations :
        (retractions[j] # NotRetracted /\ Fact(submissions[j].envelope) = Fact(submissions[k].envelope))
            => retractions[k] # NotRetracted

(* A confirmed submission is the one that is stored: of two payloads sent   *)
(* under one key, retried or not, only one operator is ever told yes.      *)
AcknowledgedIsStored ==
    \A e \in acknowledged : submissions[e.key] # NoSubmission /\ submissions[e.key].envelope = e

(* Who submits never decides: no login appears both as a submitter and as a *)
(* reviewer in the audit trails, although one was granted both roles.      *)
SeparateHands ==
    \A j, k \in OpeningKeys : \A i \in 2 .. Len(history[k]) :
        history[j] # << >> => history[j][1].by # history[k][i].by

(* The review is sound in every state: it counts an opening once, for as    *)
(* long as that is not retracted, decides in time and by other hands, and  *)
(* can show for each row how it came about.                                *)
OpeningInv ==
    /\ OpeningTypeOK /\ OpeningCountsOnce /\ RetractionStands
    /\ HistoryExplains /\ LateMeansExpired
    /\ AcknowledgedIsStored /\ SeparateHands
===============================================================================
