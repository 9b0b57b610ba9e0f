------------------------------ MODULE NostrRelay ------------------------------
(***************************************************************************)
(* The Nostr relay pipeline: begin_nostr_relay_job hands a worker a time   *)
(* slice of one relay, the worker reads the slice from the relay, and      *)
(* finalize_nostr_relay_job stores what it found and moves the checkpoint. *)
(*                                                                         *)
(* Instants are whole seconds, as in the NIP-01 filters.  The relay is     *)
(* external: it keeps what was published to it, in any order and at any    *)
(* time, and answers a filter with the newest events it allows.  Jobs are  *)
(* abstracted to the fenced lease of the relay's current job (JobQueue has *)
(* the queue itself), and rows do not expire (30 days against an overlap   *)
(* of 5 minutes).                                                          *)
(***************************************************************************)
EXTENDS Integers, FiniteSets

CONSTANTS
    Relays,         \* relay keys
    NostrWorkers,   \* worker processes
    Posts,          \* kind 1 events
    Deletions,      \* kind 5 events
    author,         \* pubkey of an event
    at,             \* created_at of an event
    sound,          \* events whose fields, id, signature and tags are in order
    named,          \* the posts a deletion names
    Overlap,        \* replay_overlap_seconds
    Limit,          \* max_events: of each filter, and of the whole answer
    KnownLimit,     \* most candidate ids one begin returns
    MaxTargets,     \* max_delete_targets
    NostrLease,     \* lease of a claim or a heartbeat
    NostrBeginLease,\* least time a granted begin leaves on the lease
    NostrStart,     \* bound: first instant
    NostrEnd,       \* bound: last instant
    MaxClaims,      \* bound: claims of each relay
    MaxLate         \* bound: time from the created_at of an event to its arrival

Events == Posts \cup Deletions

ASSUME NostrAssumption ==
    /\ IsFiniteSet(Events) /\ Posts \cap Deletions = {}
    /\ at \in [Events -> Nat \ {0}]
    /\ sound \subseteq Events
    /\ named \in [Deletions -> SUBSET Posts]
    /\ {Overlap, Limit, KnownLimit, MaxTargets} \subseteq Nat \ {0}
    /\ {NostrLease, NostrBeginLease, NostrStart, NostrEnd, MaxLate} \subseteq Nat \ {0}
    /\ MaxClaims \in [Relays -> Nat]

VARIABLES
    clock,      \* the database clock, in seconds
    arrived,    \* when a relay got an event, 0 before that (external)
    checkpoint, \* nostr_relay_checkpoints.last_checkpoint, 0 for null
    claims,     \* leases issued for the relay's jobs: the generation
    lease,      \* [gen, until] of the relay's leased job; gen 0 without one
    stream,     \* source_request_gates: [gen, acquired, until]; gen 0 when free
    attempted,  \* source_policies.last_attempt_at, 0 for null
    kept,       \* nostr_relay_observations: <<event, targets>> per relay
    candidate,  \* nostr_relay_candidates: [first, last, deleted], first 0 without a row
    work,       \* what a worker process is at
    origin      \* history: the start of the first slice stored, 0 before

nostrVars == <<clock, arrived, checkpoint, claims, lease, stream, attempted,
               kept, candidate, work, origin>>
nostrRows == <<checkpoint, kept, candidate, origin>>

Idle == [stage |-> "idle"]
NoLease == [gen |-> 0, until |-> 0]
NoStream == [gen |-> 0, acquired |-> 0, until |-> 0]
NoCandidate == [first |-> 0, last |-> 0, deleted |-> FALSE]

Slice ==
    [stage : {"begun"}, relay : Relays, gen : Nat, since : Nat, until : Nat,
     base : Nat, known : SUBSET Posts]
\* What may be written of deletions: each with targets of its own.
Writes == SUBSET (Deletions \X SUBSET Posts)
Result ==
    [stage : {"collected"}, relay : Relays, gen : Nat, since : Nat, until : Nat,
     base : Nat, seen : Nat, posts : SUBSET Posts,
     deletions : Writes]

NostrTypeOK ==
    /\ clock \in Nat
    /\ arrived \in [Relays -> [Events -> Nat]]
    /\ checkpoint \in [Relays -> Nat]
    /\ claims \in [Relays -> Nat]
    /\ lease \in [Relays -> [gen : Nat, until : Nat]]
    /\ stream \in [Relays -> [gen : Nat, acquired : Nat, until : Nat]]
    /\ attempted \in [Relays -> Nat]
    /\ origin \in [Relays -> Nat]
    /\ \A r \in Relays : kept[r] \subseteq Events \X SUBSET Posts
    /\ candidate \in [Posts -> [first : Nat, last : Nat, deleted : BOOLEAN]]
    /\ \A w \in NostrWorkers :
          \/ work[w] = Idle
          \/ work[w] \in [stage : {"leased"}, relay : Relays, gen : Nat]
          \/ work[w] \in Slice
          \/ work[w] \in Result

NostrInit ==
    /\ clock = NostrStart
    /\ arrived = [r \in Relays |-> [e \in Events |-> 0]]
    /\ checkpoint = [r \in Relays |-> 0]
    /\ claims = [r \in Relays |-> 0]
    /\ lease = [r \in Relays |-> NoLease]
    /\ stream = [r \in Relays |-> NoStream]
    /\ attempted = [r \in Relays |-> 0]
    /\ kept = [r \in Relays |-> {}]
    /\ candidate = [p \in Posts |-> NoCandidate]
    /\ origin = [r \in Relays |-> 0]
    /\ work = [w \in NostrWorkers |-> Idle]
-------------------------------------------------------------------------------
(* Bodies with one plausible mistake each; no action uses them.            *)

SinceNoOverlap(base, until) == IF base > 0 THEN base ELSE until - Overlap

UpsertedRevives(c) ==
    [first |-> IF c.first = 0 THEN clock ELSE c.first, last |-> clock, deleted |-> FALSE]

-------------------------------------------------------------------------------
LeastOf(a, b) == IF a < b THEN a ELSE b
MostOf(a, b) == IF a > b THEN a ELSE b

Live == {p \in Posts : candidate[p].first > 0 /\ ~candidate[p].deleted}

\* The n newest members of S; which of two equally new ones is left open.
NewestOf(S, n, age(_)) ==
    {T \in SUBSET S :
        /\ Cardinality(T) = LeastOf(n, Cardinality(S))
        /\ \A x \in T, y \in S \ T : age(x) >= age(y)}

\* The lease fence that begin, heartbeat, fail and finalize start with.
Fenced(w) ==
    LET r == work[w].relay
    IN  lease[r].gen = work[w].gen /\ lease[r].until > clock

\* The slice that follows a checkpoint; without one, the last Overlap seconds.
SinceOf(base, until) ==
    MostOf((IF base > 0 THEN base ELSE until) - Overlap, 1)

\* Why a begin is put off: the second is over already, another stream of the
\* relay is open, or the last request was less than a second ago.
Deferred(r) ==
    \/ checkpoint[r] > 0 /\ clock <= checkpoint[r]
    \/ stream[r].gen > 0 /\ stream[r].until > clock
    \/ attempted[r] > 0 /\ clock < attempted[r] + 1

\* The candidates whose deletion a begin asks about, whichever relay had them.
KnownSets ==
    LET last(p) == candidate[p].last IN NewestOf(Live, KnownLimit, last)

\* parse_nostr_event: what the worker takes for an event of its time.
Parsed(e, until) == e \in sound /\ at[e] <= until + 86400

\* What the relay answers to the two filters of the REQ: each is cut off at
\* Limit by the relay, which does not say so.
Answers(r, since, until, known) ==
    LET Here(S) == {e \in S : arrived[r][e] > 0 /\ since <= at[e] /\ at[e] <= until}
        age(e) == at[e]
    IN  {P \cup D : P \in NewestOf(Here(Posts), Limit, age),
                    D \in NewestOf({d \in Here(Deletions) : named[d] \cap known # {}},
                                   Limit, age)}

\* The cap the worker puts on the messages of one answer.
WithinCap(answer) == Cardinality(answer) <= Limit

\* collect: what of an answer becomes a candidate or a deletion.  A deletion
\* keeps only the targets that were known when the slice began.
CollectedPosts(answer, until) == {e \in answer \cap Posts : Parsed(e, until)}
CollectedDeletions(answer, until, known) ==
    {<<d, named[d] \cap known>> : d \in {e \in answer \cap Deletions : Parsed(e, until)}}

\* NostrRelayCompletion.__post_init__: bounds, one relay, one row per event.
ValidCompletion(c) ==
    /\ c.since < c.until
    /\ c.seen <= Limit
    /\ \A d \in c.deletions : d[2] # {} /\ Cardinality(d[2]) <= MaxTargets
    /\ \A d, e \in c.deletions : d[1] = e[1] => d = e
    /\ Cardinality(c.posts) + Cardinality(c.deletions) <= c.seen

\* An event the relay sent before must be stored with the fields it has now.
ReplayConflict(w) ==
    \E d \in work[w].deletions, k \in kept[work[w].relay] : k[1] = d[1] /\ k # d

\* A deletion takes effect on a stored post of its author that is not newer.
Erases(d, p) ==
    candidate[p].first > 0 /\ author[p] = author[d] /\ at[d] >= at[p]

Upserted(c) ==
    [c EXCEPT !.first = IF @ = 0 THEN clock ELSE @, !.last = clock]

\* The candidates after the posts, then the deletions of a result are stored.
Stored(posts, deletions) ==
    LET afterPosts == [p \in Posts |-> IF p \in posts THEN Upserted(candidate[p])
                                       ELSE candidate[p]]
        hit(p) == \E d \in deletions :
                     /\ p \in d[2]
                     /\ Erases(d[1], p) \/ (p \in posts /\ author[p] = author[d[1]]
                                            /\ at[d[1]] >= at[p])
    IN  [p \in Posts |-> IF hit(p) THEN [afterPosts[p] EXCEPT !.deleted = TRUE, !.last = clock]
                         ELSE afterPosts[p]]
-------------------------------------------------------------------------------
\* claim_nostr_relay_jobs: any worker, once no lease of the relay's job lives.
NostrClaim(w, r) ==
    /\ work[w] = Idle
    /\ lease[r].gen = 0 \/ lease[r].until <= clock
    /\ claims[r] < MaxClaims[r]
    /\ claims' = [claims EXCEPT ![r] = @ + 1]
    /\ lease' = [lease EXCEPT ![r] = [gen |-> claims'[r], until |-> clock + NostrLease]]
    /\ work' = [work EXCEPT ![w] = [stage |-> "leased", relay |-> r, gen |-> claims'[r]]]
    /\ UNCHANGED <<clock, arrived, nostrRows, stream, attempted>>

\* The job is handed back (failed, paused) by a worker that holds its lease; a
\* failure frees the gate of this lease and restarts the pacing clock.
HandBack(w, failed) ==
    LET r == work[w].relay
        owns == failed /\ stream[r].gen = work[w].gen
    IN  /\ work[w].stage # "idle"
        /\ Fenced(w)
        /\ lease' = [lease EXCEPT ![r] = NoLease]
        /\ stream' = [stream EXCEPT ![r] = IF owns THEN NoStream ELSE @]
        /\ attempted' = [attempted EXCEPT ![r] = IF owns THEN clock ELSE @]
        /\ work' = [work EXCEPT ![w] = Idle]
        /\ UNCHANGED <<clock, arrived, nostrRows, claims>>

\* PostgresNostrRelayGate.begin that is granted: the slice ends now, the lease
\* is stretched over the request, and the gate is the slice's fence.
NostrBegin(w) ==
    LET r == work[w].relay
        deadline == MostOf(lease[r].until, clock + NostrBeginLease)
    IN  /\ work[w].stage = "leased"
        /\ Fenced(w)
        /\ ~Deferred(r)
        /\ lease' = [lease EXCEPT ![r].until = deadline]
        /\ stream' = [stream EXCEPT ![r] = [gen |-> work[w].gen, acquired |-> clock,
                                            until |-> deadline]]
        /\ attempted' = [attempted EXCEPT ![r] = clock]
        /\ \E known \in KnownSets :
              work' = [work EXCEPT ![w] =
                          [stage |-> "begun", relay |-> r, gen |-> work[w].gen,
                           since |-> SinceOf(checkpoint[r], clock), until |-> clock,
                           base |-> checkpoint[r], known |-> known]]
        /\ UNCHANGED <<clock, arrived, nostrRows, claims>>

\* A begin that is not granted pauses the job.
NostrDefer(w) ==
    /\ work[w].stage = "leased"
    /\ Deferred(work[w].relay)
    /\ HandBack(w, FALSE)

\* discover: read the slice until EOSE and build the completion.  An answer
\* over the cap, or a completion that is not valid, is an error instead.
NostrCollect(w) ==
    LET b == work[w]
    IN  /\ b.stage = "begun"
        /\ \E answer \in Answers(b.relay, b.since, b.until, b.known) :
              LET c == [stage |-> "collected", relay |-> b.relay, gen |-> b.gen,
                        since |-> b.since, until |-> b.until, base |-> b.base,
                        seen |-> Cardinality(answer),
                        posts |-> CollectedPosts(answer, b.until),
                        deletions |-> CollectedDeletions(answer, b.until, b.known)]
              IN  /\ WithinCap(answer) /\ ValidCompletion(c)
                  /\ work' = [work EXCEPT ![w] = c]
        /\ UNCHANGED <<clock, arrived, nostrRows, claims, lease, stream, attempted>>

\* finalize_nostr_relay_job behind its fence: the gate and the slice must be
\* those of the begin, and the checkpoint still the one it started from.
MayFinalize(w) ==
    LET c == work[w]
        r == c.relay
    IN  /\ Fenced(w)
        /\ stream[r].gen = c.gen /\ stream[r].until > clock
        /\ c.until = stream[r].acquired
        /\ c.until > checkpoint[r]
        /\ c.base = checkpoint[r]
        /\ c.since = SinceOf(checkpoint[r], c.until)

\* complete_nostr_relay_job.
NostrFinalize(w) ==
    LET c == work[w]
        r == c.relay
    IN  /\ c.stage = "collected"
        /\ MayFinalize(w)
        /\ ~ReplayConflict(w)
        /\ kept' = [kept EXCEPT ![r] = @ \cup (c.posts \X {{}}) \cup c.deletions]
        /\ candidate' = Stored(c.posts, c.deletions)
        /\ checkpoint' = [checkpoint EXCEPT ![r] = c.until]
        /\ origin' = [origin EXCEPT ![r] = IF @ = 0 THEN c.since ELSE @]
        /\ attempted' = [attempted EXCEPT ![r] = clock]
        /\ lease' = [lease EXCEPT ![r] = NoLease]
        /\ stream' = [stream EXCEPT ![r] = NoStream]
        /\ work' = [work EXCEPT ![w] = Idle]
        /\ UNCHANGED <<clock, arrived, claims>>

\* heartbeat_nostr_relay_job: the lease and its gate are renewed.
NostrHeartbeat(w) ==
    LET r == work[w].relay
    IN  /\ work[w].stage # "idle"
        /\ Fenced(w)
        /\ lease' = [lease EXCEPT ![r].until = clock + NostrLease]
        /\ stream' = [stream EXCEPT ![r].until = IF stream[r].gen = work[w].gen
                                                 THEN clock + NostrLease ELSE @]
        /\ UNCHANGED <<clock, arrived, nostrRows, claims, attempted, work>>

\* The worker dies, or learns that the lease is no longer its own: nothing
\* else changes, and the lease runs out.
NostrCrash(w) ==
    /\ work[w].stage # "idle"
    /\ work' = [work EXCEPT ![w] = Idle]
    /\ UNCHANGED <<clock, arrived, nostrRows, claims, lease, stream, attempted>>

\* The relay gets an event, new or late.
Arrive(r, e) ==
    /\ arrived[r][e] = 0
    /\ clock <= at[e] + MaxLate
    /\ arrived' = [arrived EXCEPT ![r][e] = clock]
    /\ UNCHANGED <<clock, nostrRows, claims, lease, stream, attempted, work>>

NostrTick ==
    /\ clock < NostrEnd
    /\ clock' = clock + 1
    /\ UNCHANGED <<arrived, nostrRows, claims, lease, stream, attempted, work>>

NostrNext ==
    \/ \E w \in NostrWorkers, r \in Relays : NostrClaim(w, r)
    \/ \E w \in NostrWorkers :
          \/ NostrBegin(w)
          \/ NostrDefer(w)
          \/ NostrCollect(w)
          \/ NostrFinalize(w)
          \/ NostrHeartbeat(w)
          \/ HandBack(w, TRUE)
          \/ NostrCrash(w)
    \/ \E r \in Relays, e \in Events : Arrive(r, e)
    \/ NostrTick

NostrSpec == NostrInit /\ [][NostrNext]_nostrVars
-------------------------------------------------------------------------------
\* Relay r never had more than one answer may hold: no filter was cut off.
NeverCut(r) == Cardinality({e \in Events : arrived[r][e] > 0}) <= Limit

\* Event e, not older than the first slice of relay r, reached the relay at
\* most Overlap seconds after its created_at, and
\* the checkpoint of the relay has passed both instants (the slice that ends in
\* the second of the arrival may just miss it, the next one does not).
Overtaken(r, e) ==
    /\ arrived[r][e] > 0
    /\ arrived[r][e] <= at[e] + Overlap
    /\ origin[r] <= at[e]
    /\ arrived[r][e] < checkpoint[r] /\ at[e] <= checkpoint[r]

(* No post is lost to the checkpoint: one that reached a relay no later    *)
(* than the overlap, and is not older than the first slice, is stored once *)
(* the checkpoint has passed, whatever became of the attempts, their       *)
(* leases and their streams in between.                                    *)
TimelyPostsStored ==
    \A r \in Relays, p \in Posts :
        Overtaken(r, p) /\ p \in sound /\ NeverCut(r)
            => candidate[p].first > 0

(* Nor is a deletion: once the checkpoint has passed it, every post it     *)
(* may delete and that was stored, from whichever relay, before the        *)
(* deletion reached this one is deleted.                                   *)
TimelyDeletionsApplied ==
    \A r \in Relays, d \in Deletions : \A p \in named[d] :
        /\ Overtaken(r, d) /\ d \in sound /\ NeverCut(r)
        /\ Erases(d, p) /\ candidate[p].first < arrived[r][d]
        /\ Cardinality(Posts) <= KnownLimit
        => candidate[p].deleted

(* What was deleted stays deleted, also when another relay, or the replay  *)
(* of the overlap, delivers the post again.                                *)
DeletedStays ==
    [][\A p \in Posts : candidate[p].deleted => candidate'[p].deleted]_nostrVars

(* The pipeline loses nothing it was given in time.                        *)
NostrInv == NostrTypeOK /\ TimelyPostsStored /\ TimelyDeletionsApplied
===============================================================================
