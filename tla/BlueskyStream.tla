----------------------------- MODULE BlueskyStream -----------------------------
(***************************************************************************)
(* The Bluesky Jetstream pipeline: one cursor over an external stream of   *)
(* commits, read in bounded slices.  A slice starts at the cursor, keeps   *)
(* the longest prefix whose events the completion can hold, and is stored  *)
(* with the new cursor in one transaction; a cursor the stream no longer   *)
(* serves is cleared by a fenced recovery.                                 *)
(*                                                                         *)
(* The stream is external: frames are appended, and old ones fall below    *)
(* its replay floor.  The lease of the source's job is abstracted to who   *)
(* holds it: it may run out at any time, and then a claim by another       *)
(* worker gives it a new generation (JobQueue has the queue itself).       *)
(***************************************************************************)
EXTENDS Integers, Sequences, FiniteSets

CONSTANTS
    BlueskyWorkers, \* worker processes
    Nobody,         \* no worker process
    Uris,           \* at_uri of a post
    Frames,         \* frames the stream may carry, see FrameType
    MaxItems,       \* max_candidates and max_deletions of a slice
    MaxFrames       \* bound: length of the stream

\* type: a post commit, or a frame of another kind or collection.  sound: the
\* envelope and the record are well formed; small: the record is within its
\* size; dated: createdAt is usable; keyword: the text matches the registry.
FrameType ==
    [type : {"post", "other"}, uri : Uris, op : {"put", "delete"}, sound : BOOLEAN,
     small : BOOLEAN, dated : BOOLEAN, keyword : BOOLEAN]

ASSUME BlueskyAssumption ==
    /\ Nobody \notin BlueskyWorkers
    /\ IsFiniteSet(Uris) /\ Frames \subseteq FrameType
    /\ MaxItems \in Nat \ {0} /\ MaxFrames \in Nat

VARIABLES
    stream_log, \* the frames of the stream; a frame's position is its seq (external)
    floor,      \* frames up to here are no longer replayed (external)
    cursor,     \* last_cursor, 0 for null
    stale,      \* last_collected_at is 15 minutes old
    events,     \* bluesky_jetstream_observations: <<seq, op, uri>>
    post,       \* bluesky_jetstream_candidates: [seq, live], seq 0 without a row
    holder,     \* the worker the job is leased to, in its current generation
    owner,      \* the worker whose generation owns the request gate
    slice,      \* what a worker process is at
    reached,    \* history: the last cursor that was not null
    gaps        \* history: seqs passed over where a slice started without a cursor

blueskyVars == <<stream_log, floor, cursor, stale, events, post, holder, owner,
                 slice, reached, gaps>>
blueskyRows == <<cursor, stale, events, post, reached, gaps>>
upstream == <<stream_log, floor>>

NoSlice == [stage |-> "idle"]
NoPost == [seq |-> 0, live |-> FALSE]

Items == SUBSET (Nat \X Uris)
Begun == [stage : {"begun"}, start : Nat, joined : Nat]
Collected ==
    [stage : {"collected"}, start : Nat, joined : Nat, end : Nat, seen : Nat,
     puts : Items, deletes : Items]

BlueskyTypeOK ==
    /\ stream_log \in Seq(Frames) /\ floor \in 0..Len(stream_log)
    /\ cursor \in Nat /\ reached \in Nat /\ stale \in BOOLEAN
    /\ events \subseteq Nat \X {"put", "delete"} \X Uris
    /\ post \in [Uris -> [seq : Nat, live : BOOLEAN]]
    /\ {holder, owner} \subseteq BlueskyWorkers \cup {Nobody}
    /\ gaps \subseteq Nat
    /\ \A w \in BlueskyWorkers :
          \/ slice[w] = NoSlice
          \/ slice[w] = [stage |-> "leased"]
          \/ slice[w] \in Begun
          \/ slice[w] \in Collected
          \/ slice[w] \in [stage : {"too_old"}, start : Nat]

BlueskyInit ==
    /\ stream_log = <<>> /\ floor = 0
    /\ cursor = 0 /\ stale = FALSE
    /\ events = {} /\ post = [u \in Uris |-> NoPost]
    /\ holder = Nobody /\ owner = Nobody
    /\ slice = [w \in BlueskyWorkers |-> NoSlice]
    /\ reached = 0 /\ gaps = {}
-------------------------------------------------------------------------------
(* Bodies with one plausible mistake each; no action uses them.            *)

AppliedDeletesFirst(puts, deletes, u) ==
    IF \E i \in puts : i[2] = u
    THEN [seq |-> (CHOOSE i \in puts : i[2] = u)[1], live |-> TRUE]
    ELSE post[u]

TooOldOnAnyError(w) ==
    LET b == slice[w]
    IN  /\ b.stage = "begun"
        /\ b.start > 0
        /\ slice' = [slice EXCEPT ![w] = [stage |-> "too_old", start |-> b.start]]
        /\ UNCHANGED <<upstream, blueskyRows, holder, owner>>

RecoverableFresh(w) == slice[w].start = cursor /\ ~stale
-------------------------------------------------------------------------------
\* parse_jetstream_message and the keyword registry: what a frame amounts to.
\* A record that is too large or dated out of range is never a candidate, but
\* its commit counts; any other fault of a post commit is an error.
Disposition(f) ==
    CASE f.type = "other" -> "ignored"
      [] f.type = "post" /\ ~f.sound -> "error"
      [] f.type = "post" /\ f.sound /\ f.op = "delete" -> "delete"
      [] f.type = "post" /\ f.sound /\ f.op = "put" ->
            IF f.small /\ f.dated /\ f.keyword THEN "put" ELSE "passed"

Is(i, dispositions) == Disposition(stream_log[i]) \in dispositions

Sequences(from, to, op) == {i \in from + 1..to : Is(i, {op})}

\* Whether one completion can hold the frames after from up to to: one item
\* per identity over both lists, and both lists within their caps.
Holds(from, to) ==
    /\ \A i, j \in Sequences(from, to, "put") \cup Sequences(from, to, "delete") :
          stream_log[i].uri = stream_log[j].uri => i = j
    /\ Cardinality(Sequences(from, to, "put")) <= MaxItems
    /\ Cardinality(Sequences(from, to, "delete")) <= MaxItems

\* collect stops in front of the first frame it could not hold.
PrefixEnd(from, received) ==
    CHOOSE n \in from..received :
        /\ Holds(from, n)
        /\ n < received => ~Holds(from, n + 1)

ItemsOf(from, to, op) == {<<i, stream_log[i].uri>> : i \in Sequences(from, to, op)}

\* The last post commit of the prefix; without one the cursor stays.
EndCursor(start, from, to) ==
    LET commits == {i \in from + 1..to : ~Is(i, {"ignored"})}
    IN  IF commits = {} THEN start ELSE CHOOSE i \in commits : \A j \in commits : j <= i

\* finalize_bluesky_jetstream_job: the bounds and the cursor window of a result.
ValidSlice(c) ==
    /\ c.start = cursor
    /\ c.end = 0 => c.puts = {} /\ c.deletes = {} /\ c.seen = 0
    /\ c.seen = 0 => c.end = c.start
    /\ c.end >= c.start
    /\ Cardinality(c.puts) <= MaxItems /\ Cardinality(c.deletes) <= MaxItems
    /\ Cardinality(c.puts) + Cardinality(c.deletes) <= c.seen
    /\ \A i \in c.puts \cup c.deletes : i[1] > c.start /\ i[1] <= c.end
    /\ \A i, j \in c.puts \cup c.deletes : i[1] = j[1] \/ i[2] = j[2] => i = j

\* A stored row never moves back, and a seq stands for one event.
NoSequenceConflict(c) ==
    /\ \A i \in c.puts \cup c.deletes : i[1] > post[i[2]].seq
    /\ \A i \in c.puts \cup c.deletes, e \in events : e[1] # i[1]

\* A candidate after the slice: its new record, or its tombstone.  A deletion
\* of a post that is no candidate leaves no row.
Applied(puts, deletes, u) ==
    IF \E i \in puts : i[2] = u
    THEN [seq |-> (CHOOSE i \in puts : i[2] = u)[1], live |-> TRUE]
    ELSE IF post[u].seq > 0 /\ \E i \in deletes : i[2] = u
    THEN [seq |-> (CHOOSE i \in deletes : i[2] = u)[1], live |-> FALSE]
    ELSE post[u]

\* The lease and the gate a finalizer and a recovery demand.
FencedSlice(w) == holder = w /\ owner = w
-------------------------------------------------------------------------------
\* claim_bluesky_jetstream_jobs: the job is free, or its lease has run out and
\* whoever held it is fenced off.
BlueskyClaim(w) ==
    /\ slice[w] = NoSlice
    /\ holder # w
    /\ holder' = w
    /\ slice' = [slice EXCEPT ![w] = [stage |-> "leased"]]
    /\ UNCHANGED <<upstream, blueskyRows, owner>>

\* PostgresBlueskyJetstreamGate.begin: the gate goes to the lease holder; the
\* gate of a lease that ran out no longer keeps it.
BlueskyBegin(w) ==
    /\ slice[w].stage = "leased"
    /\ holder = w
    /\ owner' = w
    /\ slice' = [slice EXCEPT ![w] = [stage |-> "begun", start |-> cursor,
                                      joined |-> Len(stream_log)]]
    /\ UNCHANGED <<upstream, blueskyRows, holder>>

\* iter_messages: the frames after one position up to another.  With a cursor
\* they start after it (its own frame comes once more and is skipped), without
\* one at the instant the stream was joined; the connection may end, by the
\* window, a limit or the server, after any of them.
Received(b) ==
    {window \in (0..Len(stream_log)) \X (0..Len(stream_log)) :
        /\ window[1] <= window[2]
        /\ IF b.start > 0 THEN window[1] = b.start ELSE window[1] >= b.joined}

\* discover: a slice of the stream, which a frame with a fault refuses.
BlueskyCollect(w) ==
    LET b == slice[w]
    IN  /\ b.stage = "begun"
        /\ b.start = 0 \/ b.start >= floor
        /\ \E received \in Received(b) :
              LET from == received[1]
                  to == PrefixEnd(from, received[2])
              IN  /\ \A i \in from + 1..to : ~Is(i, {"error"})
                  /\ slice' = [slice EXCEPT ![w] =
                        [stage |-> "collected", start |-> b.start, joined |-> from,
                         end |-> EndCursor(b.start, from, to), seen |-> to - from,
                         puts |-> ItemsOf(from, to, "put"),
                         deletes |-> ItemsOf(from, to, "delete")]]
        /\ UNCHANGED <<upstream, blueskyRows, holder, owner>>

\* discover: the stream answers that the cursor is too old.
BlueskyTooOld(w) ==
    LET b == slice[w]
    IN  /\ b.stage = "begun"
        /\ b.start > 0 /\ b.start < floor
        /\ slice' = [slice EXCEPT ![w] = [stage |-> "too_old", start |-> b.start]]
        /\ UNCHANGED <<upstream, blueskyRows, holder, owner>>

\* The seqs a slice that was joined in mid-stream leaves behind for good.
PassedOver(c) ==
    IF c.start = 0 /\ c.end > 0 THEN reached + 1..c.joined ELSE {}

\* finalize_bluesky_jetstream_job: rows, candidates and cursor at once.
BlueskyFinalize(w) ==
    LET c == slice[w]
    IN  /\ c.stage = "collected"
        /\ FencedSlice(w)
        /\ ValidSlice(c) /\ NoSequenceConflict(c)
        /\ events' = events \cup {<<i[1], "put", i[2]>> : i \in c.puts}
                            \cup {<<i[1], "delete", i[2]>> : i \in c.deletes}
        /\ post' = [u \in Uris |-> Applied(c.puts, c.deletes, u)]
        /\ cursor' = c.end
        /\ stale' = FALSE
        /\ holder' = Nobody /\ owner' = Nobody
        /\ slice' = [slice EXCEPT ![w] = NoSlice]
        /\ reached' = IF c.end > 0 THEN c.end ELSE reached
        /\ gaps' = gaps \cup PassedOver(c)
        /\ UNCHANGED upstream

\* recover_bluesky_cursor_too_old_job_v1: only the cursor the slice was begun
\* with, and only once nothing was collected for 15 minutes.
Recoverable(w) == slice[w].start = cursor /\ stale

BlueskyRecover(w) ==
    /\ slice[w].stage = "too_old"
    /\ FencedSlice(w)
    /\ Recoverable(w)
    /\ cursor' = 0
    /\ holder' = Nobody /\ owner' = Nobody
    /\ slice' = [slice EXCEPT ![w] = NoSlice]
    /\ UNCHANGED <<upstream, stale, events, post, reached, gaps>>

\* The attempt ends without a result: an error of the stream or a refusal of
\* the database fails the job, a begin that is put off pauses it, a worker
\* that was fenced off or dies just stops.
BlueskyGiveUp(w) ==
    /\ slice[w] # NoSlice
    /\ slice' = [slice EXCEPT ![w] = NoSlice]
    /\ holder' = IF holder = w THEN Nobody ELSE holder
    /\ owner' = IF FencedSlice(w) THEN Nobody ELSE owner
    /\ UNCHANGED <<upstream, blueskyRows>>

\* The stream grows, and forgets.
Append_(f) ==
    /\ Len(stream_log) < MaxFrames
    /\ stream_log' = Append(stream_log, f)
    /\ UNCHANGED <<floor, blueskyRows, holder, owner, slice>>

Forget ==
    /\ floor < Len(stream_log)
    /\ floor' = floor + 1
    /\ UNCHANGED <<stream_log, blueskyRows, holder, owner, slice>>

\* Fifteen minutes pass without a collected slice.
GrowStale ==
    /\ cursor > 0 /\ ~stale
    /\ stale' = TRUE
    /\ UNCHANGED <<upstream, cursor, events, post, reached, gaps, holder, owner, slice>>

BlueskyNext ==
    \/ \E w \in BlueskyWorkers :
          \/ BlueskyClaim(w)
          \/ BlueskyBegin(w)
          \/ BlueskyCollect(w)
          \/ BlueskyTooOld(w)
          \/ BlueskyFinalize(w)
          \/ BlueskyRecover(w)
          \/ BlueskyGiveUp(w)
    \/ \E f \in Frames : Append_(f)
    \/ Forget
    \/ GrowStale

\* The workers keep polling, an attempt is not fenced off or given up for
\* ever (its lease of 55 seconds covers a window of 10), and time passes.
BlueskyFairness ==
    /\ WF_blueskyVars(GrowStale)
    /\ \A w \in BlueskyWorkers :
          /\ WF_blueskyVars(BlueskyClaim(w))
          /\ SF_blueskyVars(BlueskyBegin(w))
          /\ SF_blueskyVars(BlueskyTooOld(w))
          /\ SF_blueskyVars(BlueskyRecover(w))
          /\ WF_blueskyVars(BlueskyGiveUp(w) /\ slice[w].stage # "leased")

BlueskySpec == BlueskyInit /\ [][BlueskyNext]_blueskyVars
FairBlueskySpec == BlueskySpec /\ BlueskyFairness
-------------------------------------------------------------------------------
Relevant(i) == Is(i, {"put", "delete"})

(* The cursor passes nothing that was not stored: every matching post and  *)
(* every deletion up to it has its observation, except where a slice was   *)
(* started without a cursor and the stream had gone on in between.         *)
NothingSkipped ==
    \A i \in 1..reached :
        Relevant(i) => i \in gaps \/
            <<i, Disposition(stream_log[i]), stream_log[i].uri>> \in events

(* A candidate is what the events up to the cursor made it, one after      *)
(* another: live after its last matching record, dead after a later        *)
(* deletion, never an event of the same slice or of another slice before   *)
(* it.                                                                     *)
CandidateIsLatest ==
    \A u \in Uris :
        LET puts == {i \in 1..reached : i \notin gaps /\ Is(i, {"put"})
                                        /\ stream_log[i].uri = u}
            later == {i \in 1..reached : /\ i \notin gaps /\ Relevant(i)
                                         /\ stream_log[i].uri = u
                                         /\ \E j \in puts : i >= j}
        IN  IF puts = {} THEN post[u] = NoPost
            ELSE LET last == CHOOSE i \in later : \A j \in later : j <= i
                 IN  post[u] = [seq |-> last, live |-> Is(last, {"put"})]

(* The collector's slice is one the database takes: whatever the stream    *)
(* carried, a current lease that comes back with a slice is not refused,   *)
(* or the same frames would be refused for ever.  One slice is: the first  *)
(* one without a cursor, if it held nothing but frames of other kinds.     *)
SliceIsAccepted ==
    \A w \in BlueskyWorkers :
        LET c == slice[w]
        IN  c.stage = "collected" /\ FencedSlice(w) =>
                \/ ValidSlice(c) /\ NoSequenceConflict(c)
                \/ c.start = 0 /\ c.end = 0 /\ c.seen > 0

(* The cursor moves back only through the recovery, which drops a cursor   *)
(* the stream has really forgotten, and at most once: until the next slice *)
(* there is nothing left to drop.                                          *)
RewindsOnlyForgotten ==
    [][cursor' < cursor => /\ cursor' = 0 /\ cursor < floor
                           /\ events' = events /\ post' = post]_blueskyVars

(* A cursor that is too old does not wedge the source, however recent its  *)
(* last slice was: it is dropped in the end, unless a slice that was read  *)
(* before moves it on.                                                     *)
TooOldIsDropped == (cursor > 0 /\ cursor < floor) ~> (cursor = 0 \/ cursor >= floor)

(* What a state of the pipeline keeps: events up to the cursor, candidates *)
(* made of them, and slices that can be stored.                            *)
BlueskyInv == BlueskyTypeOK /\ NothingSkipped /\ CandidateIsLatest /\ SliceIsAccepted
===============================================================================
