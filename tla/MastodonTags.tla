------------------------------ MODULE MastodonTags ------------------------------
(***************************************************************************)
(* The Mastodon hashtag pipeline: seven tag jobs of one instance that      *)
(* share one request gate and one durable rate cooldown.  A slice reads a  *)
(* few pages of a tag's timeline forward from the tag's cursor and stores  *)
(* statuses, merged candidates, cursor and cooldown in one transaction; a  *)
(* 429 is recorded for the whole instance and puts its own job off.        *)
(*                                                                         *)
(* The instance is external: statuses appear, are edited, and every answer *)
(* carries a rate limit.  A lease is who holds it, as in BlueskyStream; a  *)
(* gate lapses with the lease of its owner.  The two seconds between       *)
(* requests are left out.                                                  *)
(***************************************************************************)
EXTENDS Integers, Sequences, FiniteSetsExt

CONSTANTS
    Tags,            \* the approved tag keys
    MastodonWorkers, \* worker processes
    NoWorker,        \* no worker process
    NoTag,           \* no tag
    Statuses,        \* statuses that may appear, [tags, form]
    EditedTags,      \* bound: the tags that an edit may leave a status with
    PageSize,        \* MASTODON_MAX_STATUSES_PER_PAGE
    MaxPages,        \* MASTODON_MAX_PAGES
    MaxStatuses,     \* bound: statuses that appear
    MaxAttempts,     \* bound: claims of each tag's job
    MastodonEnd      \* bound: last instant

\* form: well formed, faulty but for its id, or without a usable id.
StatusType == [tags : SUBSET Tags, form : {"sound", "faulty", "nameless"}]
\* kept: the tags it has had ever since it appeared.
Shown == [tags : SUBSET Tags, form : {"sound", "faulty", "nameless"}, kept : SUBSET Tags]

ASSUME MastodonAssumption ==
    /\ IsFiniteSet(Tags) /\ NoTag \notin Tags /\ NoWorker \notin MastodonWorkers
    /\ Statuses \subseteq StatusType /\ EditedTags \subseteq SUBSET Tags
    /\ {PageSize, MaxPages} \subseteq Nat \ {0}
    /\ {MaxStatuses, MastodonEnd} \subseteq Nat /\ MaxAttempts \in [Tags -> Nat]

VARIABLES
    timeline,    \* the instance's statuses; a position stands for an id (external)
    today,       \* the clock
    last_status_id,  \* last_status_id of a tag, 0 for null
    observed,    \* mastodon_public_hashtag_observations: tag -> id -> matched tags, {} without a row
    matched_tags,   \* mastodon_public_hashtag_candidates: id -> matched tags, {} without a row
    cooldown,    \* cooldown_until
    available,   \* available_at of a tag's job
    attempts,    \* claims of a tag's job so far, for the bound
    leased,      \* the worker a tag's job is leased to
    gate,        \* the tag whose lease owns the request gate
    reading,     \* what a worker process is at
    asked,       \* history: the latest retry instant that was recorded
    baseline     \* history: where the first stored slice of a tag began

mastodonVars == <<timeline, today, last_status_id, observed, matched_tags, cooldown,
                  available, attempts, leased, gate, reading, asked, baseline>>
mastodonRows == <<last_status_id, observed, matched_tags, cooldown, asked, baseline>>

Waiting == [stage |-> "idle"]
Ids == 1..MaxStatuses
Reset == 0..MastodonEnd + 1
\* Statuses a slice would store, with the tags they matched.
Found == SUBSET (Ids \X SUBSET Tags)

MastodonTypeOK ==
    /\ timeline \in Seq(Shown) /\ today \in 0..MastodonEnd
    /\ last_status_id \in [Tags -> 0..MaxStatuses]
    /\ observed \in [Tags -> [Ids -> SUBSET Tags]]
    /\ matched_tags \in [Ids -> SUBSET Tags]
    /\ {cooldown, asked} \subseteq Reset /\ available \in [Tags -> Reset]
    /\ attempts \in [Tags -> Nat]
    /\ leased \in [Tags -> MastodonWorkers \cup {NoWorker}]
    /\ gate \in Tags \cup {NoTag}
    /\ baseline \in [Tags -> 0..MaxStatuses]
    /\ \A w \in MastodonWorkers :
          \/ reading[w] = Waiting
          \/ reading[w] \in [stage : {"leased"}, tag : Tags]
          \/ reading[w] \in [stage : {"limited"}, tag : Tags, retry : Reset]
          \/ /\ reading[w].stage \in {"begun", "paging", "collected"}
             /\ reading[w].tag \in Tags /\ reading[w].end \in 0..MaxStatuses
             /\ reading[w].found \in Found

MastodonInit ==
    /\ timeline = <<>> /\ today = 0
    /\ last_status_id = [t \in Tags |-> 0]
    /\ observed = [t \in Tags |-> [i \in Ids |-> {}]]
    /\ matched_tags = [i \in Ids |-> {}]
    /\ cooldown = 0 /\ available = [t \in Tags |-> 0]
    /\ attempts = [t \in Tags |-> 0] /\ leased = [t \in Tags |-> NoWorker] /\ gate = NoTag
    /\ reading = [w \in MastodonWorkers |-> Waiting]
    /\ asked = 0 /\ baseline = [t \in Tags |-> 0]
-------------------------------------------------------------------------------
\* parse_mastodon_status over a page; what is faulty is skipped.
Matching(t, page) ==
    {<<i, timeline[i].tags>> : i \in {j \in page : timeline[j].form = "sound"}}

(* Bodies with one plausible mistake each; no action uses them.            *)

GatheredAnew(c, page) == Matching(c.tag, page)
CooldownIgnored(t) == gate = NoTag
-------------------------------------------------------------------------------
Holding(w) == leased[reading[w].tag] = w
Fenced_(w) == Holding(w) /\ gate = reading[w].tag

\* The job of tag t is no longer leased, and its gate lapses with it.
Released(t) ==
    /\ leased' = [leased EXCEPT ![t] = NoWorker]
    /\ gate' = IF gate = t THEN NoTag ELSE gate

\* claim_mastodon_public_hashtag_jobs: a lease that ran out is taken over.
MastodonClaim(w, t) ==
    /\ reading[w] = Waiting
    /\ leased[t] # w
    /\ available[t] <= today
    /\ attempts[t] < MaxAttempts[t]
    /\ attempts' = [attempts EXCEPT ![t] = @ + 1]
    /\ leased' = [leased EXCEPT ![t] = w]
    /\ gate' = IF gate = t THEN NoTag ELSE gate
    /\ reading' = [reading EXCEPT ![w] = [stage |-> "leased", tag |-> t]]
    /\ UNCHANGED <<timeline, today, mastodonRows, available>>

\* begin_mastodon_public_hashtag_request: one request window for all tags.
Grantable(t) == gate = NoTag /\ cooldown <= today

MastodonBegin(w) ==
    LET t == reading[w].tag
    IN  /\ reading[w].stage = "leased"
        /\ Holding(w) /\ Grantable(t)
        /\ gate' = t
        /\ reading' = [reading EXCEPT ![w] =
              [stage |-> "begun", tag |-> t, start |-> last_status_id[t], end |-> last_status_id[t],
               pages |-> 0, found |-> {}, incomplete |-> FALSE]]
        /\ UNCHANGED <<timeline, today, mastodonRows, available, attempts, leased>>

\* The gate puts the job off, and the worker pauses it.
MastodonDefer(w) ==
    LET t == reading[w].tag
    IN  /\ reading[w].stage = "leased"
        /\ Holding(w) /\ ~Grantable(t)
        /\ available' = [available EXCEPT ![t] = Max({cooldown, today + 1})]
        /\ Released(t)
        /\ reading' = [reading EXCEPT ![w] = Waiting]
        /\ UNCHANGED <<timeline, today, mastodonRows, attempts>>

\* _retry_after: the wait a 429 asks for, or the default, is in the future.
Retries == today + 1..MastodonEnd + 1

\* parse_rate_limit_headers: 0 while requests remain, else the reset of the
\* budget, without which the headers are refused.
Resets == {0} \cup Retries

\* The result of collect, reset is 0 unless the budget is exhausted.
Completion(c, page, end, incomplete, reset) ==
    [stage |-> "collected", tag |-> c.tag, start |-> c.start, end |-> end,
     seen |-> c.pages > 0 \/ page # {}, found |-> c.found, incomplete |-> incomplete,
     reset |-> reset]

\* collect: the instance is asked first; an exhausted budget ends the slice.
MastodonPreflight(w) ==
    /\ reading[w].stage = "begun"
    /\ \/ reading' = [reading EXCEPT ![w].stage = "paging"]
       \/ \E until \in Retries :
             reading' = [reading EXCEPT ![w] = Completion(@, {}, @.end, TRUE, until)]
    /\ UNCHANGED <<timeline, today, mastodonRows, available, attempts, leased, gate>>

\* _request: a 429 throws away what the slice has read.
MastodonLimited(w) ==
    /\ reading[w].stage \in {"begun", "paging"}
    /\ \E until \in Retries :
          reading' = [reading EXCEPT ![w] =
             [stage |-> "limited", tag |-> reading[w].tag, retry |-> until]]
    /\ UNCHANGED <<timeline, today, mastodonRows, available, attempts, leased, gate>>

\* A page of the tag timeline (external): the oldest statuses after min_id,
\* without one the newest.
PageAfter(t, min) ==
    LET tagged == {i \in min + 1..Len(timeline) : t \in timeline[i].tags}
        older(i) == {j \in tagged : j < i}
        newer(i) == {j \in tagged : j > i}
    IN  {i \in tagged :
            Cardinality(IF min = 0 THEN newer(i) ELSE older(i)) < PageSize}

Gathered(c, page) == c.found \cup Matching(c.tag, page)

NamesAll(page) == page # {} /\ \A i \in page : timeline[i].form # "nameless"

\* The forward boundary: the link's cursor, else the first (newest) row.
EndOf(page, link, end) ==
    IF page # {} /\ (link \/ NamesAll(page)) THEN Max(page) ELSE end

Incomplete(c, page, link, zero) ==
    \/ c.incomplete
    \/ \E i \in page : timeline[i].form # "sound"
    \/ page # {} /\ (link \/ NamesAll(page)) /\ (zero \/ c.pages + 1 >= MaxPages)

\* One page: the slice goes on until a page is empty, has no usable cursor,
\* or a limit is reached.
MastodonPage(w) ==
    LET c == reading[w]
        page == PageAfter(c.tag, c.end)
    IN  /\ c.stage = "paging"
        /\ \E link \in BOOLEAN, reset \in Resets :
              LET on == /\ page # {} /\ (link \/ NamesAll(page))
                        /\ reset = 0 /\ c.pages + 1 < MaxPages
                  end == EndOf(page, link, c.end)
                  short == Incomplete(c, page, link, reset > 0)
                  all == Gathered(c, page)
              IN  reading' = [reading EXCEPT ![w] =
                     IF on THEN [c EXCEPT !.pages = @ + 1, !.found = all, !.end = end,
                                          !.incomplete = short]
                     ELSE Completion([c EXCEPT !.found = all], page, end, short, reset)]
        /\ UNCHANGED <<timeline, today, mastodonRows, available, attempts, leased, gate>>

\* What MastodonPublicHashtagCompletion and the finalizer demand of a slice.
\* An observation stays as it was first stored.
Acceptable(c) ==
    /\ c.start = last_status_id[c.tag]
    /\ IF c.seen THEN c.end > 0 ELSE c.end = c.start
    /\ c.reset > 0 => c.reset > today
    /\ \A f \in c.found : observed[c.tag][f[1]] \in {{}, f[2]}

Merged(old, new) == old \cup new

TagsFound(c, i) == UNION {f[2] : f \in {g \in c.found : g[1] = i}}

\* finalize_mastodon_public_hashtag_job.
MastodonFinalize(w) ==
    LET c == reading[w]
    IN  /\ c.stage = "collected"
        /\ Fenced_(w) /\ Acceptable(c)
        /\ observed' = [observed EXCEPT ![c.tag] =
              [i \in Ids |-> IF TagsFound(c, i) = {} THEN @[i] ELSE TagsFound(c, i)]]
        /\ matched_tags' = [i \in Ids |->
              IF TagsFound(c, i) = {} THEN matched_tags[i]
              ELSE Merged(matched_tags[i], TagsFound(c, i))]
        /\ last_status_id' = [last_status_id EXCEPT ![c.tag] = c.end]
        /\ cooldown' = IF c.reset > 0 THEN c.reset ELSE Max({cooldown, today})
        /\ baseline' = IF c.start = 0 /\ c.end > 0
                       THEN [baseline EXCEPT ![c.tag] = c.end] ELSE baseline
        /\ Released(c.tag)
        /\ reading' = [reading EXCEPT ![w] = Waiting]
        /\ UNCHANGED <<timeline, today, available, attempts, asked>>

\* record_mastodon_rate_limit: the cooldown of the instance, and the pause of
\* the job itself; the worker then applies no pause of its own.
MastodonRecord(w) ==
    LET c == reading[w]
    IN  /\ c.stage = "limited"
        /\ Fenced_(w) /\ c.retry > today
        /\ cooldown' = Max({cooldown, c.retry})
        /\ asked' = Max({asked, c.retry})
        /\ available' = [available EXCEPT ![c.tag] = c.retry]
        /\ Released(c.tag)
        /\ reading' = [reading EXCEPT ![w] = Waiting]
        /\ UNCHANGED <<timeline, today, last_status_id, observed, matched_tags, baseline, attempts>>

\* The attempt fails, the worker dies, or it finds that it was fenced off.
MastodonGiveUp(w) ==
    /\ reading[w] # Waiting
    /\ reading' = [reading EXCEPT ![w] = Waiting]
    /\ IF Holding(w) THEN Released(reading[w].tag) ELSE UNCHANGED <<leased, gate>>
    /\ UNCHANGED <<timeline, today, mastodonRows, available, attempts>>

LeaseRunsOut(t) ==
    /\ leased[t] # NoWorker
    /\ Released(t)
    /\ UNCHANGED <<timeline, today, mastodonRows, available, attempts, reading>>

\* The instance (external): a status appears, or its tags are edited.
Appear(s) ==
    /\ Len(timeline) < MaxStatuses
    /\ timeline' = Append(timeline, [tags |-> s.tags, form |-> s.form, kept |-> s.tags])
    /\ UNCHANGED <<today, mastodonRows, available, attempts, leased, gate, reading>>

Edit(i, tags) ==
    /\ timeline[i].tags # tags
    /\ timeline' = [timeline EXCEPT ![i].tags = tags, ![i].kept = @ \cap tags]
    /\ UNCHANGED <<today, mastodonRows, available, attempts, leased, gate, reading>>

MastodonTick ==
    /\ today < MastodonEnd
    /\ today' = today + 1
    /\ UNCHANGED <<timeline, mastodonRows, available, attempts, leased, gate, reading>>

MastodonNext ==
    \/ \E w \in MastodonWorkers :
          \/ \E t \in Tags : MastodonClaim(w, t)
          \/ MastodonBegin(w)
          \/ MastodonDefer(w)
          \/ MastodonPreflight(w)
          \/ MastodonLimited(w)
          \/ MastodonPage(w)
          \/ MastodonFinalize(w)
          \/ MastodonRecord(w)
          \/ MastodonGiveUp(w)
    \/ \E t \in Tags : LeaseRunsOut(t)
    \/ \E s \in Statuses : Appear(s)
    \/ \E i \in DOMAIN timeline, tags \in EditedTags : Edit(i, tags)
    \/ MastodonTick

MastodonSpec == MastodonInit /\ [][MastodonNext]_mastodonVars
-------------------------------------------------------------------------------
(* Behind the cursor of a tag, from the slice that set it first, every     *)
(* well formed status that always had the tag was observed for it, over    *)
(* page boundaries, 429s between two pages and workers that were fenced    *)
(* off.  (A tag that is edited in later comes too late, see Edit.)         *)
ReadToCursor ==
    \A t \in Tags : \A i \in baseline[t] + 1..last_status_id[t] :
        timeline[i].form = "sound" /\ t \in timeline[i].kept => observed[t][i] # {}

(* A candidate is the union of what the independent tag jobs stored of it, *)
(* in whatever order they came and whatever was edited in between.         *)
CandidateMergesTags ==
    \A i \in Ids : matched_tags[i] = UNION {observed[t][i] : t \in Tags}

(* After a recorded 429 no tag's job is granted a request before the       *)
(* instant the instance asked for, whichever job recorded it and however   *)
(* many slices were finalized since.                                       *)
BackedOff ==
    [][gate' # gate /\ gate' # NoTag => today >= asked]_mastodonVars

(* The database refuses the slice of a current lease only when the         *)
(* announced reset has passed meanwhile, or after pages whose ids were     *)
(* unusable: it has no end, or is read again from the same cursor and its  *)
(* statuses were edited.  Anything else would be refused for ever.         *)
RefusedOnlyForItsIds ==
    \A w \in MastodonWorkers :
        LET c == reading[w]
        IN  c.stage = "collected" /\ Fenced_(w) /\ ~Acceptable(c) =>
              \/ c.reset > 0 /\ c.reset <= today
              \/ c.seen /\ c.end = 0
              \/ \E i \in c.start + 1..MaxStatuses : observed[c.tag][i] # {}

(* What a state of the pipeline keeps: all statuses up to each cursor,     *)
(* candidates merged from them, and slices that can be stored.             *)
MastodonInv ==
    MastodonTypeOK /\ ReadToCursor /\ CandidateMergesTags /\ RefusedOnlyForItsIds
===============================================================================
