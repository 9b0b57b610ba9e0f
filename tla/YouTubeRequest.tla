----------------------------- MODULE YouTubeRequest -----------------------------
(***************************************************************************)
(* One YouTube search request and the child process that carries it: curl  *)
(* runs in a session of its own, is drained under a deadline, and is       *)
(* killed and reaped when it oversteps.  The request gate of the source    *)
(* must cover it for as long as it may run.                                *)
(*                                                                         *)
(* A worker's lease and its gate are one thing here, the grant (JobQueue   *)
(* shows that they end together).  Each grant has its own number.          *)
(***************************************************************************)
EXTENDS Integers, Sequences, FiniteSets, Functions

CONSTANTS
    YouTubeWorkers, \* worker processes
    Items,          \* search items an answer may hold: [id, whole, published]
    MaxItems,       \* max_results
    GrantFor,       \* lease that begin and a heartbeat leave
    Transfer,       \* time curl gives itself (--max-time)
    Reap,           \* time left after it to kill and reap
    ReapAttempts,   \* _YOUTUBE_REAP_ATTEMPTS
    MaxGrants,      \* bound: grants
    YouTubeEnd      \* bound: last instant

ASSUME YouTubeAssumption ==
    /\ IsFiniteSet(YouTubeWorkers)
    /\ {GrantFor, Transfer, Reap, ReapAttempts, MaxGrants} \subseteq Nat \ {0}
    /\ YouTubeEnd \in Nat /\ MaxItems \in Nat
    /\ \A i \in Items : i.published \in {"early", "past", "ahead"}    \* early: before 2005
    /\ GrantFor > Transfer + Reap

VARIABLES
    youtubeNow,       \* the clock
    grant,     \* the grant that owns the gate, 0 for none
    until,     \* active_until
    issued,    \* grants so far
    process,   \* what a worker process is at
    child,     \* curl of a grant: "none", "running", "exited" (not collected), "lost"
               \* (collected, no return code published) or "reaped"
    started,   \* when it was started
    late,      \* history: grants whose curl was started too late to end under them
    stray      \* history: a signal was sent to a collected child's number

youtubeVars == <<youtubeNow, grant, until, issued, process, child, started, late, stray>>

Grants == 1..MaxGrants
NoRequest == [stage |-> "idle"]

YouTubeTypeOK ==
    /\ youtubeNow \in 0..YouTubeEnd /\ until \in Nat
    /\ issued \in 0..MaxGrants /\ grant \in 0..issued
    /\ child \in [Grants -> {"none", "running", "exited", "lost", "reaped"}]
    /\ started \in [Grants -> 0..YouTubeEnd] /\ late \subseteq Grants /\ stray \in BOOLEAN
    /\ \A w \in YouTubeWorkers :
          \/ process[w] = NoRequest
          \/ process[w] \in [stage : {"granted", "draining", "failed", "fatal"}, grant : Grants]
          \/ process[w] \in [stage : {"reaping"}, grant : Grants, left : 0..ReapAttempts,
                             stop : BOOLEAN]
          \/ process[w] \in [stage : {"answered"}, grant : Grants,
                             items : UNION {[kept -> Items] : kept \in SUBSET (1..MaxItems)}]

YouTubeInit ==
    /\ youtubeNow = 0 /\ grant = 0 /\ until = 0 /\ issued = 0
    /\ process = [w \in YouTubeWorkers |-> NoRequest]
    /\ child = [g \in Grants |-> "none"] /\ started = [g \in Grants |-> 0]
    /\ late = {} /\ stray = FALSE
-------------------------------------------------------------------------------
(* Bodies with one plausible mistake each; no action uses them.            *)

AfterReapFails(p, c) == [stage |-> "failed", grant |-> p.grant]
-------------------------------------------------------------------------------
Owns(g) == grant = g /\ until > youtubeNow

\* PostgresYouTubeDiscoveryGate.begin: the gate is free or its lease is over.
YouTubeBegin(w) ==
    /\ process[w] = NoRequest
    /\ grant = 0 \/ until <= youtubeNow
    /\ issued < MaxGrants
    /\ issued' = issued + 1
    /\ grant' = issued' /\ until' = youtubeNow + GrantFor
    /\ process' = [process EXCEPT ![w] = [stage |-> "granted", grant |-> issued']]
    /\ UNCHANGED <<youtubeNow, child, started, late, stray>>

\* The heartbeat thread keeps the grant of a live lease.
YouTubeHeartbeat(w) ==
    /\ process[w] # NoRequest
    /\ Owns(process[w].grant)
    /\ until < youtubeNow + GrantFor
    /\ until' = youtubeNow + GrantFor
    /\ UNCHANGED <<youtubeNow, grant, issued, process, child, started, late, stray>>

\* HTTPXYouTubeTransport.get: curl is started; nothing looks at the lease.
StartCurl(w) ==
    LET g == process[w].grant
    IN  /\ process[w].stage = "granted"
        /\ child' = [child EXCEPT ![g] = "running"]
        /\ started' = [started EXCEPT ![g] = youtubeNow]
        /\ late' = IF Owns(g) /\ youtubeNow + Transfer < until THEN late ELSE late \cup {g}
        /\ process' = [process EXCEPT ![w] = [stage |-> "draining", grant |-> g]]
        /\ UNCHANGED <<youtubeNow, grant, until, issued, stray>>

\* curl ends: it has its answer, an error or no more time, or was killed.
CurlExits(g) ==
    /\ child[g] = "running"
    /\ child' = [child EXCEPT ![g] = "exited"]
    /\ UNCHANGED <<youtubeNow, grant, until, issued, process, started, late, stray>>

\* _parse_search_response: all items are whole and their ids distinct.
Parsed(items) ==
    /\ Len(items) <= MaxItems
    /\ \A i \in DOMAIN items : items[i].whole
    /\ \A i, j \in DOMAIN items : items[i].id = items[j].id => i = j

\* discover: what is dated after the cutoff of the query is left out.  The
\* rest keeps its numbers: nothing depends on them.
Fit(items) == Restrict(items, {i \in DOMAIN items : items[i].published # "ahead"})

\* YouTubeSourceItemWrite, YouTubeDiscoveryCompletion.
Completable(items) ==
    /\ Cardinality(DOMAIN items) <= MaxItems
    /\ \A i \in DOMAIN items : items[i].published = "past"
    /\ \A i, j \in DOMAIN items : items[i].id = items[j].id => i = j

\* _bounded_exchange drains both pipes and collects curl; the answer is used
\* if it is complete and in time.
Drained(w) ==
    LET g == process[w].grant
    IN  /\ process[w].stage = "draining"
        /\ child[g] = "exited"
        /\ child' = [child EXCEPT ![g] = "reaped"]
        /\ \/ process' = [process EXCEPT ![w] = [stage |-> "failed", grant |-> g]]
           \/ /\ youtubeNow <= started[g] + Transfer + Reap
              /\ \E n \in 0..MaxItems : \E items \in [1..n -> Items] :
                    /\ Parsed(items)
                    /\ process' = [process EXCEPT ![w] =
                          [stage |-> "answered", grant |-> g, items |-> Fit(items)]]
        /\ UNCHANGED <<youtubeNow, grant, until, issued, started, late, stray>>

\* _bounded_exchange is left by an exception: too much output, the transfer
\* deadline, or a shutdown (stop), which may hit the wait that has just
\* collected curl.
Overstepped(w, stop) ==
    LET g == process[w].grant
    IN  /\ process[w].stage = "draining"
        /\ process' = [process EXCEPT ![w] =
              [stage |-> "reaping", grant |-> g, left |-> ReapAttempts, stop |-> stop]]
        /\ \/ UNCHANGED child
           \/ stop /\ child[g] = "exited" /\ child' = [child EXCEPT ![g] = "lost"]
        /\ UNCHANGED <<youtubeNow, grant, until, issued, started, late, stray>>

\* _terminate_and_reap, once _reap_process_group has ended with child c: a
\* shutdown goes on, a child that could not be collected is fatal as well.
AfterReap(p, c) ==
    [stage |-> IF p.stop \/ c # "reaped" THEN "fatal" ELSE "failed", grant |-> p.grant]

\* The poll that opens a round collects a child that has exited, and learns
\* that one was collected before.
Known(p, hit) == hit # "poll" /\ child[p.grant] \in {"exited", "lost"}

\* One round of _reap_process_group_guarded: poll, and unless curl is known to
\* be collected, kill it and wait.  A control-flow exception may hit the poll
\* or the wait, before or after that collects curl.
ReapRound(w) ==
    LET p == process[w]
        g == p.grant
    IN  /\ p.stage = "reaping"
        /\ \E hit \in {"none", "poll", "wait"}, c \in {"running", "exited", "lost", "reaped"} :
              LET killed == hit # "poll" /\ ~Known(p, hit)
                  q == [p EXCEPT !.left = @ - 1, !.stop = @ \/ hit # "none"]
              IN  /\ Known(p, hit) => c = "reaped"
                  /\ hit = "poll" => c = child[g] \/ (child[g] = "exited" /\ c = "lost")
                  /\ killed /\ child[g] = "lost" => c = "lost"
                  /\ killed /\ child[g] # "lost" /\ hit = "none" => c \in {"running", "reaped"}
                  /\ child' = [child EXCEPT ![g] = c]
                  /\ stray' = (stray \/ (killed /\ child[g] = "lost"))
                  /\ process' = [process EXCEPT ![w] =
                        IF c = "reaped" \/ q.left = 0 THEN AfterReap(q, c) ELSE q]
        /\ UNCHANGED <<youtubeNow, grant, until, issued, started, late>>

\* The worker reports: finalize_youtube_discovery_job or fail_job_v2 release
\* the gate of a grant that is still current, and do nothing otherwise.
Report(w) ==
    LET p == process[w]
    IN  /\ p.stage \in {"failed", "answered"}
        /\ IF Owns(p.grant) THEN grant' = 0 /\ until' = 0 ELSE UNCHANGED <<grant, until>>
        /\ process' = [process EXCEPT ![w] = NoRequest]
        /\ UNCHANGED <<youtubeNow, issued, child, started, late, stray>>

\* The process dies, by YouTubeRequestStateUnknown, a shutdown or a crash, and
\* a new one takes its place.  Nothing is reported; curl may run on.
Dies(w) ==
    /\ process[w] # NoRequest
    /\ process' = [process EXCEPT ![w] = NoRequest]
    /\ UNCHANGED <<youtubeNow, grant, until, issued, child, started, late, stray>>

\* Time passes; curl does not outrun its own limit.
YouTubeTick ==
    /\ youtubeNow < YouTubeEnd
    /\ \A g \in Grants : child[g] = "running" => youtubeNow < started[g] + Transfer
    /\ youtubeNow' = youtubeNow + 1
    /\ UNCHANGED <<grant, until, issued, process, child, started, late, stray>>

YouTubeNext ==
    \/ \E w \in YouTubeWorkers :
          \/ YouTubeBegin(w)
          \/ YouTubeHeartbeat(w)
          \/ StartCurl(w)
          \/ Drained(w)
          \/ \E stop \in BOOLEAN : Overstepped(w, stop)
          \/ ReapRound(w)
          \/ Report(w)
          \/ Dies(w)
    \/ \E g \in Grants : CurlExits(g)
    \/ YouTubeTick

YouTubeSpec == YouTubeInit /\ [][YouTubeNext]_youtubeVars
-------------------------------------------------------------------------------
(* A request that may still be running holds the gate, whatever became of  *)
(* the worker: only a curl that is known to be gone, or whose grant has    *)
(* outlived it, makes room for another one.  The exception is a worker     *)
(* that slept between its grant and the start of curl.                     *)
RunningRequestHoldsGate ==
    \A g \in Grants : child[g] = "running" /\ g \notin late =>
        Owns(g)

(* No signal is sent to the number of a child that was collected, which    *)
(* may be another process by then: not even when an interrupt hid that the *)
(* wait had collected it.                                                  *)
NoStraySignal == ~stray

(* An answer the client accepts can be completed, unless YouTube dates a   *)
(* video before YouTube.                                                   *)
AnswerCompletes ==
    \A w \in YouTubeWorkers :
        process[w].stage = "answered" =>
            \/ Completable(process[w].items)
            \/ \E i \in DOMAIN process[w].items :
                  process[w].items[i].published = "early"

(* A request is contained: it holds the gate, is reaped once, and its      *)
(* answer has a place to go.                                               *)
YouTubeInv == YouTubeTypeOK /\ RunningRequestHoldsGate /\ NoStraySignal /\ AnswerCompletes
===============================================================================
