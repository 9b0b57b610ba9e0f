------------------------------ MODULE Answers_proofs -----------------------------
(***************************************************************************)
(* Proofs about the parts that wait for an answer from outside, for every  *)
(* value of their constants: the request to YouTube with the child process *)
(* that carries it, the review of authorized openings by people, the facts *)
(* that models extract from a text, and the publishers of two families of  *)
(* openings.  The parts share nothing, so each has an inductive invariant  *)
(* of its own.                                                             *)
(***************************************************************************)
EXTENDS YouTubeRequest, AuthorizedOpening, EvidencePipeline, SourceFamilies,
        FiniteSetTheorems, WellFoundedInduction, TLAPS
-------------------------------------------------------------------------------
(* YouTube request.  A grant is one worker's, and the worker's stage tells *)
(* how far its curl has got; a curl that was started in time runs under a  *)
(* grant that outlives it.                                                 *)

Answer == UNION {[kept -> Items] : kept \in SUBSET (1..MaxItems)}
Attempt ==
    [stage : {"granted", "draining", "failed", "fatal"}, grant : Grants]
        \cup [stage : {"reaping"}, grant : Grants, left : 1..ReapAttempts, stop : BOOLEAN]
        \cup [stage : {"answered"}, grant : Grants, items : Answer]

YouTubeTypes ==
    /\ youtubeNow \in 0..YouTubeEnd /\ until \in Nat
    /\ issued \in 0..MaxGrants /\ grant \in 0..issued
    /\ child \in [Grants -> {"none", "running", "exited", "lost", "reaped"}]
    /\ started \in [Grants -> 0..YouTubeEnd] /\ late \subseteq Grants /\ stray \in BOOLEAN
    /\ process \in [YouTubeWorkers -> Attempt \cup {NoRequest}]

ChildOf(p) ==
    CASE p.stage = "granted"  -> {"none"}
      [] p.stage = "draining" -> {"running", "exited"}
      [] p.stage = "reaping"  -> {"running", "exited", "lost"}
      [] p.stage \in {"failed", "answered"} -> {"reaped"}
      [] OTHER -> {"none", "running", "exited", "lost", "reaped"}

GrantsAreHeldOnce ==
    /\ \A w \in YouTubeWorkers : process[w] # NoRequest =>
          process[w].grant <= issued /\ child[process[w].grant] \in ChildOf(process[w])
    /\ \A v, w \in YouTubeWorkers :
          process[v] # NoRequest /\ process[w] # NoRequest /\ process[v].grant = process[w].grant => v = w
    /\ \A g \in Grants : g > issued => child[g] = "none"

RunsInTime ==
    \A g \in Grants : child[g] = "running" /\ g \notin late =>
        /\ grant = g /\ started[g] + Transfer < until
        /\ youtubeNow <= started[g] + Transfer

YouTubeIInv ==
    /\ YouTubeTypes /\ GrantsAreHeldOnce /\ RunsInTime
    /\ NoStraySignal /\ AnswerCompletes

LEMMA NoRequestIsIdle == NoRequest.stage = "idle" /\ \A p \in Attempt : p # NoRequest
BY DEF NoRequest, Attempt

LEMMA AttemptIs ==
    ASSUME NEW p \in Attempt
    PROVE  /\ p.grant \in Grants
           /\ p.stage \in {"granted", "draining", "reaping", "failed", "fatal", "answered"}
           /\ p.stage = "reaping" =>
                 p \in [stage : {"reaping"}, grant : Grants, left : 1..ReapAttempts, stop : BOOLEAN]
           /\ p.stage = "answered" =>
                 p \in [stage : {"answered"}, grant : Grants, items : Answer]
BY DEF Attempt

LEMMA BusyIsAttempt ==
    ASSUME YouTubeIInv, NEW w \in YouTubeWorkers, process[w].stage # "idle"
    PROVE  /\ process[w] # NoRequest /\ process[w] \in Attempt
           /\ process[w].grant \in Grants /\ process[w].grant <= issued
           /\ child[process[w].grant] \in ChildOf(process[w])
<1>1. process[w] # NoRequest
    BY NoRequestIsIdle
<1>2. process[w] \in Attempt
    BY <1>1 DEF YouTubeIInv, YouTubeTypes
<1> QED BY <1>1, <1>2, AttemptIs DEF YouTubeIInv, GrantsAreHeldOnce

LEMMA YouTubeInitial == YouTubeInit => YouTubeIInv
<1> SUFFICES ASSUME YouTubeInit PROVE YouTubeIInv
    OBVIOUS
<1> USE YouTubeAssumption
<1>1. YouTubeTypes
    <2>1. 0 \in Nat /\ 0 \in 0..MaxGrants /\ 0 \in 0..0 /\ 0 \in 0..YouTubeEnd
        OBVIOUS
    <2> QED BY <2>1 DEF YouTubeInit, YouTubeTypes
<1>2. GrantsAreHeldOnce /\ RunsInTime /\ NoStraySignal
    BY DEF YouTubeInit, GrantsAreHeldOnce, RunsInTime, NoStraySignal
<1>3. AnswerCompletes
    BY NoRequestIsIdle DEF YouTubeInit, AnswerCompletes
<1> QED BY <1>1, <1>2, <1>3 DEF YouTubeIInv

\* An answer that can be completed, as far as the client can tell.
Acceptable(p) ==
    p.stage = "answered" =>
        \/ Completable(p.items)
        \/ \E i \in DOMAIN p.items : p.items[i].published = "early"

\* A worker goes on with its attempt, and only its own child is affected.
LEMMA AttemptGoesOn ==
    ASSUME YouTubeIInv, NEW w \in YouTubeWorkers, process[w].stage # "idle",
           NEW p \in Attempt, p.grant = process[w].grant, Acceptable(p),
           NEW c \in {"none", "running", "exited", "lost", "reaped"}, c \in ChildOf(p),
           process' = [process EXCEPT ![w] = p], child' = [child EXCEPT ![p.grant] = c],
           issued' = issued
    PROVE  /\ process' \in [YouTubeWorkers -> Attempt \cup {NoRequest}]
           /\ child' \in [Grants -> {"none", "running", "exited", "lost", "reaped"}]
           /\ GrantsAreHeldOnce' /\ AnswerCompletes'
<1>1. /\ process[w] # NoRequest /\ process[w] \in Attempt
      /\ p.grant \in Grants /\ p.grant <= issued
    BY BusyIsAttempt
<1>2. /\ process' \in [YouTubeWorkers -> Attempt \cup {NoRequest}]
      /\ process'[w] = p /\ \A v \in YouTubeWorkers \ {w} : process'[v] = process[v]
    BY DEF YouTubeIInv, YouTubeTypes
<1>3. /\ child' \in [Grants -> {"none", "running", "exited", "lost", "reaped"}]
      /\ child'[p.grant] = c /\ \A g \in Grants \ {p.grant} : child'[g] = child[g]
    BY <1>1 DEF YouTubeIInv, YouTubeTypes
<1>4. issued \in 0..MaxGrants
    BY DEF YouTubeIInv, YouTubeTypes
<1>5. ASSUME NEW v \in YouTubeWorkers \ {w}, process[v] # NoRequest
      PROVE  process[v].grant \in Grants /\ process[v].grant # p.grant
    <2>1. process[v] \in Attempt
        BY <1>5 DEF YouTubeIInv, YouTubeTypes
    <2> QED BY <1>1, <1>5, <2>1, AttemptIs DEF YouTubeIInv, GrantsAreHeldOnce
<1>6. GrantsAreHeldOnce'
    <2>1. \A v \in YouTubeWorkers : process'[v] # NoRequest =>
             process'[v].grant <= issued' /\ child'[process'[v].grant] \in ChildOf(process'[v])
        BY <1>1, <1>2, <1>3, <1>5 DEF YouTubeIInv, GrantsAreHeldOnce
    <2>2. \A u, v \in YouTubeWorkers :
             process'[u] # NoRequest /\ process'[v] # NoRequest
                 /\ process'[u].grant = process'[v].grant => u = v
        BY <1>1, <1>2, <1>5 DEF YouTubeIInv, GrantsAreHeldOnce
    <2>3. \A g \in Grants : g > issued' => child'[g] = "none"
        BY <1>1, <1>3, <1>4, YouTubeAssumption DEF YouTubeIInv, GrantsAreHeldOnce, Grants
    <2> QED BY <2>1, <2>2, <2>3 DEF GrantsAreHeldOnce
<1>7. AnswerCompletes'
    BY <1>2 DEF Acceptable, YouTubeIInv, AnswerCompletes
<1> QED BY <1>2, <1>3, <1>6, <1>7

\* The same, when no child starts to run by it.
LEMMA AttemptGoesOnQuietly ==
    ASSUME YouTubeIInv, NEW w \in YouTubeWorkers, process[w].stage # "idle",
           NEW p \in Attempt, p.grant = process[w].grant, Acceptable(p),
           NEW c \in {"none", "running", "exited", "lost", "reaped"}, c \in ChildOf(p),
           process' = [process EXCEPT ![w] = p], child' = [child EXCEPT ![p.grant] = c],
           c = "running" => child[p.grant] = "running", stray' = stray,
           UNCHANGED <<youtubeNow, grant, until, issued, started, late>>
    PROVE  YouTubeIInv'
<1>1. /\ process' \in [YouTubeWorkers -> Attempt \cup {NoRequest}]
      /\ child' \in [Grants -> {"none", "running", "exited", "lost", "reaped"}]
      /\ GrantsAreHeldOnce' /\ AnswerCompletes'
    BY AttemptGoesOn
<1>2. /\ youtubeNow' = youtubeNow /\ grant' = grant /\ until' = until /\ issued' = issued
      /\ started' = started /\ late' = late /\ stray' = stray
    OBVIOUS
<1>3. \A g \in Grants : child'[g] = "running" => child[g] = "running"
    BY DEF YouTubeIInv, YouTubeTypes
<1>4. YouTubeTypes'
    BY <1>1, <1>2 DEF YouTubeIInv, YouTubeTypes
<1>5. RunsInTime'
    BY <1>2, <1>3 DEF YouTubeIInv, RunsInTime
<1> QED BY <1>1, <1>2, <1>4, <1>5 DEF YouTubeIInv, NoStraySignal

\* A worker that is rid of its attempt leaves the child as it is.
LEMMA AttemptEnds ==
    ASSUME YouTubeIInv, NEW w \in YouTubeWorkers, process' = [process EXCEPT ![w] = NoRequest],
           UNCHANGED <<youtubeNow, issued, child, started, late, stray>>
    PROVE  /\ process' \in [YouTubeWorkers -> Attempt \cup {NoRequest}]
           /\ GrantsAreHeldOnce' /\ AnswerCompletes'
<1>1. /\ process' \in [YouTubeWorkers -> Attempt \cup {NoRequest}]
      /\ process'[w] = NoRequest /\ \A v \in YouTubeWorkers \ {w} : process'[v] = process[v]
    BY DEF YouTubeIInv, YouTubeTypes
<1>2. issued' = issued /\ child' = child
    OBVIOUS
<1>3. GrantsAreHeldOnce'
    BY <1>1, <1>2 DEF YouTubeIInv, GrantsAreHeldOnce
<1>4. AnswerCompletes'
    BY <1>1, NoRequestIsIdle DEF YouTubeIInv, AnswerCompletes
<1> QED BY <1>1, <1>3, <1>4

\* Whoever takes a free or expired gate finds no curl that was started in
\* time still running.
LEMMA YouTubeBeginKeeps ==
    ASSUME YouTubeIInv, NEW w \in YouTubeWorkers, YouTubeBegin(w)
    PROVE  YouTubeIInv'
<1> USE YouTubeAssumption
<1> DEFINE n == issued + 1
           p == [stage |-> "granted", grant |-> n]
<1>1. n \in Grants /\ issued \in Nat /\ ~(n <= issued)
    BY DEF YouTubeBegin, YouTubeIInv, YouTubeTypes, Grants
<1>2. p \in Attempt /\ p.stage = "granted" /\ p.grant = n
    BY <1>1 DEF Attempt
<1>3. /\ process' = [process EXCEPT ![w] = p] /\ process[w] = NoRequest
      /\ issued' = n /\ grant' = n /\ until' = youtubeNow + GrantFor /\ youtubeNow' = youtubeNow
      /\ child' = child /\ started' = started /\ late' = late /\ stray' = stray
    BY DEF YouTubeBegin
<1> HIDE DEF p
<1>4. /\ process' \in [YouTubeWorkers -> Attempt \cup {NoRequest}]
      /\ process'[w] = p /\ \A v \in YouTubeWorkers \ {w} : process'[v] = process[v]
    BY <1>2, <1>3 DEF YouTubeIInv, YouTubeTypes
<1>5. \A g \in Grants : ~(child[g] = "running" /\ g \notin late)
    <2> SUFFICES ASSUME NEW g \in Grants, child[g] = "running", g \notin late PROVE FALSE
        OBVIOUS
    <2>1. grant = g /\ started[g] + Transfer < until /\ youtubeNow <= started[g] + Transfer
        BY DEF YouTubeIInv, RunsInTime
    <2>2. grant # 0 /\ started[g] \in Nat /\ youtubeNow \in Nat /\ until \in Nat
        BY <2>1 DEF YouTubeIInv, YouTubeTypes, Grants
    <2> QED BY <2>1, <2>2 DEF YouTubeBegin
<1>6. GrantsAreHeldOnce'
    <2>1. child[n] = "none" /\ ChildOf(p) = {"none"}
        BY <1>1, <1>2 DEF YouTubeIInv, GrantsAreHeldOnce, ChildOf
    <2>2. ASSUME NEW v \in YouTubeWorkers \ {w}, process[v] # NoRequest
          PROVE  process[v].grant \in Grants /\ process[v].grant <= issued
        <3>1. process[v] \in Attempt
            BY <2>2 DEF YouTubeIInv, YouTubeTypes
        <3> QED BY <2>2, <3>1, AttemptIs DEF YouTubeIInv, GrantsAreHeldOnce
    <2>3. \A v \in YouTubeWorkers : process'[v] # NoRequest =>
             process'[v].grant <= issued' /\ child'[process'[v].grant] \in ChildOf(process'[v])
        BY <1>1, <1>2, <1>3, <1>4, <2>1, <2>2 DEF YouTubeIInv, GrantsAreHeldOnce, Grants
    <2>4. \A u, v \in YouTubeWorkers :
             process'[u] # NoRequest /\ process'[v] # NoRequest
                 /\ process'[u].grant = process'[v].grant => u = v
        BY <1>1, <1>2, <1>4, <2>2 DEF YouTubeIInv, GrantsAreHeldOnce
    <2>5. \A g \in Grants : g > issued' => child'[g] = "none"
        BY <1>1, <1>3 DEF YouTubeIInv, GrantsAreHeldOnce, Grants
    <2> QED BY <2>3, <2>4, <2>5 DEF GrantsAreHeldOnce
<1>7. YouTubeTypes'
    BY <1>1, <1>3, <1>4 DEF YouTubeIInv, YouTubeTypes, Grants
<1>8. RunsInTime' /\ NoStraySignal'
    BY <1>3, <1>5 DEF YouTubeIInv, RunsInTime, NoStraySignal
<1>9. AnswerCompletes'
    BY <1>2, <1>4 DEF YouTubeIInv, AnswerCompletes
<1> QED BY <1>6, <1>7, <1>8, <1>9 DEF YouTubeIInv

LEMMA YouTubeHeartbeatKeeps ==
    ASSUME YouTubeIInv, NEW w \in YouTubeWorkers, YouTubeHeartbeat(w)
    PROVE  YouTubeIInv'
<1> USE YouTubeAssumption
<1>1. /\ until' = youtubeNow + GrantFor /\ until < until' /\ until' \in Nat
      /\ youtubeNow' = youtubeNow /\ grant' = grant /\ issued' = issued /\ process' = process
      /\ child' = child /\ started' = started /\ late' = late /\ stray' = stray
    BY DEF YouTubeHeartbeat, YouTubeIInv, YouTubeTypes
<1>2. YouTubeTypes'
    BY <1>1 DEF YouTubeIInv, YouTubeTypes
<1>3. RunsInTime'
    <2> SUFFICES ASSUME NEW g \in Grants, child[g] = "running", g \notin late
                 PROVE  grant = g /\ started[g] + Transfer < until'
                        /\ youtubeNow <= started[g] + Transfer
        BY <1>1 DEF RunsInTime
    <2>1. started[g] \in Nat /\ until \in Nat
        BY DEF YouTubeIInv, YouTubeTypes
    <2> QED BY <1>1, <2>1 DEF YouTubeIInv, RunsInTime
<1> QED BY <1>1, <1>2, <1>3
        DEF YouTubeIInv, GrantsAreHeldOnce, NoStraySignal, AnswerCompletes

LEMMA StartCurlKeeps ==
    ASSUME YouTubeIInv, NEW w \in YouTubeWorkers, StartCurl(w)
    PROVE  YouTubeIInv'
<1> USE YouTubeAssumption
<1> DEFINE g == process[w].grant
           p == [stage |-> "draining", grant |-> g]
<1>1. process[w].stage # "idle" /\ g \in Grants
    BY BusyIsAttempt DEF StartCurl
<1>2. p \in Attempt /\ p.stage = "draining" /\ p.grant = g
    BY <1>1 DEF Attempt
<1>3. /\ process' = [process EXCEPT ![w] = p] /\ child' = [child EXCEPT ![p.grant] = "running"]
      /\ started' = [started EXCEPT ![g] = youtubeNow]
      /\ late' = IF Owns(g) /\ youtubeNow + Transfer < until THEN late ELSE late \cup {g}
      /\ youtubeNow' = youtubeNow /\ grant' = grant /\ until' = until /\ issued' = issued
      /\ stray' = stray
    BY <1>2 DEF StartCurl
<1> HIDE DEF p
<1>4. "running" \in ChildOf(p) /\ Acceptable(p)
    BY <1>2 DEF ChildOf, Acceptable
<1>5. /\ process' \in [YouTubeWorkers -> Attempt \cup {NoRequest}]
      /\ child' \in [Grants -> {"none", "running", "exited", "lost", "reaped"}]
      /\ GrantsAreHeldOnce' /\ AnswerCompletes'
    BY <1>1, <1>2, <1>3, <1>4, AttemptGoesOn
<1>6. YouTubeTypes'
    BY <1>1, <1>3, <1>5 DEF YouTubeIInv, YouTubeTypes
<1>7. RunsInTime'
    <2> SUFFICES ASSUME NEW h \in Grants, child'[h] = "running", h \notin late'
                 PROVE  grant = h /\ started'[h] + Transfer < until
                        /\ youtubeNow <= started'[h] + Transfer
        BY <1>3 DEF RunsInTime
    <2>1. CASE h = g
        <3>1. started'[h] = youtubeNow /\ youtubeNow \in Nat
            BY <1>3, <2>1 DEF YouTubeIInv, YouTubeTypes
        <3> QED BY <1>3, <2>1, <3>1 DEF Owns
    <2>2. CASE h # g
        <3>1. child[h] = "running" /\ started'[h] = started[h] /\ h \notin late
            BY <1>1, <1>2, <1>3, <2>2 DEF YouTubeIInv, YouTubeTypes
        <3> QED BY <3>1 DEF YouTubeIInv, RunsInTime
    <2> QED BY <2>1, <2>2
<1> QED BY <1>3, <1>5, <1>6, <1>7 DEF YouTubeIInv, NoStraySignal

\* Curl that exits gives up its running state and nothing else; its worker,
\* if it still has one, takes it from there.
LEMMA CurlExitsKeeps ==
    ASSUME YouTubeIInv, NEW g \in Grants, CurlExits(g)
    PROVE  YouTubeIInv'
<1>1. /\ child[g] = "running" /\ child' = [child EXCEPT ![g] = "exited"]
      /\ youtubeNow' = youtubeNow /\ grant' = grant /\ until' = until /\ issued' = issued
      /\ process' = process /\ started' = started /\ late' = late /\ stray' = stray
    BY DEF CurlExits
<1>2. child'[g] = "exited" /\ \A h \in Grants \ {g} : child'[h] = child[h]
    BY <1>1 DEF YouTubeIInv, YouTubeTypes
<1>3. YouTubeTypes'
    BY <1>1 DEF YouTubeIInv, YouTubeTypes
<1>4. GrantsAreHeldOnce'
    <2>1. ASSUME NEW w \in YouTubeWorkers, process[w] # NoRequest
          PROVE  process[w].grant <= issued /\ child'[process[w].grant] \in ChildOf(process[w])
        <3>1. process[w].stage # "idle"
            BY <2>1, AttemptIs DEF YouTubeIInv, YouTubeTypes
        <3>2. /\ process[w] \in Attempt /\ process[w].grant \in Grants
              /\ process[w].grant <= issued
              /\ child[process[w].grant] \in ChildOf(process[w])
            BY <3>1, BusyIsAttempt
        <3>3. "running" \in ChildOf(process[w]) => "exited" \in ChildOf(process[w])
            BY <3>2, AttemptIs DEF ChildOf
        <3> QED BY <1>1, <1>2, <3>2, <3>3
    <2>2. \A h \in Grants : h > issued => child'[h] = "none"
        BY <1>1, <1>2 DEF YouTubeIInv, GrantsAreHeldOnce
    <2> QED BY <1>1, <2>1, <2>2 DEF YouTubeIInv, GrantsAreHeldOnce
<1>5. RunsInTime'
    <2>1. \A h \in Grants : child'[h] = "running" => child[h] = "running"
        BY <1>2
    <2> QED BY <1>1, <2>1 DEF YouTubeIInv, RunsInTime
<1> QED BY <1>1, <1>3, <1>4, <1>5 DEF YouTubeIInv, NoStraySignal, AnswerCompletes

\* What the cutoff leaves of a parsed answer is short enough and has no id
\* twice; only its oldest dates can stand in the way.
LEMMA FitCompletes ==
    ASSUME NEW n \in 0..MaxItems, NEW items \in [1..n -> Items], Parsed(items)
    PROVE  /\ Fit(items) \in Answer
           /\ \/ Completable(Fit(items))
              \/ \E i \in DOMAIN Fit(items) : Fit(items)[i].published = "early"
<1> USE YouTubeAssumption
<1> DEFINE kept == {i \in DOMAIN items : items[i].published # "ahead"}
           fit == Fit(items)
<1>1. DOMAIN items = 1..n /\ kept \subseteq 1..n
    OBVIOUS
<1>2. fit = [i \in kept |-> items[i]]
    BY DEF Fit, Restrict
<1> HIDE DEF fit
<1>3. DOMAIN fit = kept /\ \A i \in kept : fit[i] = items[i] /\ items[i] \in Items
    BY <1>1, <1>2
<1>4. fit \in Answer
    <2>1. kept \in SUBSET (1..MaxItems)
        BY <1>1
    <2>2. fit \in [kept -> Items]
        BY <1>2, <1>3
    <2> HIDE DEF kept
    <2> QED BY <2>1, <2>2 DEF Answer
<1>5. Cardinality(kept) <= MaxItems
    <2>1. IsFiniteSet(1..n) /\ Cardinality(1..n) = n
        BY FS_Interval
    <2>2. IsFiniteSet(kept) /\ Cardinality(kept) <= Cardinality(1..n)
        BY <1>1, <2>1, FS_Subset
    <2>3. Cardinality(kept) \in Nat
        BY <2>2, FS_CardinalityType
    <2> QED BY <2>1, <2>2, <2>3
<1>6. \A i, j \in kept : fit[i].id = fit[j].id => i = j
    BY <1>1, <1>3 DEF Parsed
<1>7. \A i \in kept : fit[i].published \in {"early", "past"}
    BY <1>3
<1>8. Completable(fit) \/ \E i \in DOMAIN fit : fit[i].published = "early"
    <2> HIDE DEF kept
    <2> QED BY <1>3, <1>5, <1>6, <1>7 DEF Completable
<1> QED BY <1>4, <1>8 DEF fit

LEMMA DrainedKeeps ==
    ASSUME YouTubeIInv, NEW w \in YouTubeWorkers, Drained(w)
    PROVE  YouTubeIInv'
<1> DEFINE g == process[w].grant
<1>1. process[w].stage # "idle" /\ g \in Grants
    BY BusyIsAttempt DEF Drained
<1>2. /\ child' = [child EXCEPT ![g] = "reaped"] /\ stray' = stray
      /\ UNCHANGED <<youtubeNow, grant, until, issued, started, late>>
    BY DEF Drained
<1>3. CASE process' = [process EXCEPT ![w] = [stage |-> "failed", grant |-> g]]
    <2> DEFINE p == [stage |-> "failed", grant |-> g]
    <2>1. p \in Attempt /\ p.stage = "failed" /\ p.grant = g
        BY <1>1 DEF Attempt
    <2>2. process' = [process EXCEPT ![w] = p]
        BY <1>3
    <2> HIDE DEF p
    <2>3. Acceptable(p) /\ "reaped" \in ChildOf(p)
        BY <2>1 DEF Acceptable, ChildOf
    <2> QED BY <1>1, <1>2, <2>1, <2>2, <2>3, AttemptGoesOnQuietly
<1>4. ASSUME NEW n \in 0..MaxItems, NEW items \in [1..n -> Items], Parsed(items),
             process' = [process EXCEPT ![w] =
                            [stage |-> "answered", grant |-> g, items |-> Fit(items)]]
      PROVE  YouTubeIInv'
    <2> DEFINE p == [stage |-> "answered", grant |-> g, items |-> Fit(items)]
    <2>1. /\ Fit(items) \in Answer
          /\ \/ Completable(Fit(items))
             \/ \E i \in DOMAIN Fit(items) : Fit(items)[i].published = "early"
        BY <1>4, FitCompletes
    <2>2. p \in Attempt /\ p.stage = "answered" /\ p.grant = g /\ p.items = Fit(items)
        BY <1>1, <2>1 DEF Attempt
    <2>3. process' = [process EXCEPT ![w] = p]
        BY <1>4
    <2> HIDE DEF p
    <2>4. Acceptable(p) /\ "reaped" \in ChildOf(p)
        BY <2>1, <2>2 DEF Acceptable, ChildOf
    <2> QED BY <1>1, <1>2, <2>2, <2>3, <2>4, AttemptGoesOnQuietly
<1> QED BY <1>3, <1>4 DEF Drained

\* A shutdown may hide that the wait has collected curl.
LEMMA OversteppedKeeps ==
    ASSUME YouTubeIInv, NEW w \in YouTubeWorkers, NEW stop \in BOOLEAN, Overstepped(w, stop)
    PROVE  YouTubeIInv'
<1> DEFINE g == process[w].grant
           p == [stage |-> "reaping", grant |-> g, left |-> ReapAttempts, stop |-> stop]
<1>1. /\ process[w].stage # "idle" /\ g \in Grants
      /\ child[g] \in ChildOf(process[w]) /\ process[w].stage = "draining"
    BY BusyIsAttempt DEF Overstepped
<1>2. p \in Attempt /\ p.stage = "reaping" /\ p.grant = g
    <2>1. ReapAttempts \in 1..ReapAttempts
        BY YouTubeAssumption
    <2> QED BY <1>1, <2>1 DEF Attempt
<1>3. process' = [process EXCEPT ![w] = p] /\ stray' = stray
      /\ UNCHANGED <<youtubeNow, grant, until, issued, started, late>>
    BY DEF Overstepped
<1> HIDE DEF p
<1>4. Acceptable(p) /\ ChildOf(p) = {"running", "exited", "lost"} /\ child[g] \in {"running", "exited"}
    BY <1>1, <1>2 DEF Acceptable, ChildOf
<1>5. child \in [Grants -> {"none", "running", "exited", "lost", "reaped"}]
    BY DEF YouTubeIInv, YouTubeTypes
<1>6. CASE child' = child
    <2>1. child' = [child EXCEPT ![p.grant] = child[g]]
        BY <1>2, <1>5, <1>6
    <2> QED BY <1>1, <1>2, <1>3, <1>4, <2>1, AttemptGoesOnQuietly
<1>7. CASE child' = [child EXCEPT ![g] = "lost"]
    <2>1. child' = [child EXCEPT ![p.grant] = "lost"]
        BY <1>2, <1>7
    <2> QED BY <1>1, <1>2, <1>3, <1>4, <2>1, AttemptGoesOnQuietly
<1> QED BY <1>6, <1>7 DEF Overstepped

\* Only a round that knows curl is collected, or finds it so, ends well; no
\* round signals the number of a child that an earlier one has collected.
LEMMA ReapRoundKeeps ==
    ASSUME YouTubeIInv, NEW w \in YouTubeWorkers, ReapRound(w)
    PROVE  YouTubeIInv'
<1> USE YouTubeAssumption
<1> DEFINE p == process[w]
           g == p.grant
<1>1. /\ p.stage # "idle" /\ p.stage = "reaping" /\ g \in Grants
      /\ p \in [stage : {"reaping"}, grant : Grants, left : 1..ReapAttempts, stop : BOOLEAN]
      /\ child[g] \in {"running", "exited", "lost"}
    <2>1. p.stage = "reaping" /\ p \in Attempt /\ child[g] \in ChildOf(p)
        BY BusyIsAttempt DEF ReapRound
    <2>2. ChildOf(p) = {"running", "exited", "lost"}
        BY <2>1 DEF ChildOf
    <2> QED BY <2>1, <2>2, AttemptIs
<1>2. PICK hit \in {"none", "poll", "wait"}, c \in {"running", "exited", "lost", "reaped"} :
          LET killed == hit # "poll" /\ ~Known(p, hit)
              q == [p EXCEPT !.left = @ - 1, !.stop = @ \/ hit # "none"]
          IN  /\ Known(p, hit) => c = "reaped"
              /\ hit = "poll" => c = child[g] \/ (child[g] = "exited" /\ c = "lost")
              /\ killed /\ child[g] = "lost" => c = "lost"
              /\ killed /\ child[g] # "lost" /\ hit = "none" => c \in {"running", "reaped"}
              /\ child' = [child EXCEPT ![g] = c]
              /\ stray' = (stray \/ (killed /\ child[g] = "lost"))
              /\ process' = [process EXCEPT ![w] =
                    IF c = "reaped" \/ q.left = 0 THEN AfterReap(q, c) ELSE q]
    BY DEF ReapRound
<1> DEFINE left == p.left - 1
           stop == p.stop \/ hit # "none"
           q == [p EXCEPT !.left = left, !.stop = stop]
           r == IF c = "reaped" \/ q.left = 0 THEN AfterReap(q, c) ELSE q
<1>3. child' = [child EXCEPT ![g] = c] /\ process' = [process EXCEPT ![w] = r]
    BY <1>2
<1>4. /\ q.stage = "reaping" /\ q.grant = g /\ q.stop \in BOOLEAN
      /\ q.left # 0 =>
            q \in [stage : {"reaping"}, grant : Grants, left : 1..ReapAttempts, stop : BOOLEAN]
    <2>1. left \in 0..ReapAttempts /\ (left # 0 => left \in 1..ReapAttempts) /\ stop \in BOOLEAN
        BY <1>1
    <2> HIDE DEF left, stop
    <2> QED BY <1>1, <2>1
<1> HIDE DEF q
<1>5. /\ r \in Attempt /\ r.grant = g /\ r.stage \in {"failed", "fatal", "reaping"}
      /\ r.stage = "failed" => c = "reaped"
      /\ r.stage = "reaping" => c # "reaped"
    <2>1. CASE c = "reaped" \/ q.left = 0
        <3>1. AfterReap(q, c) = [stage |-> IF q.stop \/ c # "reaped" THEN "fatal" ELSE "failed",
                                 grant |-> g]
            BY <1>4 DEF AfterReap
        <3> QED BY <1>1, <2>1, <3>1 DEF Attempt
    <2>2. CASE ~(c = "reaped" \/ q.left = 0)
        BY <1>4, <2>2 DEF Attempt
    <2> QED BY <2>1, <2>2
<1> HIDE DEF r
<1>6. Acceptable(r) /\ c \in ChildOf(r)
    BY <1>5 DEF Acceptable, ChildOf
<1>7. c = "running" => child[g] = "running"
    BY <1>1, <1>2 DEF Known
<1>8. stray' = stray
    BY <1>1, <1>2 DEF Known, YouTubeIInv, YouTubeTypes
<1>9. UNCHANGED <<youtubeNow, grant, until, issued, started, late>>
    BY DEF ReapRound
<1> QED BY <1>1, <1>3, <1>5, <1>6, <1>7, <1>8, <1>9, AttemptGoesOnQuietly

\* A worker that reports has collected its curl, so the gate it gives back
\* covers nothing.
LEMMA ReportKeeps ==
    ASSUME YouTubeIInv, NEW w \in YouTubeWorkers, Report(w)
    PROVE  YouTubeIInv'
<1> DEFINE g == process[w].grant
<1>1. g \in Grants /\ child[g] = "reaped"
    <2>1. process[w].stage \in {"failed", "answered"}
        BY DEF Report
    <2> QED BY <2>1, BusyIsAttempt DEF ChildOf
<1>2. /\ process' = [process EXCEPT ![w] = NoRequest]
      /\ youtubeNow' = youtubeNow /\ issued' = issued /\ child' = child /\ started' = started
      /\ late' = late /\ stray' = stray
      /\ \/ grant' = grant /\ until' = until
         \/ grant = g /\ grant' = 0 /\ until' = 0
    BY DEF Report, Owns
<1>3. /\ process' \in [YouTubeWorkers -> Attempt \cup {NoRequest}]
      /\ GrantsAreHeldOnce' /\ AnswerCompletes'
    BY <1>2, AttemptEnds
<1>4. YouTubeTypes'
    BY <1>2, <1>3 DEF YouTubeIInv, YouTubeTypes
<1>5. RunsInTime'
    BY <1>1, <1>2 DEF YouTubeIInv, RunsInTime
<1> QED BY <1>2, <1>3, <1>4, <1>5 DEF YouTubeIInv, NoStraySignal

LEMMA DiesKeeps ==
    ASSUME YouTubeIInv, NEW w \in YouTubeWorkers, Dies(w)
    PROVE  YouTubeIInv'
<1>1. /\ process' = [process EXCEPT ![w] = NoRequest]
      /\ youtubeNow' = youtubeNow /\ issued' = issued /\ child' = child /\ started' = started
      /\ late' = late /\ stray' = stray /\ grant' = grant /\ until' = until
    BY DEF Dies
<1>2. /\ process' \in [YouTubeWorkers -> Attempt \cup {NoRequest}]
      /\ GrantsAreHeldOnce' /\ AnswerCompletes'
    BY <1>1, AttemptEnds
<1> QED BY <1>1, <1>2 DEF YouTubeIInv, YouTubeTypes, RunsInTime, NoStraySignal

\* The clock does not outrun a running curl.
LEMMA YouTubeTickKeeps ==
    ASSUME YouTubeIInv, YouTubeTick
    PROVE  YouTubeIInv'
<1> USE YouTubeAssumption
<1>1. /\ youtubeNow' = youtubeNow + 1 /\ youtubeNow' \in 0..YouTubeEnd
      /\ grant' = grant /\ until' = until /\ issued' = issued /\ process' = process
      /\ child' = child /\ started' = started /\ late' = late /\ stray' = stray
    BY DEF YouTubeTick, YouTubeIInv, YouTubeTypes
<1>2. RunsInTime'
    <2> SUFFICES ASSUME NEW g \in Grants, child[g] = "running", g \notin late
                 PROVE  grant = g /\ started[g] + Transfer < until
                        /\ youtubeNow' <= started[g] + Transfer
        BY <1>1 DEF RunsInTime
    <2>1. youtubeNow < started[g] + Transfer /\ started[g] \in Nat /\ youtubeNow \in Nat
        BY DEF YouTubeTick, YouTubeIInv, YouTubeTypes
    <2> QED BY <1>1, <2>1 DEF YouTubeIInv, RunsInTime
<1>3. YouTubeTypes'
    BY <1>1 DEF YouTubeIInv, YouTubeTypes
<1> QED BY <1>1, <1>2, <1>3
        DEF YouTubeIInv, GrantsAreHeldOnce, NoStraySignal, AnswerCompletes

(* Whatever workers die, sleep, overstep or are interrupted while they     *)
(* collect their curl: a request that may still run holds the gate unless  *)
(* it was started too late, no signal goes to a number that may be another *)
(* process's, and an accepted answer can be completed.                     *)
THEOREM RequestsAreContained == YouTubeSpec => []YouTubeInv
<1>1. YouTubeIInv /\ [YouTubeNext]_youtubeVars => YouTubeIInv'
    <2> SUFFICES ASSUME YouTubeIInv, [YouTubeNext]_youtubeVars PROVE YouTubeIInv'
        OBVIOUS
    <2>1. CASE UNCHANGED youtubeVars
        BY <2>1 DEF youtubeVars, YouTubeIInv, YouTubeTypes, GrantsAreHeldOnce, RunsInTime,
                    NoStraySignal, AnswerCompletes
    <2> QED BY <2>1, YouTubeBeginKeeps, YouTubeHeartbeatKeeps, StartCurlKeeps, CurlExitsKeeps,
               DrainedKeeps, OversteppedKeeps, ReapRoundKeeps, ReportKeeps, DiesKeeps,
               YouTubeTickKeeps DEF YouTubeNext
<1>2. YouTubeIInv => YouTubeInv
    <2> SUFFICES ASSUME YouTubeIInv PROVE YouTubeInv
        OBVIOUS
    <2>1. YouTubeTypeOK
        <3>1. ASSUME NEW w \in YouTubeWorkers, process[w] # NoRequest
              PROVE  \/ process[w] \in [stage : {"granted", "draining", "failed", "fatal"},
                                        grant : Grants]
                     \/ process[w] \in [stage : {"reaping"}, grant : Grants,
                                        left : 0..ReapAttempts, stop : BOOLEAN]
                     \/ process[w] \in [stage : {"answered"}, grant : Grants, items : Answer]
            <4>1. process[w] \in Attempt /\ 1..ReapAttempts \subseteq 0..ReapAttempts
                BY <3>1, YouTubeAssumption DEF YouTubeIInv, YouTubeTypes
            <4> QED BY <4>1 DEF Attempt
        <3> QED BY <3>1 DEF YouTubeIInv, YouTubeTypes, YouTubeTypeOK, Answer
    <2>2. RunningRequestHoldsGate
        <3> SUFFICES ASSUME NEW g \in Grants, child[g] = "running", g \notin late
                     PROVE  Owns(g)
            BY DEF RunningRequestHoldsGate
        <3>1. started[g] \in Nat /\ youtubeNow \in Nat /\ until \in Nat /\ Transfer \in Nat
            BY YouTubeAssumption DEF YouTubeIInv, YouTubeTypes
        <3> QED BY <3>1 DEF YouTubeIInv, RunsInTime, Owns
    <2> QED BY <2>1, <2>2 DEF YouTubeIInv, YouTubeInv
<1> QED BY <1>1, <1>2, YouTubeInitial, PTL DEF YouTubeSpec
-------------------------------------------------------------------------------
(* Openings.  Beside what the row, its trail and the observations say of   *)
(* each other: a review under way was shown a revision that the row had at *)
(* the time it claims, so that a trail is in order whenever the fence lets *)
(* the review through.                                                     *)

Submission ==
    [state : OpenStates \cup Verdicts, revision : 1..3, envelope : Envelopes, expires : Nat]
Entry == [from : OpenStates \cup {"none"}, to : OpenStates \cup Verdicts, at : 0..OpeningEnd,
          by : Logins]
Call == [key : OpeningKeys, revision : 1..3, target : Asked, since : 0..openingClock]

OpeningTypes ==
    /\ openingClock \in 0..OpeningEnd
    /\ submissions \in [OpeningKeys -> Submission \cup {NoSubmission}]
    /\ history \in [OpeningKeys -> Seq(Entry)]
    /\ observations \subseteq OpeningKeys /\ acknowledged \subseteq Envelopes
    /\ retractions \in [OpeningKeys -> Reasons \cup {NotRetracted}]
    /\ calls \in [Logins -> Call \cup {NoCall}]

Stored(k) == submissions[k] # NoSubmission
LastEntry(h) == h[Len(h)]

\* A row is what its envelope allows, and its state tells its revision unless
\* it is closed.
RowsAreSound ==
    \A k \in OpeningKeys : Stored(k) =>
        /\ submissions[k].envelope.key = k
        /\ submissions[k].envelope.hits <= submissions[k].envelope.packs
        /\ submissions[k].state = "queued" => submissions[k].revision = 1
        /\ submissions[k].state = "in_review" => submissions[k].revision = 2

OneRowPerEvidence ==
    \A j, k \in OpeningKeys : Stored(j) /\ Stored(k) /\ j # k =>
        submissions[j].envelope.evidence # submissions[k].envelope.evidence

\* Nothing is recorded ahead of time or by a login without the capability.
TrailsAreAttested ==
    \A k \in OpeningKeys : \A i \in 1..Len(history[k]) :
        /\ history[k][i].at <= openingClock
        /\ Attested(history[k][i].by, IF i = 1 THEN "submitter" ELSE "reviewer")

CallsAreFenced ==
    \A l \in Logins : calls[l] # NoCall =>
        LET call == calls[l]  k == call.key
        IN  /\ Attested(l, "reviewer") /\ Stored(k) /\ call.revision <= submissions[k].revision
            /\ call.revision = submissions[k].revision => LastEntry(history[k]).at <= call.since

OpeningIInv ==
    /\ OpeningTypes /\ RowsAreSound /\ OneRowPerEvidence /\ TrailsAreAttested /\ CallsAreFenced
    /\ OpeningCountsOnce /\ HistoryExplains /\ LateMeansExpired /\ AcknowledgedIsStored

LEMMA CallOrNone ==
    /\ \A c \in Call : c # NoCall /\ c.key \in OpeningKeys /\ c.revision \in 1..3
                         /\ c.since \in 0..openingClock
    /\ \A s \in Submission : s # NoSubmission
BY DEF Call, NoCall, Submission, NoSubmission

LEMMA RowIs ==
    ASSUME OpeningIInv, NEW k \in OpeningKeys
    PROVE  /\ submissions[k].revision \in 0..3 /\ Len(history[k]) = submissions[k].revision
           /\ submissions[k].state \in OpenStates \cup Verdicts => Stored(k)
           /\ Stored(k) => submissions[k] \in Submission /\ submissions[k].revision \in 1..3
           /\ ~Stored(k) => submissions[k].state = "none" /\ submissions[k].revision = 0
<1>1. Len(history[k]) = submissions[k].revision
    BY DEF OpeningIInv, HistoryExplains
<1>2. NoSubmission.state = "none" /\ NoSubmission.revision = 0
    BY DEF NoSubmission
<1>3. submissions[k] \in Submission \cup {NoSubmission}
    BY DEF OpeningIInv, OpeningTypes
<1> QED BY <1>1, <1>2, <1>3 DEF Stored, Submission, OpenStates, Verdicts

LEMMA OpeningInitial == OpeningInit => OpeningIInv
<1> SUFFICES ASSUME OpeningInit PROVE OpeningIInv
    OBVIOUS
<1> USE OpeningAssumption
<1>1. \A k \in OpeningKeys : submissions[k] = NoSubmission /\ history[k] = << >>
    BY DEF OpeningInit
<1>2. NoSubmission.state = "none" /\ NoSubmission.revision = 0
    BY DEF NoSubmission
<1>3. OpeningTypes
    BY DEF OpeningInit, OpeningTypes
<1>4. RowsAreSound /\ OneRowPerEvidence /\ TrailsAreAttested /\ CallsAreFenced
    BY <1>1 DEF OpeningInit, RowsAreSound, OneRowPerEvidence, TrailsAreAttested, CallsAreFenced,
                Stored
<1>5. OpeningCountsOnce /\ HistoryExplains /\ LateMeansExpired /\ AcknowledgedIsStored
    BY <1>1, <1>2 DEF OpeningInit, OpeningCountsOnce, HistoryExplains, LateMeansExpired,
                      AcknowledgedIsStored
<1> QED BY <1>3, <1>4, <1>5 DEF OpeningIInv

\* An event goes to the end of its row's trail.
Extended(g, h, from, to, at, l) ==
    /\ Len(h) \in Nat /\ Len(g) = Len(h) + 1 /\ \A i \in 1..Len(h) : g[i] = h[i]
    /\ g[Len(g)].from = from /\ g[Len(g)].to = to /\ g[Len(g)].at = at /\ g[Len(g)].by = l

LEMMA EventEntersTrail ==
    ASSUME history \in [OpeningKeys -> Seq(Entry)], NEW k \in OpeningKeys,
           NEW from \in OpenStates \cup {"none"}, NEW to \in OpenStates \cup Verdicts,
           NEW at \in 0..OpeningEnd, NEW l \in Logins, Event(k, from, to, at, l)
    PROVE  /\ history' \in [OpeningKeys -> Seq(Entry)]
           /\ \A j \in OpeningKeys \ {k} : history'[j] = history[j]
           /\ Extended(history'[k], history[k], from, to, at, l)
<1> DEFINE e == [from |-> from, to |-> to, at |-> at, by |-> l]
<1>1. e \in Entry /\ e.from = from /\ e.to = to /\ e.at = at /\ e.by = l
    BY DEF Entry
<1>2. history' = [history EXCEPT ![k] = Append(history[k], e)]
    BY DEF Event
<1> HIDE DEF e
<1>3. history[k] \in Seq(Entry) /\ history'[k] = Append(history[k], e)
    BY <1>2
<1>4. Append(history[k], e) \in Seq(Entry)
    BY <1>1, <1>3
<1>5. history' \in [OpeningKeys -> Seq(Entry)]
    BY <1>2, <1>4
<1>6. /\ Len(history[k]) \in Nat /\ Len(history'[k]) = Len(history[k]) + 1
      /\ \A i \in 1..Len(history[k]) : history'[k][i] = history[k][i]
      /\ history'[k][Len(history'[k])] = e
    BY <1>1, <1>3
<1> QED BY <1>1, <1>2, <1>5, <1>6 DEF Extended

\* Nothing of the rows and trails changes.
LEMMA RowsStay ==
    ASSUME OpeningIInv, OpeningTypes', CallsAreFenced', openingClock <= openingClock',
           UNCHANGED <<submissions, history, observations>>, AcknowledgedIsStored'
    PROVE  OpeningIInv'
<1>1. submissions' = submissions /\ history' = history /\ observations' = observations
    OBVIOUS
<1>2. openingClock \in Nat /\ openingClock' \in Nat
    BY OpeningAssumption DEF OpeningIInv, OpeningTypes
<1>3. ASSUME NEW k \in OpeningKeys, NEW i \in 1..Len(history[k]) PROVE history[k][i].at \in Nat
    <2>1. history[k] \in Seq(Entry)
        BY DEF OpeningIInv, OpeningTypes
    <2>2. history[k][i] \in Entry
        BY <2>1
    <2> QED BY <2>2, OpeningAssumption DEF Entry
<1>4. TrailsAreAttested'
    <2>1. ASSUME NEW k \in OpeningKeys, NEW i \in 1..Len(history[k])
          PROVE  /\ history[k][i].at <= openingClock'
                 /\ Attested(history[k][i].by, IF i = 1 THEN "submitter" ELSE "reviewer")
        <3>1. /\ history[k][i].at <= openingClock
              /\ Attested(history[k][i].by, IF i = 1 THEN "submitter" ELSE "reviewer")
            BY DEF OpeningIInv, TrailsAreAttested
        <3>2. history[k][i].at \in Nat
            BY <1>3
        <3> QED BY <1>2, <3>1, <3>2
    <2> QED BY <1>1, <2>1 DEF TrailsAreAttested, Attested, Pinned
<1>5. RowsAreSound' /\ OneRowPerEvidence'
    BY <1>1 DEF OpeningIInv, RowsAreSound, OneRowPerEvidence, Stored
<1>6. OpeningCountsOnce' /\ HistoryExplains' /\ LateMeansExpired'
    BY <1>1 DEF OpeningIInv, OpeningCountsOnce, HistoryExplains, LateMeansExpired, Fact
<1> QED BY <1>4, <1>5, <1>6 DEF OpeningIInv

\* A call ends, or is still the one it was.
LEMMA CallsEnd ==
    ASSUME OpeningIInv, NEW l \in Logins, Answered(l), openingClock' = openingClock
    PROVE  /\ calls' \in [Logins -> Call' \cup {NoCall}]
           /\ \A m \in Logins : calls'[m] = calls[m] \/ calls'[m] = NoCall
<1>1. Call' = Call /\ calls \in [Logins -> Call \cup {NoCall}]
    BY DEF Call, OpeningIInv, OpeningTypes
<1> QED BY <1>1 DEF Answered, Replied

LEMMA CallsEndFenced ==
    ASSUME OpeningIInv, UNCHANGED <<submissions, history>>,
           \A m \in Logins : calls'[m] = calls[m] \/ calls'[m] = NoCall
    PROVE  CallsAreFenced'
BY DEF OpeningIInv, CallsAreFenced, Stored, Attested, Pinned, LastEntry

\* The row is new under its key and its evidence, or the very one.
LEMMA SubmitKeeps ==
    ASSUME OpeningIInv, NEW l \in Logins, NEW e \in Envelopes, Submit(l, e)
    PROVE  OpeningIInv'
<1> USE OpeningAssumption
<1> DEFINE k == e.key
<1>1. k \in OpeningKeys /\ Attested(l, "submitter") /\ e.hits <= e.packs
    BY DEF Submit, Canonical
<1>2. /\ openingClock' = openingClock /\ observations' = observations
      /\ retractions' = retractions /\ calls' = calls
      /\ acknowledged' \subseteq acknowledged \cup {e}
    BY DEF Submit
<1>3. openingClock \in 0..OpeningEnd /\ openingClock \in Nat
    BY DEF OpeningIInv, OpeningTypes
<1> HIDE DEF k
<1>4. CASE SamePayload(e) /\ UNCHANGED <<submissions, history>>
    <2>1. AcknowledgedIsStored'
        BY <1>2, <1>4 DEF k, SamePayload, OpeningIInv, AcknowledgedIsStored
    <2>2. CallsAreFenced'
        BY <1>2, <1>4, CallsEndFenced
    <2>3. OpeningTypes'
        BY <1>2, <1>4 DEF OpeningIInv, OpeningTypes, Call
    <2> QED BY <1>2, <1>3, <1>4, <2>1, <2>2, <2>3, RowsStay
<1>5. CASE /\ submissions[k] = NoSubmission /\ ~Taken(e)
           /\ submissions' = [submissions EXCEPT ![k] =
                 [state |-> "queued", revision |-> 1, envelope |-> e,
                  expires |-> openingClock + ExpireAfter]]
           /\ Event(k, "none", "queued", openingClock, l)
    <2> DEFINE row == [state |-> "queued", revision |-> 1, envelope |-> e,
                       expires |-> openingClock + ExpireAfter]
    <2>1. /\ row \in Submission /\ row.state = "queued" /\ row.revision = 1 /\ row.envelope = e
        <3>1. openingClock + ExpireAfter \in Nat
            BY <1>3
        <3> QED BY <3>1 DEF Submission, OpenStates
    <2>2. submissions' = [submissions EXCEPT ![k] = row]
        BY <1>5
    <2> HIDE DEF row
    <2>3. /\ submissions' \in [OpeningKeys -> Submission \cup {NoSubmission}]
          /\ submissions'[k] = row /\ \A j \in OpeningKeys \ {k} : submissions'[j] = submissions[j]
        BY <1>1, <2>1, <2>2 DEF OpeningIInv, OpeningTypes
    <2>4. Len(history[k]) = 0 /\ ~Stored(k)
        BY <1>1, <1>5, RowIs DEF Stored
    <2>5. /\ history' \in [OpeningKeys -> Seq(Entry)]
          /\ \A j \in OpeningKeys \ {k} : history'[j] = history[j]
          /\ Len(history'[k]) = 1
          /\ history'[k][1].from = "none" /\ history'[k][1].to = "queued"
          /\ history'[k][1].at = openingClock /\ history'[k][1].by = l
        <3>1. "none" \in OpenStates \cup {"none"} /\ "queued" \in OpenStates \cup Verdicts
            BY DEF OpenStates
        <3>2. history \in [OpeningKeys -> Seq(Entry)]
            BY DEF OpeningIInv, OpeningTypes
        <3>3. /\ history' \in [OpeningKeys -> Seq(Entry)]
              /\ \A j \in OpeningKeys \ {k} : history'[j] = history[j]
              /\ Extended(history'[k], history[k], "none", "queued", openingClock, l)
            BY <1>1, <1>3, <1>5, <3>1, <3>2, EventEntersTrail
        <3> QED BY <2>4, <3>3 DEF Extended
    <2>6. row # NoSubmission
        BY <2>1, CallOrNone
    <2>7. RowsAreSound'
        BY <1>1, <2>1, <2>3 DEF k, OpeningIInv, RowsAreSound, Stored
    <2>8. OneRowPerEvidence'
        <3>1. \A j \in OpeningKeys \ {k} : Stored(j) => submissions[j].envelope.evidence # e.evidence
            BY <1>5 DEF Taken, Stored
        <3> QED BY <1>1, <2>1, <2>3, <3>1 DEF OpeningIInv, OneRowPerEvidence, Stored
    <2>9. TrailsAreAttested'
        <3> SUFFICES ASSUME NEW j \in OpeningKeys, NEW i \in 1..Len(history'[j])
                     PROVE  /\ history'[j][i].at <= openingClock
                            /\ Attested(history'[j][i].by, IF i = 1 THEN "submitter" ELSE "reviewer")
            BY <1>2 DEF TrailsAreAttested, Attested, Pinned
        <3>1. CASE j = k
            <4>1. i \in 1..1
                BY <2>5, <3>1
            <4> QED BY <1>1, <1>3, <2>5, <3>1, <4>1
        <3>2. CASE j # k
            BY <2>5, <3>2 DEF OpeningIInv, TrailsAreAttested
        <3> QED BY <3>1, <3>2
    <2>10. CallsAreFenced'
        BY <1>1, <1>2, <2>3, <2>4, <2>5, CallOrNone
        DEF OpeningIInv, OpeningTypes, CallsAreFenced, Stored, LastEntry, Attested, Pinned
    <2>11. OpeningCountsOnce'
        <3>1. submissions[k].state # "accepted_statistics"
            BY <1>5 DEF NoSubmission
        <3> QED BY <1>1, <1>2, <2>1, <2>3, <3>1 DEF OpeningIInv, OpeningCountsOnce, Fact
    <2>12. HistoryExplains' /\ LateMeansExpired'
        <3>1. \A j \in OpeningKeys \ {k} :
                 submissions'[j] = submissions[j] /\ history'[j] = history[j]
            BY <2>3, <2>5
        <3>2. history'[k] # << >>
            BY <2>5
        <3>3. HistoryExplains'
            <4> SUFFICES ASSUME NEW j \in OpeningKeys
                         PROVE  LET h == history'[j] IN
                                /\ Len(h) = submissions'[j].revision
                                /\ h # << >> => h[1].from = "none"
                                                /\ h[Len(h)].to = submissions'[j].state
                                /\ \A i \in 1..Len(h) - 1 :
                                      h[i].to = h[i + 1].from /\ h[i].at <= h[i + 1].at
                BY DEF HistoryExplains
            <4>1. CASE j = k
                <5>1. 1..Len(history'[k]) - 1 = {} /\ history'[k][Len(history'[k])].to = "queued"
                    BY <2>5
                <5>2. Len(history'[k]) = submissions'[k].revision /\ submissions'[k].state = "queued"
                    BY <2>1, <2>3, <2>5
                <5> QED BY <2>5, <3>2, <4>1, <5>1, <5>2, Zenon
            <4>2. CASE j # k
                BY <3>1, <4>2 DEF OpeningIInv, HistoryExplains
            <4> QED BY <4>1, <4>2
        <3>4. LateMeansExpired'
            BY <2>5, <3>1 DEF OpeningIInv, LateMeansExpired
        <3> QED BY <3>3, <3>4
    <2>13. AcknowledgedIsStored'
        BY <1>2, <1>5, <2>1, <2>3, <2>6 DEF k, OpeningIInv, OpeningTypes, AcknowledgedIsStored
    <2>14. OpeningTypes'
        BY <1>2, <2>3, <2>5 DEF OpeningIInv, OpeningTypes, Call
    <2> QED BY <2>7, <2>8, <2>9, <2>10, <2>11, <2>12, <2>13, <2>14 DEF OpeningIInv
<1> QED BY <1>4, <1>5 DEF Submit, k

LEMMA BeginReviewKeeps ==
    ASSUME OpeningIInv, NEW l \in Logins, NEW k \in OpeningKeys, NEW target \in Asked,
           BeginReview(l, k, target)
    PROVE  OpeningIInv'
<1> USE OpeningAssumption
<1> DEFINE call == [key |-> k, revision |-> submissions[k].revision, target |-> target,
                    since |-> openingClock]
<1>1. Stored(k) /\ submissions[k].revision \in 1..3 /\ Len(history[k]) = submissions[k].revision
    BY RowIs DEF BeginReview
<1>2. openingClock \in Nat
    BY DEF OpeningIInv, OpeningTypes
<1>3. /\ call \in Call /\ call.key = k /\ call.revision = submissions[k].revision
      /\ call.since = openingClock
    BY <1>1, <1>2 DEF Call
<1>4. /\ calls' = [calls EXCEPT ![l] = call] /\ Attested(l, "reviewer")
      /\ openingClock' = openingClock /\ submissions' = submissions /\ history' = history
      /\ observations' = observations /\ retractions' = retractions
      /\ acknowledged' = acknowledged
    BY DEF BeginReview
<1> HIDE DEF call
<1>5. /\ calls' \in [Logins -> Call \cup {NoCall}] /\ calls'[l] = call
      /\ \A m \in Logins \ {l} : calls'[m] = calls[m]
    BY <1>3, <1>4 DEF OpeningIInv, OpeningTypes
<1>6. CallsAreFenced'
    <2>1. LastEntry(history[k]).at <= openingClock
        BY <1>1 DEF OpeningIInv, TrailsAreAttested, LastEntry
    <2> QED BY <1>1, <1>3, <1>4, <1>5, <2>1
            DEF OpeningIInv, CallsAreFenced, Stored, Attested, Pinned, LastEntry
<1>7. OpeningTypes'
    BY <1>4, <1>5 DEF OpeningIInv, OpeningTypes, Call
<1>8. AcknowledgedIsStored'
    BY <1>4 DEF OpeningIInv, AcknowledgedIsStored
<1> QED BY <1>2, <1>4, <1>6, <1>7, <1>8, RowsStay

\* A decision that the fence and the state let through.  The reviewer was
\* shown this very revision, so its last event is no later than the time the
\* review claims; and an opening that was recorded before is not recorded
\* again.
LEMMA DecisionKeeps ==
    ASSUME OpeningIInv, NEW l \in Logins, calls[l] # NoCall,
           NEW at \in calls[l].since..openingClock, NEW k \in OpeningKeys, k = calls[l].key,
           Fence(k, calls[l]), NEW to \in OpenStates \cup Verdicts,
           Allowed(submissions[k].state, to), Decided(k, to, at, l),
           submissions[k].expires <= at => to = "expired",
           to # "accepted_statistics" => observations' = observations,
           to = "accepted_statistics" =>
               observations' = observations \cup {k} /\ ~Recorded(submissions[k].envelope),
           Answered(l), UNCHANGED <<openingClock, retractions, acknowledged>>
    PROVE  OpeningIInv'
<1> USE OpeningAssumption
<1> DEFINE old == submissions[k]
           next == old.revision + 1
           row == [old EXCEPT !.state = to, !.revision = next]
           h == history[k]
           g == history'[k]
<1>1. /\ old.state \in OpenStates /\ old.state \in OpenStates \cup Verdicts
      /\ old.state \in OpenStates \cup {"none"} /\ old.state # "accepted_statistics"
      /\ to = "in_review" => old.state = "queued"
      /\ to # "queued"
    BY DEF Allowed, OpenStates, Verdicts
<1>2. /\ Stored(k) /\ old \in Submission /\ old.revision \in 1..2 /\ Len(h) = old.revision
      /\ to = "in_review" => old.revision = 1
    <2>1. Stored(k) /\ old \in Submission /\ Len(h) = old.revision
        BY <1>1, RowIs
    <2> QED BY <1>1, <2>1 DEF OpeningIInv, RowsAreSound, OpenStates
<1>3. calls[l] \in Call /\ openingClock \in 0..OpeningEnd
    BY DEF OpeningIInv, OpeningTypes
<1>4. at \in 0..OpeningEnd /\ at \in Nat /\ at <= openingClock /\ calls[l].since <= at
      /\ openingClock \in Nat /\ calls[l].since \in Nat
    BY <1>3 DEF Call
<1>5. /\ openingClock' = openingClock /\ retractions' = retractions
      /\ acknowledged' = acknowledged
    OBVIOUS
<1>6. /\ row \in Submission /\ row.state = to /\ row.revision = old.revision + 1
      /\ row.envelope = old.envelope /\ row.expires = old.expires
    <2>1. next \in 1..3 /\ next = old.revision + 1
        BY <1>2
    <2> HIDE DEF next
    <2> QED BY <1>2, <2>1 DEF Submission
<1>7. submissions' = [submissions EXCEPT ![k] = row]
    BY <1>2 DEF Decided, OpeningIInv, OpeningTypes
<1> HIDE DEF row
<1>8. /\ submissions' \in [OpeningKeys -> Submission \cup {NoSubmission}]
      /\ submissions'[k] = row /\ \A j \in OpeningKeys \ {k} : submissions'[j] = submissions[j]
    BY <1>6, <1>7 DEF OpeningIInv, OpeningTypes
<1>9. /\ history' \in [OpeningKeys -> Seq(Entry)]
      /\ \A j \in OpeningKeys \ {k} : history'[j] = history[j]
      /\ Extended(g, h, old.state, to, at, l)
    BY <1>1, <1>4, EventEntersTrail DEF Decided, OpeningIInv, OpeningTypes
<1>10. row # NoSubmission
    BY <1>6, CallOrNone
<1>11. \A j \in OpeningKeys :
          /\ Stored(j)' <=> Stored(j)
          /\ submissions'[j].envelope = submissions[j].envelope
          /\ submissions'[j].expires = submissions[j].expires
    BY <1>2, <1>6, <1>8, <1>10 DEF Stored
<1>12. RowsAreSound'
    BY <1>1, <1>2, <1>6, <1>8, <1>11 DEF OpeningIInv, RowsAreSound
<1>13. OneRowPerEvidence'
    BY <1>11 DEF OpeningIInv, OneRowPerEvidence
<1>14. TrailsAreAttested'
    <2> SUFFICES ASSUME NEW j \in OpeningKeys, NEW i \in 1..Len(history'[j])
                 PROVE  /\ history'[j][i].at <= openingClock
                        /\ Attested(history'[j][i].by, IF i = 1 THEN "submitter" ELSE "reviewer")
        BY <1>5 DEF TrailsAreAttested, Attested, Pinned
    <2>1. CASE j # k
        BY <1>9, <2>1 DEF OpeningIInv, TrailsAreAttested
    <2>2. CASE j = k /\ i \in 1..Len(h)
        BY <1>9, <2>2 DEF OpeningIInv, TrailsAreAttested, Extended
    <2>3. CASE j = k /\ i = Len(g)
        <3>1. i # 1 /\ g[i].at = at /\ g[i].by = l
            BY <1>2, <1>9, <2>3 DEF Extended
        <3>2. Attested(l, "reviewer")
            BY DEF OpeningIInv, CallsAreFenced
        <3> QED BY <1>4, <2>3, <3>1, <3>2
    <2>4. j = k => i \in 1..Len(h) \/ i = Len(g)
        BY <1>9 DEF Extended
    <2> QED BY <2>1, <2>2, <2>3, <2>4
<1>15. CallsAreFenced'
    <2> SUFFICES ASSUME NEW m \in Logins, calls'[m] # NoCall
                 PROVE  LET call == calls'[m]  j == call.key
                        IN  /\ Attested(m, "reviewer") /\ submissions'[j] # NoSubmission
                            /\ call.revision <= submissions'[j].revision
                            /\ call.revision = submissions'[j].revision =>
                                  LastEntry(history'[j]).at <= call.since
        BY DEF CallsAreFenced, Attested, Pinned, LastEntry, Stored
    <2>1. calls'[m] = calls[m]
        BY <1>5, CallsEnd
    <2>2. calls[m] \in Call /\ calls[m].key \in OpeningKeys /\ calls[m].revision \in 1..3
        BY <2>1, CallOrNone DEF OpeningIInv, OpeningTypes
    <2>3. submissions'[calls[m].key] # NoSubmission
        BY <1>11, <2>1, <2>2 DEF OpeningIInv, CallsAreFenced, Stored
    <2>4. CASE calls[m].key = k
        <3>1. calls[m].revision <= old.revision /\ Attested(m, "reviewer")
            BY <2>1, <2>4 DEF OpeningIInv, CallsAreFenced
        <3>2. calls[m].revision < submissions'[k].revision
            <4>1. submissions'[k].revision = old.revision + 1 /\ old.revision \in 1..2
                BY <1>2, <1>6, <1>8
            <4> HIDE DEF old
            <4> QED BY <2>2, <3>1, <4>1
        <3>3. submissions'[k].revision \in Nat
            BY <1>2, <1>6, <1>8
        <3> QED BY <2>1, <2>2, <2>3, <2>4, <3>1, <3>2, <3>3
    <2>5. CASE calls[m].key # k
        BY <1>8, <1>9, <2>1, <2>2, <2>3, <2>5 DEF OpeningIInv, CallsAreFenced, LastEntry
    <2> QED BY <2>4, <2>5
<1>16. OpeningCountsOnce'
    <2>1. /\ observations = {j \in OpeningKeys : submissions[j].state = "accepted_statistics"}
          /\ \A i, j \in observations : i # j =>
                /\ Fact(submissions[i].envelope) # Fact(submissions[j].envelope)
                /\ submissions[i].envelope.evidence # submissions[j].envelope.evidence
        BY DEF OpeningIInv, OpeningCountsOnce
    <2>2. observations' = {j \in OpeningKeys : submissions'[j].state = "accepted_statistics"}
        BY <1>1, <1>6, <1>8, <2>1
    <2>3. \A j \in observations : j \in OpeningKeys /\ j # k /\ Stored(j)
        BY <1>1, <2>1 DEF Stored, NoSubmission
    <2>4. ASSUME to = "accepted_statistics", NEW j \in observations
          PROVE  /\ Fact(submissions[j].envelope) # Fact(old.envelope)
                 /\ submissions[j].envelope.evidence # old.envelope.evidence
        BY <1>2, <2>3, <2>4 DEF Recorded, OpeningIInv, OneRowPerEvidence
    <2>5. ASSUME NEW i \in observations', NEW j \in observations', i # j
          PROVE  /\ Fact(submissions[i].envelope) # Fact(submissions[j].envelope)
                 /\ submissions[i].envelope.evidence # submissions[j].envelope.evidence
        BY <2>1, <2>4, <2>5
    <2>6. \A j \in observations' : submissions'[j].envelope = submissions[j].envelope
        BY <1>11, <2>2
    <2> QED BY <2>2, <2>5, <2>6 DEF OpeningCountsOnce, Fact
<1>17. HistoryExplains'
    <2> SUFFICES ASSUME NEW j \in OpeningKeys
                 PROVE  /\ Len(history'[j]) = submissions'[j].revision
                        /\ history'[j] # << >> => history'[j][1].from = "none"
                               /\ history'[j][Len(history'[j])].to = submissions'[j].state
                        /\ \A i \in 1..Len(history'[j]) - 1 :
                              /\ history'[j][i].to = history'[j][i + 1].from
                              /\ history'[j][i].at <= history'[j][i + 1].at
        BY DEF HistoryExplains
    <2>1. CASE j # k
        BY <1>8, <1>9, <2>1 DEF OpeningIInv, HistoryExplains
    <2>2. CASE j = k
        <3>1. /\ h # << >> /\ h[1].from = "none" /\ h[Len(h)].to = old.state
              /\ \A i \in 1..Len(h) - 1 : h[i].to = h[i + 1].from /\ h[i].at <= h[i + 1].at
            <4>1. /\ h # << >> => h[1].from = "none" /\ h[Len(h)].to = old.state
                  /\ \A i \in 1..Len(h) - 1 : h[i].to = h[i + 1].from /\ h[i].at <= h[i + 1].at
                BY Zenon DEF OpeningIInv, HistoryExplains
            <4>2. h # << >>
                BY <1>2
            <4> QED BY <4>1, <4>2, Zenon
        <3>2. h[Len(h)].at <= at
            <4>1. h[Len(h)].at <= calls[l].since
                BY DEF Fence, OpeningIInv, CallsAreFenced, LastEntry
            <4>2. h[Len(h)].at \in Nat
                <5>1. h \in Seq(Entry)
                    BY DEF OpeningIInv, OpeningTypes
                <5>2. h[Len(h)] \in Entry
                    BY <1>2, <5>1
                <5> QED BY <5>2 DEF Entry
            <4> QED BY <1>4, <4>1, <4>2
        <3>3. /\ Len(g) = Len(h) + 1 /\ \A i \in 1..Len(h) : g[i] = h[i]
              /\ g[Len(g)].from = old.state /\ g[Len(g)].to = to /\ g[Len(g)].at = at
            BY <1>9 DEF Extended
        <3>4. Len(h) \in 1..2 /\ 1 \in 1..Len(h)
            BY <1>2
        <3>5. \A i \in 1..Len(g) - 1 : g[i].to = g[i + 1].from /\ g[i].at <= g[i + 1].at
            <4> HIDE DEF g, h, old
            <4> SUFFICES ASSUME NEW i \in 1..Len(g) - 1
                         PROVE  g[i].to = g[i + 1].from /\ g[i].at <= g[i + 1].at
                OBVIOUS
            <4>1. CASE i = Len(h)
                <5>1. i + 1 = Len(g) /\ i \in 1..Len(h)
                    BY <3>4, <3>3, <4>1
                <5> QED BY <3>1, <3>2, <3>3, <4>1, <5>1
            <4>2. CASE i # Len(h)
                <5>1. i \in 1..Len(h) - 1 /\ i \in 1..Len(h) /\ i + 1 \in 1..Len(h)
                    BY <3>4, <3>3, <4>2
                <5> QED BY <3>1, <3>3, <5>1
            <4> QED BY <4>1, <4>2
        <3>6. Len(g) = submissions'[k].revision /\ submissions'[k].state = to
            BY <1>2, <1>6, <1>8, <3>3
        <3>7. g[1].from = "none"
            <4> HIDE DEF g, h, old
            <4> QED BY <3>1, <3>3, <3>4
        <3> QED BY <2>2, <3>3, <3>5, <3>6, <3>7
    <2> QED BY <2>1, <2>2
<1>18. LateMeansExpired'
    <2> SUFFICES ASSUME NEW j \in OpeningKeys, NEW i \in 2..Len(history'[j]),
                        history'[j][i].at >= submissions'[j].expires
                 PROVE  history'[j][i].to = "expired"
        BY DEF LateMeansExpired
    <2>1. CASE j # k
        BY <1>9, <1>11, <2>1 DEF OpeningIInv, LateMeansExpired
    <2>2. CASE j = k /\ i \in 2..Len(h)
        <3>1. history'[k][i] = history[k][i] /\ submissions'[k].expires = submissions[k].expires
            BY <1>9, <1>11, <2>2 DEF Extended
        <3> QED BY <2>2, <3>1 DEF OpeningIInv, LateMeansExpired
    <2>3. CASE j = k /\ i = Len(g)
        <3>1. g[i].at = at /\ g[i].to = to
            BY <1>9, <2>3 DEF Extended
        <3>2. old.expires \in Nat
            BY <1>2 DEF Submission
        <3> QED BY <1>4, <1>11, <2>3, <3>1, <3>2
    <2>4. j = k => i \in 2..Len(h) \/ i = Len(g)
        BY <1>9 DEF Extended
    <2> QED BY <2>1, <2>2, <2>3, <2>4
<1>19. AcknowledgedIsStored'
    BY <1>5, <1>11 DEF OpeningIInv, OpeningTypes, AcknowledgedIsStored, Stored
<1>20. OpeningTypes'
    <2>1. observations' \subseteq OpeningKeys
        BY DEF OpeningIInv, OpeningTypes
    <2>2. calls' \in [Logins -> Call' \cup {NoCall}]
        BY <1>5, CallsEnd
    <2> QED BY <1>5, <1>8, <1>9, <2>1, <2>2 DEF OpeningIInv, OpeningTypes
<1> QED BY <1>12, <1>13, <1>14, <1>15, <1>16, <1>17, <1>18, <1>19, <1>20 DEF OpeningIInv

LEMMA ReviewKeeps ==
    ASSUME OpeningIInv, NEW l \in Logins, Review(l)
    PROVE  OpeningIInv'
<1> DEFINE call == calls[l]
           k == call.key
           e == submissions[k].envelope
<1>1. call # NoCall /\ k \in OpeningKeys
    BY CallOrNone DEF Review, OpeningIInv, OpeningTypes
<1>2. openingClock' = openingClock /\ retractions' = retractions /\ acknowledged' = acknowledged
    BY DEF Review
<1>3. PICK at \in call.since..openingClock :
          LET to == Forced(k, call.target, at)
              fits == Fence(k, call) /\ Allowed(submissions[k].state, to)
              statistics == to = "accepted_statistics"
          IN  \/ /\ fits /\ ~statistics /\ Decided(k, to, at, l)
                 /\ Answered(l) /\ UNCHANGED observations
              \/ /\ fits /\ statistics /\ e.eligible /\ ~Recorded(e)
                 /\ Decided(k, to, at, l) /\ observations' = observations \cup {k}
                 /\ Answered(l)
              \/ /\ fits /\ statistics /\ e.eligible /\ Recorded(e)
                 /\ Decided(k, "duplicate", at, l)
                 /\ Answered(l) /\ UNCHANGED observations
              \/ /\ ~fits \/ statistics
                 /\ Replied(l) /\ UNCHANGED <<submissions, history, observations>>
    BY DEF Review
<1> DEFINE to == Forced(k, call.target, at)
<1>4. ASSUME Allowed(submissions[k].state, to)
      PROVE  /\ to \in OpenStates \cup Verdicts
             /\ submissions[k].expires <= at => to = "expired"
    BY <1>4 DEF Allowed, Forced, OpenStates, Verdicts
<1> HIDE DEF to
<1>5. CASE /\ Fence(k, call) /\ Allowed(submissions[k].state, to) /\ Decided(k, to, at, l)
           /\ Answered(l)
           /\ \/ to # "accepted_statistics" /\ observations' = observations
              \/ /\ to = "accepted_statistics" /\ ~Recorded(e)
                 /\ observations' = observations \cup {k}
    BY <1>1, <1>2, <1>4, <1>5, DecisionKeeps
<1>6. CASE /\ Fence(k, call) /\ Allowed(submissions[k].state, to) /\ to = "accepted_statistics"
           /\ Decided(k, "duplicate", at, l) /\ Answered(l) /\ observations' = observations
    <2>1. /\ Allowed(submissions[k].state, "duplicate") /\ "duplicate" \in OpenStates \cup Verdicts
          /\ ~(submissions[k].expires <= at)
        BY <1>4, <1>6 DEF Allowed, Verdicts
    <2> QED BY <1>1, <1>2, <1>6, <2>1, DecisionKeeps
<1>7. CASE Replied(l) /\ UNCHANGED <<submissions, history, observations>>
    <2>1. /\ calls' \in [Logins -> Call' \cup {NoCall}]
          /\ \A m \in Logins : calls'[m] = calls[m] \/ calls'[m] = NoCall
        BY <1>2, <1>7, CallsEnd DEF Answered
    <2>2. CallsAreFenced'
        BY <1>7, <2>1, CallsEndFenced
    <2>3. OpeningTypes'
        BY <1>2, <1>7, <2>1 DEF OpeningIInv, OpeningTypes
    <2>4. AcknowledgedIsStored'
        BY <1>2, <1>7 DEF OpeningIInv, AcknowledgedIsStored
    <2>5. openingClock <= openingClock'
        BY <1>2 DEF OpeningIInv, OpeningTypes
    <2> QED BY <1>7, <2>2, <2>3, <2>4, <2>5, RowsStay
<1> QED BY <1>3, <1>5, <1>6, <1>7 DEF to

LEMMA RetractKeeps ==
    ASSUME OpeningIInv, NEW l \in Logins, NEW k \in OpeningKeys, NEW reason \in Reasons,
           Retract(l, k, reason)
    PROVE  OpeningIInv'
<1>1. /\ openingClock' = openingClock /\ submissions' = submissions /\ history' = history
      /\ observations' = observations /\ calls' = calls /\ acknowledged' = acknowledged
    BY DEF Retract
<1>2. OpeningTypes'
    BY <1>1 DEF Retract, OpeningIInv, OpeningTypes, Call
<1>3. CallsAreFenced'
    BY <1>1, CallsEndFenced
<1>4. AcknowledgedIsStored' /\ openingClock <= openingClock'
    BY <1>1 DEF OpeningIInv, OpeningTypes, AcknowledgedIsStored
<1> QED BY <1>1, <1>2, <1>3, <1>4, RowsStay

LEMMA AbandonKeeps ==
    ASSUME OpeningIInv, NEW l \in Logins, Abandon(l)
    PROVE  OpeningIInv'
<1>1. /\ openingClock' = openingClock /\ submissions' = submissions /\ history' = history
      /\ observations' = observations /\ retractions' = retractions
      /\ acknowledged' = acknowledged /\ Answered(l)
    BY DEF Abandon, Answered, Replied
<1>2. /\ calls' \in [Logins -> Call' \cup {NoCall}]
      /\ \A m \in Logins : calls'[m] = calls[m] \/ calls'[m] = NoCall
    BY <1>1, CallsEnd
<1>3. CallsAreFenced'
    BY <1>1, <1>2, CallsEndFenced
<1>4. OpeningTypes'
    BY <1>1, <1>2 DEF OpeningIInv, OpeningTypes
<1>5. AcknowledgedIsStored' /\ openingClock <= openingClock'
    BY <1>1 DEF OpeningIInv, OpeningTypes, AcknowledgedIsStored
<1> QED BY <1>1, <1>3, <1>4, <1>5, RowsStay

LEMMA OpeningTickKeeps ==
    ASSUME OpeningIInv, OpeningTick
    PROVE  OpeningIInv'
<1>1. /\ submissions' = submissions /\ history' = history /\ observations' = observations
      /\ calls' = calls /\ retractions' = retractions /\ acknowledged' = acknowledged
    BY DEF OpeningTick
<1>2. /\ openingClock \in Nat /\ openingClock' = openingClock + 1
      /\ openingClock' \in 0..OpeningEnd
    BY OpeningAssumption DEF OpeningTick, OpeningIInv, OpeningTypes
<1>3. Call \subseteq Call'
    BY <1>2 DEF Call
<1>4. OpeningTypes'
    BY <1>1, <1>2, <1>3 DEF OpeningIInv, OpeningTypes
<1>5. CallsAreFenced'
    BY <1>1, CallsEndFenced
<1>6. AcknowledgedIsStored'
    BY <1>1 DEF OpeningIInv, AcknowledgedIsStored
<1>7. openingClock <= openingClock'
    BY <1>2
<1> QED BY <1>1, <1>4, <1>5, <1>6, <1>7, RowsStay

(* However many operators and reviewers act at once, lose replies and try  *)
(* again: an opening is counted at most once and stays retracted, each row *)
(* is explained by its trail in the order of the recorded times, what is   *)
(* decided late is expired, and no login both submits and decides.         *)
THEOREM OpeningsCountOnce == OpeningSpec => []OpeningInv
<1>1. OpeningIInv /\ [OpeningNext]_openingVars => OpeningIInv'
    <2> SUFFICES ASSUME OpeningIInv, [OpeningNext]_openingVars PROVE OpeningIInv'
        OBVIOUS
    <2>1. CASE UNCHANGED openingVars
        <3>1. /\ openingClock' = openingClock /\ submissions' = submissions /\ history' = history
              /\ observations' = observations /\ calls' = calls /\ retractions' = retractions
              /\ acknowledged' = acknowledged
            BY <2>1 DEF openingVars
        <3>2. OpeningTypes' /\ AcknowledgedIsStored' /\ openingClock <= openingClock'
            BY <3>1 DEF OpeningIInv, OpeningTypes, Call, AcknowledgedIsStored
        <3>3. CallsAreFenced'
            BY <3>1, CallsEndFenced
        <3> QED BY <3>1, <3>2, <3>3, RowsStay
    <2> QED BY <2>1, SubmitKeeps, BeginReviewKeeps, ReviewKeeps, RetractKeeps, AbandonKeeps,
               OpeningTickKeeps DEF OpeningNext
<1>2. OpeningIInv => OpeningInv
    <2> SUFFICES ASSUME OpeningIInv PROVE OpeningInv
        OBVIOUS
    <2>1. OpeningTypeOK
        <3>1. ASSUME NEW k \in OpeningKeys, Stored(k)
              PROVE  /\ submissions[k].state \in OpenStates \cup Verdicts
                     /\ submissions[k].revision \in 1..3
                     /\ submissions[k].envelope \in {e \in Envelopes : e.hits <= e.packs /\ e.key = k}
            BY <3>1, RowIs DEF OpeningIInv, RowsAreSound, Submission
        <3>2. ASSUME NEW l \in Logins, calls[l] # NoCall PROVE calls[l].since \in 0..openingClock
            BY <3>2, CallOrNone DEF OpeningIInv, OpeningTypes
        <3> QED BY <3>1, <3>2 DEF OpeningIInv, OpeningTypes, OpeningTypeOK, Stored
    <2>2. RetractionStands
        BY DEF OpeningIInv, OpeningCountsOnce, RetractionStands
    <2>3. SeparateHands
        <3> SUFFICES ASSUME NEW j \in OpeningKeys, NEW k \in OpeningKeys,
                            NEW i \in 2..Len(history[k]), history[j] # << >>,
                            history[j][1].by = history[k][i].by
                     PROVE  FALSE
            BY DEF SeparateHands
        <3>1. history[j] \in Seq(Entry) /\ history[k] \in Seq(Entry)
            BY DEF OpeningIInv, OpeningTypes
        <3>2. 1 \in 1..Len(history[j]) /\ i \in 1..Len(history[k]) /\ i # 1
            BY <3>1
        <3>3. Attested(history[j][1].by, "submitter") /\ Attested(history[k][i].by, "reviewer")
            BY <3>2 DEF OpeningIInv, TrailsAreAttested
        <3> QED BY <3>3 DEF Attested, Pinned
    <2> QED BY <2>1, <2>2, <2>3 DEF OpeningIInv, OpeningInv
<1> QED BY <1>1, <1>2, OpeningInitial, PTL DEF OpeningSpec
-------------------------------------------------------------------------------
(* Evidence.  Whoever is asked next, what was answered before has passed   *)
(* the checks that come in front of the call.                              *)

Decision ==
    [status : {"none", "rejected", "paused", "activity_only", "accepted"},
     source : {"none", "validation", "escalation"}, rates : BOOLEAN]

EvidenceTypes ==
    /\ answers \in [extraction : Extractions \cup {NoAnswer},
                    validation : Validations \cup {NoAnswer},
                    escalation : Validations \cup {NoAnswer}]
    /\ evidence \in Decision

Extracted(e) ==
    e \in Extractions /\ PassesPrechecks(e) /\ (e.tier \in RateTiers => ~CatalogFails(e))

ChecksPassed ==
    /\ stage = "extract" => answers.extraction = NoAnswer
    /\ stage \in {"validate", "escalate"} => Extracted(Ext)
    /\ stage \in {"extract", "validate"} => answers.validation = NoAnswer
    /\ stage = "escalate" =>
          /\ answers.validation \in Validations
          /\ Fits(Ext, answers.validation) /\ ~HardlyRejected(Ext, answers.validation)
    /\ stage # "decided" => answers.escalation = NoAnswer

EvidenceIInv == EvidenceTypes /\ ChecksPassed /\ EvidenceInv

LEMMA NotMade ==
    /\ NoAnswer.made = FALSE
    /\ \A a \in Extractions \cup Validations : a.made = TRUE /\ a # NoAnswer
<1>1. NoAnswer.made = FALSE
    BY DEF NoAnswer
<1>2. ASSUME NEW a \in Extractions PROVE a.made = TRUE
    <2>1. a.made \in {TRUE}
        BY DEF Extractions
    <2> QED
        BY <2>1
<1>3. ASSUME NEW a \in Validations PROVE a.made = TRUE
    <2>1. a.made \in {TRUE}
        BY DEF Validations
    <2> QED
        BY <2>1
<1>4. ASSUME NEW a \in Extractions \cup Validations PROVE a.made = TRUE /\ a # NoAnswer
    <2>1. a.made = TRUE
        BY <1>2, <1>3
    <2>2. CASE a = NoAnswer
        BY <1>1, <2>1, <2>2
    <2> QED
        BY <2>1, <2>2
<1> QED
    BY <1>1, <1>4

\* A decision without an answer behind it.
LEMMA EmptyHanded ==
    /\ {Undecided, Rejected, Paused} \subseteq Decision
    /\ Rejected # Undecided /\ Paused # Undecided
    /\ \A d \in {Undecided, Rejected, Paused} : d.source = "none" /\ d.rates = FALSE
BY DEF Undecided, Rejected, Paused, Decision

LEMMA ActivityIs ==
    ASSUME NEW source \in {"validation", "escalation"}
    PROVE  /\ Activity(source) \in Decision /\ Activity(source) # Undecided
           /\ Activity(source).source = source /\ Activity(source).rates = FALSE
BY DEF Activity, Undecided, Decision

LEMMA AcceptedIs ==
    ASSUME NEW source \in {"validation", "escalation"}
    PROVE  /\ AcceptedFrom(source) \in Decision /\ AcceptedFrom(source) # Undecided
           /\ AcceptedFrom(source).source = source /\ AcceptedFrom(source).rates = TRUE
BY DEF AcceptedFrom, Undecided, Decision

LEMMA ResolvedIs ==
    ASSUME NEW e \in Extractions, NEW v \in Validations,
           NEW source \in {"validation", "escalation"}
    PROVE  \/ Resolved(e, v, source) \in {Rejected, Activity(source)}
           \/ /\ Resolved(e, v, source) = AcceptedFrom(source)
              /\ e.tier \in RateTiers /\ v.tier \in RateTiers /\ v.verdict = "accept"
<1>1. v.verdict \in {"accept", "activity_only", "reject"}
    BY DEF Validations
<1> QED
    BY <1>1 DEF Resolved

\* The pipeline ends without an answer that counts.
LEMMA DecidesEmptyHanded ==
    ASSUME EvidenceIInv, NEW d \in {Rejected, Paused}, Decides(d), EvidenceTypes',
           answers'.escalation # NoAnswer => answers'.validation # NoAnswer
    PROVE  EvidenceIInv'
<1>1. stage' = "decided" /\ evidence' = d
    BY DEF Decides
<1>2. d # Undecided /\ d.source = "none" /\ d.rates = FALSE
    BY EmptyHanded
<1>3. answers'.escalation.made => answers'.validation.made
    <2>1. /\ answers'.escalation \in Validations \cup {NoAnswer}
          /\ answers'.validation \in Validations \cup {NoAnswer}
        BY DEF EvidenceTypes
    <2>2. CASE answers'.escalation = NoAnswer
        BY <2>2, NotMade
    <2>3. CASE answers'.validation \in Validations
        <3>1. answers'.validation.made = TRUE
            BY <2>3, NotMade
        <3> QED
            BY <3>1
    <2> QED
        BY <2>1, <2>2, <2>3
<1>4. EvidenceTypeOK'
    BY <1>1, <1>2, <1>3 DEF EvidenceTypeOK
<1>5. RatesRestOnTwo' /\ FailsClosed'
    BY <1>1, <1>2 DEF RatesRestOnTwo, FailsClosed
<1>6. ChecksPassed'
    BY <1>1 DEF ChecksPassed
<1> QED
    BY <1>4, <1>5, <1>6 DEF EvidenceIInv, EvidenceInv

\* It ends with an answer that a second one stands behind: x is the last one
\* that was asked for, v another that was consulted, or x itself.
LEMMA DecidesWith ==
    ASSUME EvidenceTypes', NEW source \in {"validation", "escalation"},
           NEW e \in Extractions, NEW v \in Validations, NEW x \in Validations,
           Extracted(e), Fits(e, v), Fits(e, x), ~HardlyRejected(e, v), x.sound,
           answers'.extraction = e, answers'.validation = v,
           answers'.escalation \in {x, NoAnswer}, answers'[source] = x,
           stage' = "decided",
           \/ evidence' = Activity(source)
           \/ /\ evidence' = AcceptedFrom(source)
              /\ e.tier \in RateTiers /\ x.tier \in RateTiers
              /\ \/ Facts(e) = Facts(x)
                 \/ /\ Facts(v) = Facts(x)
                    /\ v.verdict = "accept" /\ x.verdict = "accept"
    PROVE  EvidenceIInv'
<1>1. /\ evidence'.source = source /\ evidence' # Undecided
      /\ evidence' = Activity(source) => evidence'.rates = FALSE
    BY ActivityIs, AcceptedIs
<1>2. v.made = TRUE /\ x.made = TRUE /\ NoAnswer.made = FALSE /\ source # "none"
    BY NotMade
<1>3. Consulted' \subseteq {v, x}
    BY <1>2 DEF Consulted
<1>4. EvidenceTypeOK'
    BY <1>1, <1>2 DEF EvidenceTypeOK
<1>5. FailsClosed'
    <2>1. ASSUME MatchedSet(e) # NoSet PROVE v.fits /\ x.fits
        BY <2>1 DEF Fits
    <2>2. ASSUME CatalogFails(e) PROVE ~evidence'.rates
        BY <1>1, <2>2 DEF Extracted
    <2>3. Ext' = e
        BY DEF Ext
    <2>4. ASSUME MatchedSet(e) # NoSet, NEW a \in Consulted' PROVE a.fits
        BY <1>3, <2>1, <2>4
    <2> QED
        BY <2>2, <2>3, <2>4 DEF FailsClosed
<1>6. RatesRestOnTwo'
    <2> SUFFICES ASSUME evidence' = AcceptedFrom(source) PROVE RatesRestOnTwo'
        BY <1>1 DEF RatesRestOnTwo
    <2>1. evidence'.rates = TRUE /\ AcceptedFrom(source) # Activity(source)
        BY AcceptedIs, ActivityIs
    <2>2. Ext' = e /\ Selected' = x
        BY <1>1 DEF Ext, Selected
    <2>3. e.sound /\ v.sound /\ x.sound
        BY DEF HardlyRejected
    <2>4. \A a \in Consulted' \cup {e} : a.sound
        BY <1>3, <2>3
    <2>5. e.tier \in RateTiers /\ x.tier \in RateTiers
        BY <2>1
    <2>6. \/ Facts(e) = Facts(x)
          \/ \A a \in Consulted' : Facts(a) = Facts(x) /\ a.verdict = "accept"
        BY <1>3, <2>1
    <2> QED
        BY <2>2, <2>4, <2>5, <2>6 DEF RatesRestOnTwo
<1>7. ChecksPassed'
    BY DEF ChecksPassed
<1> QED
    BY <1>4, <1>5, <1>6, <1>7 DEF EvidenceIInv, EvidenceInv

LEMMA DecisionsAre ==
    ASSUME NEW source \in {"validation", "escalation"}
    PROVE  {Rejected, Paused, Undecided, Activity(source), AcceptedFrom(source)} \subseteq Decision
BY EmptyHanded, ActivityIs, AcceptedIs

LEMMA ExtractKeeps ==
    ASSUME EvidenceIInv, NEW e \in Extractions, Extract(e) PROVE EvidenceIInv'
<1>1. answers' = [answers EXCEPT !.extraction = e] /\ stage = "extract"
    BY DEF Extract
<1>2. /\ answers'.extraction = e /\ answers'.validation = NoAnswer
      /\ answers'.escalation = NoAnswer
      /\ answers' \in [extraction : Extractions \cup {NoAnswer},
                       validation : Validations \cup {NoAnswer},
                       escalation : Validations \cup {NoAnswer}]
    BY <1>1 DEF EvidenceIInv, EvidenceTypes, ChecksPassed
<1>3. CASE Decides(Rejected)
    <2>1. EvidenceTypes'
        BY <1>2, <1>3, EmptyHanded DEF EvidenceTypes, Decides
    <2> QED
        BY <1>2, <1>3, <2>1, DecidesEmptyHanded
<1>4. ASSUME PassesPrechecks(e), ~(CatalogFails(e) /\ e.tier \in RateTiers),
             Continues("validate")
      PROVE  EvidenceIInv'
    <2>1. stage' = "validate" /\ evidence' = evidence
        BY <1>4 DEF Continues
    <2>2. EvidenceTypes'
        BY <1>2, <2>1 DEF EvidenceIInv, EvidenceTypes
    <2>3. ChecksPassed'
        BY <1>2, <1>4, <2>1 DEF ChecksPassed, Extracted, Ext
    <2>4. evidence = Undecided
        BY <1>1 DEF EvidenceIInv, EvidenceInv, EvidenceTypeOK
    <2>5. evidence'.source = "none" /\ evidence'.rates = FALSE
        BY <2>1, <2>4, EmptyHanded
    <2>6. EvidenceTypeOK'
        BY <1>2, <2>1, <2>4, <2>5, NotMade DEF EvidenceTypeOK
    <2>7. RatesRestOnTwo' /\ FailsClosed'
        BY <2>5 DEF RatesRestOnTwo, FailsClosed
    <2> QED
        BY <2>2, <2>3, <2>6, <2>7 DEF EvidenceIInv, EvidenceInv
<1> QED
    BY <1>3, <1>4 DEF Extract

LEMMA ValidateKeeps ==
    ASSUME EvidenceIInv, NEW v \in Validations, Validate(v) PROVE EvidenceIInv'
<1>1. answers' = [answers EXCEPT !.validation = v] /\ stage = "validate"
    BY DEF Validate
<1>2. /\ answers'.extraction = Ext /\ answers'.validation = v
      /\ answers'.escalation = NoAnswer /\ Ext \in Extractions /\ Extracted(Ext)
      /\ answers' \in [extraction : Extractions \cup {NoAnswer},
                       validation : Validations \cup {NoAnswer},
                       escalation : Validations \cup {NoAnswer}]
    BY <1>1 DEF EvidenceIInv, EvidenceTypes, ChecksPassed, Ext, Extracted
<1>3. v # NoAnswer
    BY NotMade
<1>4. CASE Decides(Rejected)
    <2>1. EvidenceTypes'
        BY <1>2, <1>4, EmptyHanded DEF EvidenceTypes, Decides
    <2> QED
        BY <1>2, <1>3, <1>4, <2>1, DecidesEmptyHanded
<1>5. ASSUME Fits(Ext, v), ~HardlyRejected(Ext, v),
             \/ Decides(Activity("validation"))
             \/ Agreed(Ext, v) /\ Decides(Resolved(Ext, v, "validation"))
      PROVE  EvidenceIInv'
    <2>1. PICK e : e = Ext
        OBVIOUS
    <2>2. /\ stage' = "decided"
          /\ \/ evidence' \in {Rejected, Activity("validation")}
             \/ /\ evidence' = AcceptedFrom("validation")
                /\ e.tier \in RateTiers /\ v.tier \in RateTiers /\ Facts(e) = Facts(v)
        BY <1>2, <1>5, <2>1, ResolvedIs DEF Decides, Agreed, SameFacts
    <2>3. CASE evidence' = Rejected
        BY <1>4, <2>2, <2>3 DEF Decides
    <2>4. CASE evidence' # Rejected
        <3>1. EvidenceTypes'
            BY <1>2, <2>2, DecisionsAre DEF EvidenceTypes
        <3>2. e \in Extractions /\ Extracted(e) /\ Fits(e, v) /\ ~HardlyRejected(e, v)
            BY <1>2, <1>5, <2>1
        <3>3. v.sound
            BY <3>2 DEF HardlyRejected
        <3> QED
            BY <1>2, <2>1, <2>2, <2>4, <3>1, <3>2, <3>3, DecidesWith
    <2> QED
        BY <2>3, <2>4
<1>6. ASSUME Fits(Ext, v), ~HardlyRejected(Ext, v), Continues("escalate") PROVE EvidenceIInv'
    <2>1. stage' = "escalate" /\ evidence' = evidence
        BY <1>6 DEF Continues
    <2>2. EvidenceTypes'
        BY <1>2, <2>1 DEF EvidenceIInv, EvidenceTypes
    <2>3. Ext' = Ext
        BY <1>2 DEF Ext
    <2>4. ChecksPassed'
        BY <1>2, <1>6, <2>1, <2>3 DEF ChecksPassed
    <2>5. evidence = Undecided
        BY <1>1 DEF EvidenceIInv, EvidenceInv, EvidenceTypeOK
    <2>6. evidence'.source = "none" /\ evidence'.rates = FALSE
        BY <2>1, <2>5, EmptyHanded
    <2>7. EvidenceTypeOK'
        BY <1>2, <2>1, <2>5, <2>6, NotMade DEF EvidenceTypeOK
    <2>8. RatesRestOnTwo' /\ FailsClosed'
        BY <2>6 DEF RatesRestOnTwo, FailsClosed
    <2> QED
        BY <2>2, <2>4, <2>7, <2>8 DEF EvidenceIInv, EvidenceInv
<1> QED
    BY <1>4, <1>5, <1>6 DEF Validate

LEMMA EscalateKeeps ==
    ASSUME EvidenceIInv, NEW x \in Validations, Escalate(x) PROVE EvidenceIInv'
<1>1. answers' = [answers EXCEPT !.escalation = x] /\ stage = "escalate"
    BY DEF Escalate
<1>2. PICK e, v : e = Ext /\ v = answers.validation
    OBVIOUS
<1>3. /\ answers'.extraction = e /\ answers'.validation = v /\ answers'.escalation = x
      /\ e \in Extractions /\ Extracted(e) /\ v \in Validations
      /\ Fits(e, v) /\ ~HardlyRejected(e, v)
      /\ answers' \in [extraction : Extractions \cup {NoAnswer},
                       validation : Validations \cup {NoAnswer},
                       escalation : Validations \cup {NoAnswer}]
    BY <1>1, <1>2 DEF EvidenceIInv, EvidenceTypes, ChecksPassed, Ext, Extracted
<1>4. v # NoAnswer
    BY <1>3, NotMade
<1>5. CASE Decides(Rejected)
    <2>1. EvidenceTypes'
        BY <1>3, <1>5, EmptyHanded DEF EvidenceTypes, Decides
    <2> QED
        BY <1>3, <1>4, <1>5, <2>1, DecidesEmptyHanded
<1>6. ASSUME Fits(e, x), x.sound,
             \/ SameFacts(e, x)
             \/ ConfirmsValidator(v, x),
             Decides(Resolved(e, x, "escalation"))
      PROVE  EvidenceIInv'
    <2>1. /\ stage' = "decided"
          /\ \/ evidence' \in {Rejected, Activity("escalation")}
             \/ /\ evidence' = AcceptedFrom("escalation")
                /\ e.tier \in RateTiers /\ x.tier \in RateTiers /\ x.verdict = "accept"
        BY <1>3, <1>6, ResolvedIs DEF Decides
    <2>2. CASE evidence' = Rejected
        BY <1>5, <2>1, <2>2 DEF Decides
    <2>3. CASE evidence' # Rejected
        <3>1. EvidenceTypes'
            BY <1>3, <2>1, DecisionsAre DEF EvidenceTypes
        <3>2. Facts(e) = Facts(x) \/ (Facts(v) = Facts(x) /\ v.verdict = x.verdict)
            BY <1>6 DEF SameFacts, ConfirmsValidator
        <3> QED
            BY <1>3, <1>6, <2>1, <2>3, <3>1, <3>2, DecidesWith
    <2> QED
        BY <2>2, <2>3
<1> QED
    BY <1>2, <1>5, <1>6 DEF Escalate, Escalated

LEMMA OtherwiseKeeps ==
    ASSUME EvidenceIInv, Unescalated \/ PauseFor \/ TryAgain PROVE EvidenceIInv'
<1>1. CASE Unescalated \/ PauseFor
    <2>1. \E d \in {Rejected, Paused} : Decides(d)
        BY <1>1 DEF Unescalated, PauseFor
    <2>2. /\ answers' = answers /\ answers.escalation = NoAnswer
        BY <1>1 DEF Unescalated, PauseFor, EvidenceIInv, ChecksPassed
    <2>3. EvidenceTypes'
        BY <2>1, <2>2, EmptyHanded DEF EvidenceIInv, EvidenceTypes, Decides
    <2> QED
        BY <2>1, <2>2, <2>3, DecidesEmptyHanded
<1>2. CASE TryAgain
    <2>1. /\ stage' = "extract" /\ evidence' = Undecided
          /\ answers'.extraction = NoAnswer /\ answers'.validation = NoAnswer
          /\ answers'.escalation = NoAnswer
        BY <1>2 DEF TryAgain
    <2>2. EvidenceTypes'
        BY <1>2, EmptyHanded DEF TryAgain, EvidenceTypes
    <2>3. EvidenceTypeOK' /\ RatesRestOnTwo' /\ FailsClosed'
        BY <2>1, EmptyHanded, NotMade DEF EvidenceTypeOK, RatesRestOnTwo, FailsClosed
    <2>4. ChecksPassed'
        BY <2>1 DEF ChecksPassed
    <2> QED
        BY <2>2, <2>3, <2>4 DEF EvidenceIInv, EvidenceInv
<1> QED
    BY <1>1, <1>2

(* Whatever the models answer, and wherever the budget pauses: what counts *)
(* towards the rates was seen alike by two answers that were sure, and a   *)
(* misfit with the catalog or a disagreement leaves nothing that counts.   *)
THEOREM TwoAnswersCount == EvidenceSpec => []EvidenceInv
<1>1. EvidenceInit => EvidenceIInv
    <2> SUFFICES ASSUME EvidenceInit PROVE EvidenceIInv
        OBVIOUS
    <2>1. /\ stage = "extract" /\ evidence = Undecided
          /\ answers.extraction = NoAnswer /\ answers.validation = NoAnswer
          /\ answers.escalation = NoAnswer
        BY DEF EvidenceInit
    <2>2. EvidenceTypes
        BY EmptyHanded DEF EvidenceInit, EvidenceTypes
    <2>3. EvidenceTypeOK /\ RatesRestOnTwo /\ FailsClosed
        BY <2>1, EmptyHanded, NotMade DEF EvidenceTypeOK, RatesRestOnTwo, FailsClosed
    <2>4. ChecksPassed
        BY <2>1 DEF ChecksPassed
    <2> QED
        BY <2>2, <2>3, <2>4 DEF EvidenceIInv, EvidenceInv
<1>2. EvidenceIInv /\ [EvidenceNext]_evidenceVars => EvidenceIInv'
    <2>1. ASSUME EvidenceIInv, UNCHANGED evidenceVars PROVE EvidenceIInv'
        BY <2>1 DEF evidenceVars, EvidenceIInv, EvidenceTypes, ChecksPassed, EvidenceInv,
           EvidenceTypeOK, RatesRestOnTwo, FailsClosed, Ext, Selected, Consulted
    <2> QED
        BY <2>1, ExtractKeeps, ValidateKeeps, EscalateKeeps, OtherwiseKeeps DEF EvidenceNext
<1>3. EvidenceIInv => EvidenceInv
    BY DEF EvidenceIInv
<1> QED
    BY <1>1, <1>2, <1>3, PTL DEF EvidenceSpec
-------------------------------------------------------------------------------
\* A family of finite sets has a smallest member.
LEMMA SmallestSubset ==
    ASSUME NEW I, IsFiniteSet(I), NEW F \in SUBSET (SUBSET I), F # {}
    PROVE  \E T \in F : \A U \in F : U \subseteq T => U = T
<1>1. \A T \in F : IsFiniteSet(T)
    BY FS_Subset
<1>2. F \subseteq FiniteSubsetsOf(I)
    BY <1>1 DEF FiniteSubsetsOf
<1>3. PICK T \in F : \A U \in F : ~ (<<U, T>> \in StrictSubsetOrdering(I))
    BY <1>2, FS_StrictSubsetOrderingWellFounded, WFMin
<1>4. ASSUME NEW U \in F, U \subseteq T PROVE U = T
    BY <1>3, <1>4 DEF StrictSubsetOrdering
<1> QED
    BY <1>4

\* Sets of one size that have nothing in common add up.
LEMMA PacksAddUp ==
    ASSUME NEW I, IsFiniteSet(I), NEW A, NEW k \in Nat,
           \A u \in I : IsFiniteSet(A[u]) /\ Cardinality(A[u]) = k,
           \A u, v \in I : u # v => A[u] \cap A[v] = {}
    PROVE  Cardinality(UNION {A[u] : u \in I}) = k * Cardinality(I)
<1> DEFINE Of(T) == UNION {A[u] : u \in T}
           AddsUp(T) == IsFiniteSet(Of(T)) /\ Cardinality(Of(T)) = k * Cardinality(T)
           F == {T \in SUBSET I : ~ AddsUp(T)}
<1>1. ASSUME F # {} PROVE FALSE
    <2>1. PICK T \in F : \A U \in F : U \subseteq T => U = T
        <3> HIDE DEF F
        <3>1. F \in SUBSET (SUBSET I)
            BY DEF F
        <3> QED
            BY <1>1, <3>1, SmallestSubset
    <2>2. IsFiniteSet(T) /\ T \subseteq I /\ ~ AddsUp(T)
        BY <2>1, FS_Subset
    <2>3. CASE T = {}
        <3>1. Of(T) = {}
            BY <2>3
        <3>2. Cardinality(Of(T)) = 0 /\ Cardinality(T) = 0 /\ IsFiniteSet(Of(T)) /\ k * 0 = 0
            <4> HIDE DEF Of
            <4> QED
                BY <2>3, <3>1, FS_EmptySet
        <3> QED
            BY <2>2, <3>2
    <2>4. CASE T # {}
        <3>1. PICK x \in T : TRUE
            BY <2>4
        <3>2. PICK U : U = T \ {x}
            OBVIOUS
        <3>3. AddsUp(U)
            <4>1. U \in SUBSET I /\ U \subseteq T /\ U # T
                BY <2>2, <3>1, <3>2
            <4> QED
                BY <2>1, <4>1
        <3>4. IsFiniteSet(U) /\ Cardinality(T) = Cardinality(U) + 1 /\ Cardinality(U) \in Nat
            <4>1. IsFiniteSet(U) /\ Cardinality(U) = Cardinality(T) - 1
                BY <2>2, <3>1, <3>2, FS_RemoveElement
            <4>2. Cardinality(T) \in Nat /\ Cardinality(U) \in Nat
                BY <2>2, <4>1, FS_CardinalityType
            <4> QED
                BY <4>1, <4>2
        <3>5. Of(T) = Of(U) \cup A[x] /\ Of(U) \cap A[x] = {}
            <4>1. T = U \cup {x} /\ x \notin U
                BY <3>1, <3>2
            <4>2. ASSUME NEW p \in Of(U), p \in A[x] PROVE FALSE
                <5>1. PICK u \in U : p \in A[u]
                    OBVIOUS
                <5> QED
                    BY <2>2, <3>1, <3>2, <4>2, <5>1
            <4> QED
                BY <4>1, <4>2
        <3>6. IsFiniteSet(A[x]) /\ Cardinality(A[x]) = k
            BY <2>2, <3>1
        <3>7. IsFiniteSet(Of(T)) /\ Cardinality(Of(T)) = k * Cardinality(U) + k
            <4> HIDE DEF Of
            <4>1. Cardinality({}) = 0
                BY FS_EmptySet
            <4>2. IsFiniteSet(Of(U)) /\ Cardinality(Of(U)) = k * Cardinality(U)
                BY <3>3
            <4>3. /\ IsFiniteSet(Of(U) \cup A[x])
                  /\ Cardinality(Of(U) \cup A[x]) =
                         Cardinality(Of(U)) + Cardinality(A[x]) - Cardinality(Of(U) \cap A[x])
                BY <3>6, <4>2, FS_Union
            <4>4. k * Cardinality(U) \in Int
                BY <3>4
            <4>5. Cardinality(Of(U) \cap A[x]) = 0
                BY <3>5, <4>1
            <4>6. IsFiniteSet(Of(T)) /\ Cardinality(Of(T)) = Cardinality(Of(U) \cup A[x])
                BY <3>5, <4>3
            <4> QED
                BY <3>6, <4>2, <4>3, <4>4, <4>5, <4>6
        <3>8. k * (Cardinality(U) + 1) = k * Cardinality(U) + k
            BY <3>4
        <3> HIDE DEF Of
        <3> QED
            BY <2>2, <3>4, <3>7, <3>8
    <2> QED
        BY <2>3, <2>4
<1>2. AddsUp(I)
    BY <1>1
<1> QED
    BY <1>2

-------------------------------------------------------------------------------
(* Source families.  A cycle is one worker's; the identities of an article *)
(* are kept for it from its first admission, whatever becomes of it; and a *)
(* wait that the database knows of, or may still hear of, outlasts the       *)
(* cycle that it was told to.                                              *)

\* Packs an opening may be counted by.
AreCountable(packs) ==
    packs # {} /\ (family = "kozaru" => IsFiniteSet(packs) /\ Cardinality(packs) = PackCount)

CycleResult == Listed \cup {Nothing} \cup {Read(p) : p \in Pages[family]}
CycleRun == [target : URLs \cup {Listing, -1}, requests : 0..3, result : CycleResult]
Collecting ==
    [step : {"claimed", "staged"}, cycle : Cycles]
        \cup [step : {"reading"}, cycle : Cycles, from : Nat]
        \cup [step : {"sending"}, cycle : Cycles, under : Nat]
        \cup [step : {"deferring"}, cycle : Cycles, until : Nat]
        \cup [step : {"staging"}, cycle : Cycles, result : CycleResult]

CycleTypes ==
    /\ family \in Families /\ minute \in (Daily + 2)..FamilyEnd /\ cycle \in 0..MaxCycles[family]
    /\ access \in BOOLEAN /\ asked \in 0..minute
    /\ acquired \in [cycle : 0..cycle, until : Nat]
    /\ sent \in [cycle : 0..cycle, at : 0..minute, under : Nat]
    /\ announced \in [Cycles -> Nat] /\ lost \subseteq Cycles
    /\ leased \in [Cycles -> Nat] /\ run \in [Cycles -> CycleRun]
    /\ collector \in [Collectors -> Collecting \cup {NoCollector}]

LedgerTypes ==
    /\ discovered \in 0..minute /\ checked \in [URLs -> 0..minute]
    /\ candidate \in [URLs -> {"absent", "pending", "admitted", "quarantined",
                               "duplicate", "retracted"}]
    /\ admission = [u \in URLs |-> admission[u]] /\ latest = [u \in URLs |-> latest[u]]
    /\ tombstone \subseteq URLs /\ retracted \subseteq URLs

\* A cycle is one worker's; it has a target from the moment it is begun.
CyclesAreOwn ==
    /\ \A w \in Collectors : collector[w] # NoCollector =>
          /\ collector[w].cycle <= cycle
          /\ collector[w].step = "claimed" => run[collector[w].cycle].requests = 0
          /\ collector[w].step # "claimed" => run[collector[w].cycle].target # -1
          /\ \A v \in Collectors :
                collector[v] # NoCollector /\ collector[v].cycle = collector[w].cycle => v = w
    /\ \A c \in Cycles : cycle < c => run[c] = NoRun
    /\ \A c \in Cycles : run[c].target # -1 => run[c].requests <= Needed(run[c].target)

\* Identities are reserved for the article that was admitted with them.
IdentitiesAreKept ==
    /\ \A u \in URLs : admission[u] # {} =>
          /\ AreCountable(admission[u])
          /\ admission[u] \subseteq DOMAIN owner /\ \A p \in admission[u] : owner[p] = u
    /\ family = "kozaru" =>
          DOMAIN first = DOMAIN owner /\ \A p \in DOMAIN owner : first[p] = owner[p]

AdmittedAsRead ==
    \A u \in URLs : candidate[u] = "admitted" => admission[u] # {} /\ latest[u] = admission[u]

RetractionsStand ==
    /\ family = "pokesup" => retracted \subseteq tombstone
    /\ family = "kozaru" => \A u \in retracted : candidate[u] = "retracted"

\* A wait that is not lost is with the process it was told to, or it is kept
\* by the gate of a cycle that is over.
WaitsAreKept ==
    family = "kozaru" => \A d \in Cycles \ lost : minute < announced[d] =>
        \/ \E w \in Collectors : /\ collector[w].step = "deferring" /\ collector[w].cycle = d
                                 /\ collector[w].until = announced[d]
        \/ /\ announced[d] <= acquired.until
           /\ \A w \in Collectors :
                 collector[w] # NoCollector => collector[w].cycle # acquired.cycle

\* Authorizations are a pace apart, and the gate's cycle has the last one.
Spaced(a, b) == a + Pace <= b \/ b + Pace <= a
PaceIsKept ==
    family = "kozaru" =>
        /\ sent.cycle # 0 => sent.under \in 1..asked
        /\ \A w \in Collectors : collector[w].step = "sending" =>
              /\ collector[w].under \in 1..asked
              /\ acquired.cycle = collector[w].cycle => collector[w].under = asked
              /\ sent.cycle # 0 => Spaced(sent.under, collector[w].under)
              /\ \A v \in Collectors \ {w} :
                    collector[v].step = "sending" => Spaced(collector[v].under, collector[w].under)

FamilyIInv ==
    /\ CycleTypes /\ CyclesAreOwn /\ WaitsAreKept /\ PaceIsKept
    /\ LedgerTypes /\ IdentitiesAreKept /\ AdmittedAsRead /\ RetractionsStand

LEMMA FamilyNumbers ==
    /\ family \in Families => family \in {"pokesup", "kozaru"} /\ MaxCycles[family] \in Nat
    /\ PackCount \in Nat /\ PackCount > 0 /\ Pace \in Nat /\ Pace > 0 /\ AcquireFor \in Nat /\ AcquireFor > 0
    /\ CycleLease \in Nat /\ ServerPause \in Nat /\ Daily \in Nat
    /\ FamilyEnd \in Nat /\ Daily + 2 <= FamilyEnd
    /\ URLs \subseteq Nat \ {0} /\ IsFiniteSet(URLs) /\ Fixed \subseteq URLs /\ Retractable \subseteq URLs
    /\ Contents \subseteq SUBSET URLs
<1>1. {PackCount, Pace, AcquireFor, CycleLease, ServerPause, Daily} \subseteq Nat \ {0}
    BY FamilyAssumption
<1>2. Families \subseteq {"pokesup", "kozaru"} /\ \A f \in Families : MaxCycles[f] \in Nat
    BY FamilyAssumption
<1>3. FamilyEnd \in Nat /\ FamilyEnd >= Daily + 2
    BY FamilyAssumption
<1>4. /\ URLs \subseteq Nat \ {0} /\ IsFiniteSet(URLs) /\ Fixed \subseteq URLs /\ Retractable \subseteq URLs
      /\ Contents \subseteq SUBSET URLs
    BY FamilyAssumption
<1>5. /\ PackCount \in Nat /\ PackCount > 0 /\ Pace \in Nat /\ Pace > 0 /\ AcquireFor \in Nat /\ AcquireFor > 0
      /\ CycleLease \in Nat /\ ServerPause \in Nat /\ Daily \in Nat
    BY <1>1
<1>6. Daily + 2 <= FamilyEnd
    BY <1>3, <1>5
<1> QED
    BY <1>2, <1>3, <1>4, <1>5, <1>6

\* What a page shows can be counted, or is put aside.
LEMMA ReadIs ==
    ASSUME family \in Families, NEW page
    PROVE  Read(page) = Quarantine \/ (Read(page).kind = "evidence" /\ AreCountable(Read(page).packs))
<1>1. CASE family = "pokesup"
    BY <1>1 DEF Read, AreCountable
<1>2. CASE family = "kozaru"
    <2>1. CASE Numbered(page) = {}
        BY <1>2, <2>1 DEF Read
    <2>2. CASE Numbered(page) # {}
        <3>1. PICK figures : figures = CaptionsOf(page)
            OBVIOUS
        <3> DEFINE images == {figures[n].images[1] : n \in DOMAIN figures}
        <3>2. /\ [n \in DOMAIN figures |-> figures[n].label] = [n \in 1..PackCount |-> n]
              /\ Cardinality(images) = PackCount /\ Numbered(page) = images
            BY <2>2, <3>1 DEF Numbered
        <3>3. IsFiniteSet(images)
            <4>1. DOMAIN [n \in DOMAIN figures |-> figures[n].label] = DOMAIN figures
                OBVIOUS
            <4>2. DOMAIN figures = 1..PackCount
                BY <3>2, <4>1
            <4>3. IsFiniteSet(DOMAIN figures)
                <5>1. PackCount \in Int /\ 1 \in Int
                    BY FamilyNumbers
                <5>2. IsFiniteSet(1..PackCount)
                    BY <5>1, FS_Interval
                <5> QED
                    BY <4>2, <5>2
            <4> DEFINE I == [n \in DOMAIN figures |-> figures[n].images[1]]
            <4>4. I \in Surjection(DOMAIN figures, images)
                BY DEF Surjection
            <4> HIDE DEF I, images
            <4> QED
                BY <4>3, <4>4, FS_Surjection
        <3> HIDE DEF images
        <3> QED
            BY <1>2, <2>2, <3>2, <3>3 DEF Read, AreCountable
    <2> QED
        BY <2>1, <2>2
<1> QED
    BY <1>1, <1>2, FamilyNumbers

LEMMA ResultIs ==
    ASSUME family \in Families, NEW result \in CycleResult
    PROVE  /\ result.kind = "evidence" => AreCountable(result.packs)
           /\ result.kind = "urls" => result.urls \subseteq URLs
<1>1. CASE result \in [kind : {"urls"}, urls : Contents]
    BY <1>1, FamilyNumbers
<1>2. CASE result \in {Quarantine, Nothing}
    BY <1>2 DEF Quarantine, Nothing
<1>3. CASE result \in {Read(p) : p \in Pages[family]}
    BY <1>3, ReadIs DEF Quarantine
<1> QED
    BY <1>1, <1>2, <1>3 DEF CycleResult, Listed

LEMMA SameFamily ==
    ASSUME family' = family
    PROVE  /\ Cycles' = Cycles /\ CycleResult' = CycleResult /\ CycleRun' = CycleRun
           /\ Collecting' = Collecting
           /\ \A packs : AreCountable(packs)' <=> AreCountable(packs)
           /\ \A target : Needed(target)' = Needed(target)
<1>1. Cycles' = Cycles
    BY DEF Cycles
<1>2. CycleResult' = CycleResult
    <2>1. \A p : Read(p)' = Read(p)
        BY DEF Read
    <2> QED
        BY <2>1 DEF CycleResult
<1>3. CycleRun' = CycleRun
    BY <1>2 DEF CycleRun
<1>4. Collecting' = Collecting
    BY <1>1, <1>2 DEF Collecting
<1> QED
    BY <1>1, <1>2, <1>3, <1>4 DEF AreCountable, Needed

LEMMA CollectorIs ==
    ASSUME CycleTypes, NEW w \in Collectors, collector[w] # NoCollector
    PROVE  /\ collector[w] \in Collecting /\ collector[w].cycle \in Cycles
           /\ collector[w].step \in {"claimed", "reading", "sending", "staged", "deferring", "staging"}
           /\ collector[w].step = "sending" => collector[w].under \in Nat
           /\ collector[w].step = "deferring" => collector[w].until \in Nat
           /\ collector[w].step = "staging" => collector[w].result \in CycleResult
           /\ run[collector[w].cycle] \in CycleRun
<1>1. collector[w] \in Collecting /\ run \in [Cycles -> CycleRun]
    BY DEF CycleTypes
<1>2. CASE collector[w] \in [step : {"claimed", "staged"}, cycle : Cycles]
    BY <1>1, <1>2
<1>3. CASE collector[w] \in [step : {"deferring"}, cycle : Cycles, until : Nat]
    BY <1>1, <1>3
<1>4. CASE collector[w] \in [step : {"staging"}, cycle : Cycles, result : CycleResult]
    BY <1>1, <1>4
<1>5. CASE collector[w] \in [step : {"reading"}, cycle : Cycles, from : Nat]
    BY <1>1, <1>5
<1>6. CASE collector[w] \in [step : {"sending"}, cycle : Cycles, under : Nat]
    BY <1>1, <1>6
<1> QED
    BY <1>1, <1>2, <1>3, <1>4, <1>5, <1>6 DEF Collecting

LEMMA IdleIs ==
    ASSUME CycleTypes, NEW w \in Collectors, collector[w].step # "idle"
    PROVE  collector[w] # NoCollector
BY DEF NoCollector

\* A worker goes on with its cycle, or leaves it.
GoesOn(w, c, next, staging) ==
    /\ collector[w] # NoCollector /\ c = collector[w].cycle
    /\ family' = family /\ minute' = minute /\ cycle' = cycle
    /\ collector' = [collector EXCEPT ![w] = next] /\ run' = [run EXCEPT ![c] = staging]
    /\ leased' = leased \/ leased' = [leased EXCEPT ![c] = 0]
    /\ access' \in BOOLEAN /\ asked' \in 0..minute
    /\ acquired' \in [cycle : 0..cycle, until : Nat]
    /\ sent' \in [cycle : 0..cycle, at : 0..minute, under : Nat]
    /\ announced' \in [Cycles -> Nat] /\ lost' \subseteq Cycles
    /\ next # NoCollector =>
          /\ next.cycle = c
          /\ next.step = "claimed" => staging.requests = 0
          /\ next.step # "claimed" => staging.target # -1
    /\ staging.target # -1 => staging.requests <= Needed(staging.target)

LEMMA CycleGoesOn ==
    ASSUME FamilyIInv, NEW w \in Collectors, NEW c \in Cycles, NEW next \in Collecting \cup {NoCollector},
           NEW staging \in CycleRun, GoesOn(w, c, next, staging)
    PROVE  CycleTypes' /\ CyclesAreOwn'
<1> USE DEF GoesOn
<1>1. CycleTypes /\ CyclesAreOwn
    BY DEF FamilyIInv
<1>2. /\ collector'[w] = next /\ run'[c] = staging
      /\ \A v \in Collectors \ {w} : collector'[v] = collector[v]
      /\ \A d \in Cycles \ {c} : run'[d] = run[d]
      /\ run' \in [Cycles -> CycleRun] /\ collector' \in [Collectors -> Collecting \cup {NoCollector}]
    BY <1>1 DEF CycleTypes
<1>3. leased' \in [Cycles -> Nat]
    BY <1>1 DEF CycleTypes
<1>4. CycleTypes'
    BY <1>1, <1>2, <1>3, SameFamily DEF CycleTypes
<1>5. c <= cycle /\ \A v \in Collectors \ {w} : collector[v] # NoCollector => collector[v].cycle # c
    BY <1>1 DEF CyclesAreOwn
<1>6. ASSUME NEW u \in Collectors, collector'[u] # NoCollector
      PROVE  /\ collector'[u].cycle <= cycle
             /\ collector'[u].step = "claimed" => run'[collector'[u].cycle].requests = 0
             /\ collector'[u].step # "claimed" => run'[collector'[u].cycle].target # -1
             /\ \A v \in Collectors :
                   collector'[v] # NoCollector /\ collector'[v].cycle = collector'[u].cycle => v = u
    <2>1. CASE u = w
        BY <1>2, <1>5, <1>6, <2>1
    <2>2. CASE u # w
        <3>1. collector'[u] = collector[u] /\ collector[u].cycle \in Cycles \ {c}
            BY <1>1, <1>2, <1>5, <1>6, <2>2, CollectorIs
        <3>2. run'[collector[u].cycle] = run[collector[u].cycle]
            BY <1>2, <3>1
        <3>3. \A v \in Collectors :
                  collector'[v] # NoCollector /\ collector'[v].cycle = collector'[u].cycle => v = u
            BY <1>1, <1>2, <1>6, <3>1 DEF CyclesAreOwn
        <3> QED
            BY <1>1, <1>6, <3>1, <3>2, <3>3 DEF CyclesAreOwn
    <2> QED
        BY <2>1, <2>2
<1>7. ASSUME NEW d \in Cycles, cycle < d PROVE run'[d] = NoRun
    <2>1. d # c
        <3>1. c \in Nat /\ cycle \in Nat /\ d \in Nat
            BY <1>1, FamilyNumbers DEF CycleTypes, Cycles
        <3> QED
            BY <1>5, <1>7, <3>1
    <2> QED
        BY <1>1, <1>2, <1>7, <2>1 DEF CyclesAreOwn
<1>8. ASSUME NEW d \in Cycles, run'[d].target # -1 PROVE run'[d].requests <= Needed(run'[d].target)
    <2>1. CASE d = c
        BY <1>2, <1>8, <2>1
    <2>2. CASE d # c
        BY <1>1, <1>2, <1>8, <2>2 DEF CyclesAreOwn
    <2> QED
        BY <2>1, <2>2
<1> QED
    BY <1>4, <1>6, <1>7, <1>8, SameFamily DEF CyclesAreOwn, Needed, NoCollector, NoRun

\* What has been listed, read and counted stays as it is.
LEMMA LedgerStands ==
    ASSUME FamilyIInv, UNCHANGED <<family, ledger, retracted>>, minute' \in Nat, minute <= minute'
    PROVE  LedgerTypes' /\ IdentitiesAreKept' /\ AdmittedAsRead' /\ RetractionsStand'
<1>1. LedgerTypes /\ IdentitiesAreKept /\ AdmittedAsRead /\ RetractionsStand /\ CycleTypes
    BY DEF FamilyIInv
<1>2. /\ family' = family /\ retracted' = retracted /\ discovered' = discovered /\ candidate' = candidate
      /\ checked' = checked /\ tombstone' = tombstone /\ admission' = admission /\ owner' = owner
      /\ latest' = latest /\ first' = first
    BY DEF ledger
<1>3. 0..minute \subseteq 0..minute'
    <2>1. minute \in Nat
        BY <1>1, FamilyNumbers DEF CycleTypes
    <2> QED
        BY <2>1
<1>4. LedgerTypes'
    BY <1>1, <1>2, <1>3 DEF LedgerTypes
<1>5. IdentitiesAreKept'
    BY <1>1, <1>2, SameFamily DEF IdentitiesAreKept
<1> QED
    BY <1>1, <1>2, <1>4, <1>5 DEF AdmittedAsRead, RetractionsStand

\* No gate is granted and no wait is announced; who has one to tell keeps it,
\* or it is lost.
WaitsStand ==
    /\ announced' = announced /\ lost \subseteq lost' /\ (family = "kozaru" => acquired' = acquired)
    /\ \A v \in Collectors :
          /\ collector[v].step = "deferring" =>
                \/ collector'[v] = collector[v]
                \/ collector[v].cycle \in lost' \/ announced[collector[v].cycle] = 0
          /\ collector'[v] # NoCollector =>
                \/ collector'[v].cycle # acquired.cycle
                \/ collector[v] # NoCollector /\ collector'[v].cycle = collector[v].cycle

LEMMA WaitsStay ==
    ASSUME FamilyIInv, family' = family, minute' \in Nat, minute <= minute', WaitsStand
    PROVE  WaitsAreKept'
<1>1. WaitsAreKept /\ CycleTypes
    BY DEF FamilyIInv
<1>2. minute \in Nat /\ \A d \in Cycles : announced[d] \in Nat
    BY <1>1, FamilyNumbers DEF CycleTypes
<1> SUFFICES ASSUME family = "kozaru", NEW d \in Cycles \ lost', minute' < announced[d]
             PROVE  \/ \E w \in Collectors : /\ collector'[w].step = "deferring" /\ collector'[w].cycle = d
                                            /\ collector'[w].until = announced[d]
                    \/ /\ announced[d] <= acquired.until
                       /\ \A w \in Collectors :
                             collector'[w] # NoCollector => collector'[w].cycle # acquired.cycle
    BY SameFamily DEF WaitsAreKept, WaitsStand, NoCollector
<1>3. d \in Cycles \ lost /\ minute < announced[d] /\ announced[d] # 0
    BY <1>2 DEF WaitsStand
<1>4. CASE \E w \in Collectors : /\ collector[w].step = "deferring" /\ collector[w].cycle = d
                                /\ collector[w].until = announced[d]
    BY <1>3, <1>4 DEF WaitsStand
<1>5. CASE /\ announced[d] <= acquired.until
           /\ \A w \in Collectors : collector[w] # NoCollector => collector[w].cycle # acquired.cycle
    BY <1>5 DEF WaitsStand
<1> QED
    BY <1>1, <1>3, <1>4, <1>5 DEF WaitsAreKept

\* Nothing is authorized or sent, and the gate keeps its cycle.
PaceStands ==
    /\ sent' = sent /\ asked' = asked
    /\ \A v \in Collectors : collector'[v].step = "sending" =>
          /\ collector'[v] = collector[v]
          /\ family = "kozaru" => acquired'.cycle = acquired.cycle \/ acquired'.cycle # collector[v].cycle

LEMMA PaceStays ==
    ASSUME FamilyIInv, family' = family, PaceStands
    PROVE  PaceIsKept'
BY DEF FamilyIInv, PaceIsKept, PaceStands, Spaced

\* The same for a step that leaves the gate and its wait alone.
LEMMA GoesOnQuietly ==
    ASSUME FamilyIInv, NEW w \in Collectors, NEW c \in Cycles, NEW next \in Collecting \cup {NoCollector},
           NEW staging \in CycleRun, GoesOn(w, c, next, staging),
           UNCHANGED <<ledger, retracted, acquired, asked, sent, waits>>,
           collector[w].step # "deferring", next.step # "sending"
    PROVE  FamilyIInv'
<1>1. CycleTypes' /\ CyclesAreOwn'
    BY CycleGoesOn
<1>2. minute \in Nat /\ minute' = minute /\ family' = family /\ minute <= minute'
    BY FamilyNumbers DEF FamilyIInv, CycleTypes, GoesOn
<1>3. LedgerTypes' /\ IdentitiesAreKept' /\ AdmittedAsRead' /\ RetractionsStand'
    BY <1>2, LedgerStands
<1>4. /\ collector'[w] = next /\ \A v \in Collectors \ {w} : collector'[v] = collector[v]
      /\ next # NoCollector => collector[w] # NoCollector /\ next.cycle = collector[w].cycle
    BY DEF FamilyIInv, CycleTypes, GoesOn
<1>5. WaitsStand /\ PaceStands
    BY <1>4 DEF WaitsStand, PaceStands, waits
<1> QED
    BY <1>1, <1>2, <1>3, <1>5, WaitsStay, PaceStays DEF FamilyIInv

LEMMA NoRunIsRun == NoRun \in CycleRun /\ NoRun.target = -1 /\ NoCollector \in Collecting \cup {NoCollector}
BY DEF NoRun, CycleRun, CycleResult

\* A worker leaves.
LEMMA LeaveGoesOn ==
    ASSUME FamilyIInv, NEW w \in Collectors, collector[w] # NoCollector, Leave(w),
           UNCHANGED <<family, minute, cycle, asked, access, sent, announced>>,
           acquired' \in [cycle : 0..cycle, until : Nat], lost' \subseteq Cycles
    PROVE  /\ GoesOn(w, collector[w].cycle, NoCollector, NoRun) /\ collector[w].cycle \in Cycles
           /\ leased' = [leased EXCEPT ![collector[w].cycle] = 0]
<1>1. CycleTypes
    BY DEF FamilyIInv
<1>2. /\ access' \in BOOLEAN /\ asked' \in 0..minute /\ announced' \in [Cycles -> Nat]
      /\ sent' \in [cycle : 0..cycle, at : 0..minute, under : Nat]
    BY <1>1 DEF CycleTypes
<1> QED
    BY <1>1, <1>2, NoRunIsRun, CollectorIs DEF GoesOn, Leave

LEMMA FamilyClaimKeeps ==
    ASSUME FamilyIInv, NEW w \in Collectors, FamilyClaim(w)
    PROVE  FamilyIInv'
<1> DEFINE c == cycle + 1
           next == [step |-> "claimed", cycle |-> c]
<1>1. CycleTypes /\ CyclesAreOwn /\ WaitsAreKept
    BY DEF FamilyIInv
<1>2. /\ collector[w] = NoCollector /\ cycle < MaxCycles[family] /\ cycle' = c
      /\ leased' = [leased EXCEPT ![c] = minute + CycleLease]
      /\ collector' = [collector EXCEPT ![w] = next]
      /\ UNCHANGED <<family, minute, acquired, run, asked, access, ledger, sent, waits, retracted>>
    BY DEF FamilyClaim
<1>3. cycle \in Nat /\ minute \in Nat /\ MaxCycles[family] \in Nat
    BY <1>1, FamilyNumbers DEF CycleTypes
<1>4. c \in Cycles /\ c \in 0..MaxCycles[family] /\ c \in Nat /\ cycle < c /\ cycle <= c
    BY <1>2, <1>3 DEF Cycles
<1>5. run[c] = NoRun /\ run[c].requests = 0 /\ run[c].target = -1
    BY <1>1, <1>4 DEF CyclesAreOwn, NoRun
<1>6. next \in Collecting /\ next # NoCollector /\ next.cycle = c /\ next.step = "claimed"
    BY <1>4 DEF Collecting, NoCollector
<1> HIDE DEF c, next
<1>7. /\ collector'[w] = next /\ \A v \in Collectors \ {w} : collector'[v] = collector[v]
      /\ leased'[c] = minute + CycleLease /\ \A d \in Cycles \ {c} : leased'[d] = leased[d]
      /\ family' = family /\ minute' = minute /\ acquired' = acquired /\ run' = run
      /\ announced' = announced /\ lost' = lost /\ sent' = sent /\ asked' = asked
    BY <1>1, <1>2, <1>4 DEF CycleTypes, waits
<1>8. CycleTypes'
    <2>1. leased' \in [Cycles -> Nat]
        <3>1. minute + CycleLease \in Nat
            BY <1>3, FamilyNumbers
        <3> QED
            BY <1>1, <1>2, <1>4, <3>1 DEF CycleTypes
    <2>2. collector' \in [Collectors -> Collecting \cup {NoCollector}]
        BY <1>1, <1>2, <1>6 DEF CycleTypes
    <2>3. /\ acquired \in [cycle : 0..c, until : Nat]
          /\ sent \in [cycle : 0..c, at : 0..minute, under : Nat]
        <3>1. 0..cycle \subseteq 0..c
            BY <1>3, <1>4
        <3> QED
            BY <1>1, <3>1 DEF CycleTypes
    <2> QED
        BY <1>1, <1>2, <1>4, <1>7, <2>1, <2>2, <2>3, SameFamily DEF CycleTypes
<1>9. \A v \in Collectors : collector[v] # NoCollector => collector[v].cycle # c /\ collector[v].cycle <= c
    <2>1. ASSUME NEW v \in Collectors, collector[v] # NoCollector
          PROVE  collector[v].cycle # c /\ collector[v].cycle <= c
        <3>1. collector[v].cycle \in Cycles /\ collector[v].cycle <= cycle
            BY <1>1, <2>1, CollectorIs DEF CyclesAreOwn
        <3>2. collector[v].cycle \in Nat
            BY <1>3, <3>1 DEF Cycles
        <3> QED
            BY <1>3, <1>4, <3>1, <3>2
    <2> QED
        BY <2>1
<1>10. CyclesAreOwn'
    <2>1. ASSUME NEW u \in Collectors, collector'[u] # NoCollector
          PROVE  /\ collector'[u].cycle <= c
                 /\ collector'[u].step = "claimed" => run[collector'[u].cycle].requests = 0
                 /\ collector'[u].step # "claimed" => run[collector'[u].cycle].target # -1
                 /\ \A v \in Collectors :
                       collector'[v] # NoCollector /\ collector'[v].cycle = collector'[u].cycle => v = u
        <3>1. CASE u = w
            <4>1. c <= c
                BY <1>4
            <4> QED
                BY <1>5, <1>6, <1>7, <1>9, <3>1, <4>1
        <3>2. CASE u # w
            BY <1>1, <1>6, <1>7, <1>9, <2>1, <3>2 DEF CyclesAreOwn
        <3> QED
            BY <3>1, <3>2
    <2>2. \A d \in Cycles : c < d => run[d] = NoRun
        <3>1. \A d \in Cycles : c < d => cycle < d
            BY <1>3, <1>4 DEF Cycles
        <3> QED
            BY <1>1, <3>1 DEF CyclesAreOwn
    <2> QED
        BY <1>1, <1>2, <1>7, <2>1, <2>2, SameFamily DEF CyclesAreOwn
<1>11. WaitsAreKept' /\ PaceIsKept'
    <2>1. acquired.cycle # c /\ minute <= minute' /\ minute' \in Nat
        BY <1>1, <1>3, <1>4, <1>7 DEF CycleTypes
    <2>2. collector[w].step # "deferring"
        BY <1>2 DEF NoCollector
    <2>3. WaitsStand /\ PaceStands
        BY <1>6, <1>7, <2>1, <2>2 DEF WaitsStand, PaceStands
    <2> QED
        BY <1>7, <2>1, <2>3, WaitsStay, PaceStays
<1>12. LedgerTypes' /\ IdentitiesAreKept' /\ AdmittedAsRead' /\ RetractionsStand'
    <2>1. minute <= minute'
        BY <1>3, <1>7
    <2> QED
        BY <1>2, <1>3, <1>7, <2>1, LedgerStands
<1> QED
    BY <1>8, <1>10, <1>11, <1>12 DEF FamilyIInv

LEMMA FamilyHeartbeatKeeps ==
    ASSUME FamilyIInv, NEW w \in Collectors, FamilyHeartbeat(w)
    PROVE  FamilyIInv'
<1>1. CycleTypes /\ CyclesAreOwn /\ WaitsAreKept
    BY DEF FamilyIInv
<1>2. PICK c : c = collector[w].cycle
    OBVIOUS
<1>3. /\ collector[w] # NoCollector /\ Leased(c)
      /\ leased' = [leased EXCEPT ![c] = minute + CycleLease]
      /\ acquired' = IF family = "pokesup" /\ acquired.cycle = c
                     THEN [acquired EXCEPT !.until = minute + CycleLease] ELSE acquired
      /\ UNCHANGED <<family, minute, cycle, collector, run, asked, access, ledger, sent, waits, retracted>>
    BY <1>2 DEF FamilyHeartbeat
<1>4. c \in Cycles
    BY <1>1, <1>2, <1>3, CollectorIs
<1>5. minute \in Nat /\ minute + CycleLease \in Nat
    BY <1>1, FamilyNumbers DEF CycleTypes
<1>6. /\ leased' \in [Cycles -> Nat] /\ \A d \in Cycles \ {c} : leased'[d] = leased[d]
      /\ acquired' \in [cycle : 0..cycle, until : Nat]
    BY <1>1, <1>3, <1>4, <1>5 DEF CycleTypes
<1>7. CycleTypes' /\ CyclesAreOwn'
    <2>1. CycleTypes'
        BY <1>1, <1>3, <1>6, SameFamily DEF CycleTypes, waits
    <2>2. CyclesAreOwn'
        BY <1>1, <1>3, SameFamily DEF CyclesAreOwn
    <2> QED
        BY <2>1, <2>2
<1>8. WaitsAreKept' /\ PaceIsKept'
    <2>1. family = "kozaru" => acquired' = acquired
        BY <1>3
    <2>2. minute' \in Nat /\ minute <= minute'
        BY <1>3, <1>5
    <2>3. WaitsStand /\ PaceStands
        BY <1>3, <2>1 DEF WaitsStand, PaceStands, waits
    <2> QED
        BY <1>3, <2>2, <2>3, WaitsStay, PaceStays
<1>9. LedgerTypes' /\ IdentitiesAreKept' /\ AdmittedAsRead' /\ RetractionsStand'
    <2>1. minute' \in Nat /\ minute <= minute'
        BY <1>3, <1>5
    <2> QED
        BY <1>3, <2>1, LedgerStands
<1> QED
    BY <1>7, <1>8, <1>9 DEF FamilyIInv

LEMMA LeaveKeeps ==
    ASSUME FamilyIInv, NEW w \in Collectors, collector[w] # NoCollector, Leave(w),
           collector[w].step # "deferring",
           UNCHANGED <<family, minute, cycle, asked, access, ledger, sent, waits, retracted, acquired>>
    PROVE  FamilyIInv'
<1>1. acquired' \in [cycle : 0..cycle, until : Nat] /\ lost' \subseteq Cycles /\ announced' = announced
    BY DEF FamilyIInv, CycleTypes, waits
<1>2. NoCollector.step # "sending"
    BY DEF NoCollector
<1> QED
    BY <1>1, <1>2, LeaveGoesOn, NoRunIsRun, GoesOnQuietly

LEMMA FamilyBeginKeeps ==
    ASSUME FamilyIInv, NEW w \in Collectors, FamilyBegin(w)
    PROVE  FamilyIInv'
<1>1. CycleTypes /\ CyclesAreOwn /\ WaitsAreKept
    BY DEF FamilyIInv
<1>2. PICK c : c = collector[w].cycle
    OBVIOUS
<1>3. collector[w].step = "claimed" /\ collector[w] # NoCollector
    BY <1>1, IdleIs DEF FamilyBegin
<1>4. UNCHANGED <<family, minute, cycle, asked, access, ledger, sent, waits, retracted>>
    BY DEF FamilyBegin
<1>5. c \in Cycles /\ run[c] \in CycleRun /\ run[c].requests = 0 /\ c <= cycle
    BY <1>1, <1>2, <1>3, CollectorIs DEF CyclesAreOwn
<1>6. CASE /\ acquired.until <= minute /\ acquired' = [cycle |-> c, until |-> minute + AcquireFor]
           /\ \E t \in Targets : run' = [run EXCEPT ![c] = [@ EXCEPT !.target = t]]
           /\ collector' = [collector EXCEPT ![w] = [step |-> "reading", cycle |-> c, from |-> 0]]
           /\ leased' = leased
    <2>1. PICK t \in Targets : run' = [run EXCEPT ![c] = [@ EXCEPT !.target = t]]
        BY <1>6
    <2>2. t \in URLs \cup {Listing} /\ t # -1
        <3>1. t \in URLs \cup {Listing}
            BY DEF Targets, Oldest
        <3> QED
            BY <3>1, FamilyNumbers DEF Listing
    <2> DEFINE staging == [run[c] EXCEPT !.target = t]
               next == [step |-> "reading", cycle |-> c, from |-> 0]
    <2>3. staging \in CycleRun /\ staging.target = t /\ staging.requests = 0
        BY <1>5, <2>2 DEF CycleRun
    <2>4. next \in Collecting /\ next.cycle = c /\ next.step = "reading" /\ next # NoCollector
        BY <1>5 DEF Collecting, NoCollector
    <2>5. minute \in Nat /\ minute + AcquireFor \in Nat /\ cycle \in Nat /\ c \in 0..cycle
        BY <1>1, <1>5, FamilyNumbers DEF CycleTypes, Cycles
    <2>6. acquired' \in [cycle : 0..cycle, until : Nat]
        BY <1>6, <2>5
    <2>7. collector' = [collector EXCEPT ![w] = next] /\ run' = [run EXCEPT ![c] = staging]
        BY <1>1, <1>6, <2>1 DEF CycleTypes
    <2>8. /\ asked' \in 0..minute /\ access' \in BOOLEAN /\ announced' \in [Cycles -> Nat]
          /\ lost' \subseteq Cycles /\ sent' \in [cycle : 0..cycle, at : 0..minute, under : Nat]
        BY <1>1, <1>4 DEF CycleTypes, waits
    <2>9. Needed(t) \in Nat /\ 0 <= Needed(t)
        BY DEF Needed
    <2> HIDE DEF staging, next
    <2>10. GoesOn(w, c, next, staging)
        BY <1>2, <1>3, <1>4, <1>6, <2>2, <2>3, <2>4, <2>6, <2>7, <2>8, <2>9 DEF GoesOn
    <2>11. CycleTypes' /\ CyclesAreOwn'
        BY <1>5, <2>3, <2>4, <2>10, CycleGoesOn
    <2>12. WaitsAreKept'
        <3> SUFFICES ASSUME family = "kozaru", NEW d \in Cycles \ lost, minute < announced[d]
                     PROVE  \E v \in Collectors :
                               /\ collector'[v].step = "deferring" /\ collector'[v].cycle = d
                               /\ collector'[v].until = announced[d]
            BY <1>4, SameFamily DEF WaitsAreKept, waits
        <3>1. ~ (announced[d] <= acquired.until)
            <4>1. acquired.until \in Nat /\ announced[d] \in Nat
                BY <1>1 DEF CycleTypes
            <4> QED
                BY <1>6, <2>5, <4>1
        <3>2. PICK v \in Collectors : /\ collector[v].step = "deferring" /\ collector[v].cycle = d
                                     /\ collector[v].until = announced[d]
            BY <1>1, <3>1 DEF WaitsAreKept
        <3>3. collector'[v] = collector[v]
            BY <1>1, <1>3, <2>7, <3>2 DEF CycleTypes
        <3> QED
            BY <3>2, <3>3
    <2>13. PaceIsKept'
        <3>1. \A v \in Collectors : collector'[v].step = "sending" =>
                  collector'[v] = collector[v] /\ v # w /\ collector[v] # NoCollector
            BY <1>1, <2>4, <2>7 DEF CycleTypes, NoCollector
        <3>2. acquired'.cycle = c
            BY <1>6
        <3>3. PaceStands
            BY <1>1, <1>2, <1>3, <1>4, <3>1, <3>2 DEF CyclesAreOwn, PaceStands
        <3> QED
            BY <1>4, <3>3, PaceStays
    <2>14. LedgerTypes' /\ IdentitiesAreKept' /\ AdmittedAsRead' /\ RetractionsStand'
        <3>1. minute' \in Nat /\ minute <= minute'
            BY <1>4, <2>5
        <3> QED
            BY <1>4, <3>1, LedgerStands
    <2> QED
        BY <2>11, <2>12, <2>13, <2>14 DEF FamilyIInv
<1>7. CASE Leave(w) /\ acquired' = acquired
    BY <1>3, <1>4, <1>7, LeaveKeeps
<1> QED
    BY <1>2, <1>6, <1>7 DEF FamilyBegin

LEMMA OnwardsAre ==
    ASSUME CycleTypes, NEW c \in Cycles, NEW answer, NEW next \in Onwards(c, answer)
    PROVE  /\ next \in Collecting /\ next.cycle = c /\ next # NoCollector
           /\ next.step \notin {"claimed", "sending"}
           /\ family = "kozaru" /\ answer = "server" => next.step = "deferring" /\ next.until \in Nat
<1>1. CASE next = [step |-> "reading", cycle |-> c, from |-> minute + Pace] /\ answer = "page"
    <2>1. minute + Pace \in Nat
        BY FamilyNumbers DEF CycleTypes
    <2> QED
        BY <1>1, <2>1 DEF Collecting, NoCollector
<1>2. CASE /\ \E result \in CycleResult : next = [step |-> "staging", cycle |-> c, result |-> result]
           /\ answer \in {"page", "refused"} \/ family = "pokesup"
    BY <1>2 DEF Collecting, NoCollector
<1>3. CASE \E t \in Nat : next = [step |-> "deferring", cycle |-> c, until |-> t]
    BY <1>3 DEF Collecting, NoCollector
<1>4. CASE answer = "page" /\ ~ run[c].requests < Needed(run[c].target)
    <2>1. PICK R : R = IF run[c].target = Listing THEN Listed ELSE {Read(p) : p \in Pages[family]}
        OBVIOUS
    <2>2. R \subseteq CycleResult
        BY <2>1 DEF CycleResult
    <2>3. next \in [step : {"staging"}, cycle : {c}, result : R]
        BY <1>4, <2>1 DEF Onwards
    <2> QED
        BY <1>2, <1>4, <2>2, <2>3
<1>5. CASE answer = "page" /\ run[c].requests < Needed(run[c].target)
    BY <1>1, <1>5 DEF Onwards
<1>6. CASE answer # "page" /\ (answer = "refused" \/ family = "pokesup")
    <2>1. Quarantine \in CycleResult
        BY DEF CycleResult, Listed
    <2>2. next = [step |-> "staging", cycle |-> c, result |-> Quarantine]
        BY <1>6 DEF Onwards
    <2> QED
        BY <1>2, <1>6, <2>1, <2>2
<1>7. CASE answer # "page" /\ ~ (answer = "refused" \/ family = "pokesup")
    <2>1. PICK wait \in {AcquireFor, ServerPause} :
              next = [step |-> "deferring", cycle |-> c, until |-> minute + wait]
        BY <1>7 DEF Onwards
    <2>2. minute + wait \in Nat
        BY FamilyNumbers DEF CycleTypes
    <2> QED
        BY <1>3, <2>1, <2>2
<1> QED
    BY <1>4, <1>5, <1>6, <1>7

LEMMA FamilyAuthorizeKeeps ==
    ASSUME FamilyIInv, NEW w \in Collectors, FamilyAuthorize(w)
    PROVE  FamilyIInv'
<1>1. CycleTypes /\ CyclesAreOwn /\ PaceIsKept
    BY DEF FamilyIInv
<1>2. PICK c : c = collector[w].cycle
    OBVIOUS
<1>3. collector[w].step = "reading" /\ collector[w] # NoCollector
    BY <1>1, IdleIs DEF FamilyAuthorize
<1>4. UNCHANGED <<family, minute, leased, cycle, acquired, access, ledger, sent, waits, retracted>>
    BY DEF FamilyAuthorize
<1>5. c \in Cycles /\ run[c] \in CycleRun /\ run[c].target # -1
    BY <1>1, <1>2, <1>3, CollectorIs DEF CyclesAreOwn
<1>6. /\ run[c].requests \in 0..3 /\ run[c].requests <= Needed(run[c].target) /\ minute \in 0..minute
      /\ minute \in Nat /\ minute > 0
    BY <1>1, <1>5, FamilyNumbers DEF CyclesAreOwn, CycleRun, CycleTypes
<1>7. /\ acquired' \in [cycle : 0..cycle, until : Nat] /\ access' \in BOOLEAN
      /\ announced' \in [Cycles -> Nat] /\ lost' \subseteq Cycles
      /\ sent' \in [cycle : 0..cycle, at : 0..minute, under : Nat]
    BY <1>1, <1>4 DEF CycleTypes, waits
<1>8. CASE Authorized(c)
    <2> DEFINE staging == [run[c] EXCEPT !.requests = @ + 1]
               next == [step |-> "sending", cycle |-> c, under |-> minute]
    <2>1. /\ run' = [run EXCEPT ![c].requests = @ + 1] /\ asked' = minute
          /\ collector' = [collector EXCEPT ![w] = next]
        BY <1>2, <1>8 DEF FamilyAuthorize
    <2>2. run[c].requests + 1 \in 0..3 /\ run[c].requests + 1 <= Needed(run[c].target)
        BY <1>6, <1>8 DEF Authorized, Needed
    <2>3. /\ staging \in CycleRun /\ staging.target = run[c].target
          /\ staging.requests = run[c].requests + 1
        BY <1>5, <2>2 DEF CycleRun
    <2>4. run' = [run EXCEPT ![c] = staging]
        BY <1>1, <2>1 DEF CycleTypes
    <2>5. /\ next \in Collecting /\ next # NoCollector /\ next.cycle = c /\ next.step = "sending"
          /\ next.under = minute
        BY <1>5, <1>6 DEF Collecting, NoCollector
    <2> HIDE DEF staging, next
    <2>6. GoesOn(w, c, next, staging)
        BY <1>2, <1>3, <1>4, <1>5, <1>6, <1>7, <2>1, <2>2, <2>3, <2>4, <2>5 DEF GoesOn
    <2>7. CycleTypes' /\ CyclesAreOwn'
        BY <1>5, <2>3, <2>5, <2>6, CycleGoesOn
    <2>8. collector'[w] = next /\ \A v \in Collectors \ {w} : collector'[v] = collector[v]
        BY <1>1, <2>1 DEF CycleTypes
    <2>9. minute' = minute /\ family' = family /\ minute <= minute'
        BY <1>4, <1>6
    <2>10. WaitsAreKept'
        <3>1. WaitsStand
            BY <1>2, <1>3, <1>4, <2>5, <2>8 DEF WaitsStand, waits
        <3> QED
            BY <1>6, <2>9, <3>1, WaitsStay
    <2>11. PaceIsKept'
        <3> SUFFICES ASSUME family = "kozaru" PROVE PaceIsKept'
            BY <2>9 DEF PaceIsKept
        <3>1. asked = 0 \/ asked + Pace <= minute
            BY <1>8 DEF Authorized
        <3>2. asked \in Nat /\ minute \in 1..minute /\ Pace \in Nat /\ 1..asked \subseteq 1..minute
            BY <1>1, <1>6, FamilyNumbers DEF CycleTypes
        <3>3. \A a \in 1..asked : Spaced(a, minute) /\ Spaced(minute, a)
            BY <3>1, <3>2 DEF Spaced
        <3>4. \A v \in Collectors \ {w} : collector[v].step = "sending" =>
                  /\ collector[v].under \in 1..asked /\ acquired.cycle # collector[v].cycle
            <4>1. ASSUME NEW v \in Collectors \ {w}, collector[v].step = "sending"
                  PROVE  collector[v].cycle # c
                BY <1>1, <1>2, <1>3, <4>1, IdleIs DEF CyclesAreOwn
            <4>2. acquired.cycle = c
                BY <1>8 DEF Authorized, Acquires
            <4> QED
                BY <1>1, <4>1, <4>2 DEF PaceIsKept
        <3>5. sent' = sent /\ acquired' = acquired /\ (sent.cycle # 0 => sent.under \in 1..asked)
            BY <1>1, <1>4 DEF PaceIsKept
        <3>6. sent'.cycle # 0 => sent'.under \in 1..asked'
            BY <2>1, <3>2, <3>5
        <3>7. ASSUME NEW u \in Collectors, collector'[u].step = "sending"
              PROVE  /\ collector'[u].under \in 1..asked'
                     /\ acquired'.cycle = collector'[u].cycle => collector'[u].under = asked'
                     /\ sent'.cycle # 0 => Spaced(sent'.under, collector'[u].under)
                     /\ \A v \in Collectors \ {u} : collector'[v].step = "sending" =>
                           Spaced(collector'[v].under, collector'[u].under)
            <4>1. CASE u = w
                BY <2>1, <2>5, <2>8, <3>2, <3>3, <3>4, <3>5, <4>1
            <4>2. CASE u # w
                <5>1. collector'[u] = collector[u]
                    BY <2>8, <4>2
                <5>2. \A v \in Collectors \ {u} : collector'[v].step = "sending" =>
                           Spaced(collector'[v].under, collector'[u].under)
                    BY <1>1, <2>5, <2>8, <3>3, <3>4, <3>7, <4>2, <5>1 DEF PaceIsKept
                <5> QED
                    BY <1>1, <2>1, <3>2, <3>4, <3>5, <3>7, <4>2, <5>1, <5>2 DEF PaceIsKept
            <4> QED
                BY <4>1, <4>2
        <3> QED
            BY <3>6, <3>7 DEF PaceIsKept, Spaced
    <2>12. LedgerTypes' /\ IdentitiesAreKept' /\ AdmittedAsRead' /\ RetractionsStand'
        BY <1>4, <1>6, <2>9, LedgerStands
    <2> QED
        BY <2>7, <2>10, <2>11, <2>12 DEF FamilyIInv
<1>9. CASE ~ Authorized(c)
    <2>1. PICK next \in Onwards(c, "lost") : collector' = [collector EXCEPT ![w] = next]
        BY <1>2, <1>9 DEF FamilyAuthorize
    <2>2. run' = [run EXCEPT ![c] = run[c]] /\ asked' \in 0..minute /\ asked' = asked
        BY <1>1, <1>2, <1>9 DEF FamilyAuthorize, CycleTypes
    <2>3. /\ next \in Collecting /\ next.cycle = c /\ next # NoCollector
          /\ next.step \notin {"claimed", "sending"}
        BY <1>1, <1>5, OnwardsAre
    <2>4. GoesOn(w, c, next, run[c])
        BY <1>2, <1>3, <1>4, <1>5, <1>6, <1>7, <2>1, <2>2, <2>3 DEF GoesOn
    <2> QED
        BY <1>3, <1>4, <1>5, <2>2, <2>3, <2>4, GoesOnQuietly
<1> QED
    BY <1>8, <1>9

LEMMA FamilySendKeeps ==
    ASSUME FamilyIInv, NEW w \in Collectors, FamilySend(w)
    PROVE  FamilyIInv'
<1>1. CycleTypes /\ CyclesAreOwn /\ PaceIsKept /\ WaitsAreKept
    BY DEF FamilyIInv
<1>2. PICK c : c = collector[w].cycle
    OBVIOUS
<1>3. collector[w].step = "sending" /\ collector[w] # NoCollector
    BY <1>1, IdleIs DEF FamilySend
<1>4. UNCHANGED <<family, minute, leased, cycle, acquired, run, asked, access, ledger, lost, retracted>>
    BY DEF FamilySend
<1>5. /\ c \in Cycles /\ run[c] \in CycleRun /\ run[c].target # -1 /\ collector[w].under \in Nat
      /\ c <= cycle
    BY <1>1, <1>2, <1>3, CollectorIs DEF CyclesAreOwn
<1>6. /\ run[c].requests <= Needed(run[c].target) /\ minute \in 0..minute /\ minute \in Nat
      /\ c \in 0..cycle
    BY <1>1, <1>5, FamilyNumbers DEF CyclesAreOwn, CycleTypes, Cycles
<1>7. PICK answer \in {"page", "refused", "server", "lost"} : \E next \in Onwards(c, answer) :
          /\ collector' = [collector EXCEPT ![w] = next]
          /\ announced' = IF family = "kozaru" /\ answer = "server"
                          THEN [announced EXCEPT ![c] = next.until] ELSE announced
    BY <1>2 DEF FamilySend
<1>8. PICK next \in Onwards(c, answer) :
          /\ collector' = [collector EXCEPT ![w] = next]
          /\ announced' = IF family = "kozaru" /\ answer = "server"
                          THEN [announced EXCEPT ![c] = next.until] ELSE announced
    BY <1>7
<1>9. /\ next \in Collecting /\ next.cycle = c /\ next # NoCollector
      /\ next.step \notin {"claimed", "sending"}
      /\ family = "kozaru" /\ answer = "server" => next.step = "deferring" /\ next.until \in Nat
    BY <1>1, <1>5, OnwardsAre
<1>10. sent' = IF family = "kozaru"
              THEN [cycle |-> c, at |-> minute, under |-> collector[w].under] ELSE sent
    BY <1>2 DEF FamilySend
<1>11. sent' \in [cycle : 0..cycle, at : 0..minute, under : Nat]
    BY <1>1, <1>5, <1>6, <1>10 DEF CycleTypes
<1>12. GoesOn(w, c, next, run[c])
    <2>1. run' = [run EXCEPT ![c] = run[c]]
        BY <1>1, <1>4 DEF CycleTypes
    <2>2. /\ asked' \in 0..minute /\ access' \in BOOLEAN /\ lost' \subseteq Cycles
          /\ acquired' \in [cycle : 0..cycle, until : Nat]
        BY <1>1, <1>4 DEF CycleTypes
    <2>3. announced' \in [Cycles -> Nat]
        BY <1>1, <1>8, <1>9 DEF CycleTypes
    <2> QED
        BY <1>2, <1>3, <1>4, <1>5, <1>6, <1>8, <1>9, <1>11, <2>1, <2>2, <2>3 DEF GoesOn
<1>13. CycleTypes' /\ CyclesAreOwn'
    BY <1>5, <1>9, <1>12, CycleGoesOn
<1>14. collector'[w] = next /\ \A v \in Collectors \ {w} : collector'[v] = collector[v]
    BY <1>1, <1>8 DEF CycleTypes
<1>15. WaitsAreKept'
    <2> SUFFICES ASSUME family = "kozaru", NEW d \in Cycles \ lost, minute < announced'[d]
                 PROVE  \/ \E v \in Collectors :
                              /\ collector'[v].step = "deferring" /\ collector'[v].cycle = d
                              /\ collector'[v].until = announced'[d]
                        \/ /\ announced'[d] <= acquired.until
                           /\ \A v \in Collectors :
                                 collector'[v] # NoCollector => collector'[v].cycle # acquired.cycle
        BY <1>4, SameFamily DEF WaitsAreKept, NoCollector
    <2>1. CASE answer = "server" /\ d = c
        <3>1. announced'[d] = next.until
            BY <1>1, <1>8, <2>1 DEF CycleTypes
        <3> QED
            BY <1>9, <1>14, <2>1, <3>1
    <2>2. CASE ~ (answer = "server" /\ d = c)
        <3>1. announced'[d] = announced[d]
            BY <1>1, <1>8, <2>2 DEF CycleTypes
        <3>2. \A v \in Collectors : collector'[v] # NoCollector =>
                  collector[v] # NoCollector /\ collector'[v].cycle = collector[v].cycle
            BY <1>2, <1>3, <1>9, <1>14
        <3>3. \A v \in Collectors : collector[v].step = "deferring" => collector'[v] = collector[v]
            BY <1>3, <1>14
        <3> QED
            BY <1>1, <3>1, <3>2, <3>3 DEF WaitsAreKept
    <2> QED
        BY <2>1, <2>2
<1>16. PaceIsKept'
    <2> SUFFICES ASSUME family = "kozaru"
                 PROVE  /\ sent'.cycle # 0 => sent'.under \in 1..asked
                        /\ \A u \in Collectors : collector'[u].step = "sending" =>
                              /\ collector'[u].under \in 1..asked
                              /\ acquired.cycle = collector'[u].cycle => collector'[u].under = asked
                              /\ sent'.cycle # 0 => Spaced(sent'.under, collector'[u].under)
                              /\ \A v \in Collectors \ {u} : collector'[v].step = "sending" =>
                                    Spaced(collector'[v].under, collector'[u].under)
        BY <1>4 DEF PaceIsKept, Spaced
    <2>1. \A v \in Collectors : collector'[v].step = "sending" => v # w /\ collector'[v] = collector[v]
        BY <1>9, <1>14
    <2>2. sent'.under = collector[w].under
        BY <1>10
    <2> QED
        BY <1>1, <1>3, <2>1, <2>2 DEF PaceIsKept
<1>17. LedgerTypes' /\ IdentitiesAreKept' /\ AdmittedAsRead' /\ RetractionsStand'
    <2>1. minute' \in Nat /\ minute <= minute'
        BY <1>4, <1>6
    <2> QED
        BY <1>4, <2>1, LedgerStands
<1> QED
    BY <1>13, <1>15, <1>16, <1>17 DEF FamilyIInv

\* What the publisher told a cycle is lost with it.
LEMMA LosingIs ==
    ASSUME CycleTypes, NEW c \in Cycles
    PROVE  Losing(c) \subseteq Cycles /\ lost \subseteq Losing(c) /\ (c \in Losing(c) \/ announced[c] = 0)
BY DEF Losing, CycleTypes

\* A wait that the database is told is kept by the gate of the cycle it was
\* told to, which is over from then on; one that it refuses to hear is lost.
LEMMA FamilyDeferKeeps ==
    ASSUME FamilyIInv, NEW w \in Collectors, FamilyDefer(w)
    PROVE  FamilyIInv'
<1>1. CycleTypes /\ CyclesAreOwn /\ WaitsAreKept
    BY DEF FamilyIInv
<1>2. PICK c, t : c = collector[w].cycle /\ t = collector[w].until
    OBVIOUS
<1>3. collector[w].step = "deferring" /\ collector[w] # NoCollector
    BY <1>1, IdleIs DEF FamilyDefer
<1>4. /\ acquired' = Deferred_(c, t) /\ Leave(w)
      /\ lost' = IF Leased(c) /\ acquired.cycle = c THEN lost ELSE Losing(c)
      /\ UNCHANGED <<family, minute, cycle, asked, access, ledger, sent, announced, retracted>>
    BY <1>2 DEF FamilyDefer
<1>5. c \in Cycles /\ t \in Nat
    BY <1>1, <1>2, <1>3, CollectorIs
<1>6. /\ minute \in Nat /\ acquired \in [cycle : 0..cycle, until : Nat]
      /\ acquired.until \in Nat /\ \A d \in Cycles : announced[d] \in Nat
    BY <1>1, FamilyNumbers DEF CycleTypes
<1>7. /\ acquired' \in [cycle : 0..cycle, until : Nat] /\ lost' \subseteq Cycles
      /\ acquired'.cycle = acquired.cycle
      /\ Leased(c) /\ t > minute /\ acquired.cycle = c => t <= acquired'.until
      /\ ~ (Leased(c) /\ acquired.cycle = c) => acquired' = acquired
    <2>1. PICK later : later = IF t > acquired.until THEN t ELSE acquired.until
        OBVIOUS
    <2>2. later \in Nat /\ t <= later
        BY <1>5, <1>6, <2>1
    <2>3. acquired' = acquired
          \/ (acquired' = [acquired EXCEPT !.until = later])
        BY <1>4, <2>1 DEF Deferred_
    <2>4. [acquired EXCEPT !.until = later] \in [cycle : 0..cycle, until : Nat]
          /\ [acquired EXCEPT !.until = later].cycle = acquired.cycle
          /\ [acquired EXCEPT !.until = later].until = later
        BY <1>6, <2>2
    <2>5. Leased(c) /\ t > minute /\ acquired.cycle = c => acquired' = [acquired EXCEPT !.until = later]
        BY <1>4, <2>1 DEF Deferred_
    <2>6. ~ (Leased(c) /\ acquired.cycle = c) => acquired' = acquired
        BY <1>4 DEF Deferred_
    <2>7. lost' \subseteq Cycles
        BY <1>1, <1>4, <1>5, LosingIs DEF CycleTypes
    <2> QED
        BY <1>6, <2>2, <2>3, <2>4, <2>5, <2>6, <2>7
<1>8. GoesOn(w, c, NoCollector, NoRun)
    BY <1>2, <1>3, <1>4, <1>7, LeaveGoesOn
<1>9. CycleTypes' /\ CyclesAreOwn'
    BY <1>5, <1>8, NoRunIsRun, CycleGoesOn
<1>10. collector'[w] = NoCollector /\ \A v \in Collectors \ {w} : collector'[v] = collector[v]
    BY <1>1, <1>4 DEF CycleTypes, Leave
<1>11. minute' = minute /\ minute' \in Nat /\ minute <= minute' /\ family' = family
    BY <1>4, <1>6
<1>12. WaitsAreKept'
    <2>1. CASE Leased(c) /\ acquired.cycle = c
        <3> SUFFICES ASSUME family = "kozaru", NEW d \in Cycles \ lost, minute < announced[d]
                     PROVE  \/ \E v \in Collectors :
                                  /\ collector'[v].step = "deferring" /\ collector'[v].cycle = d
                                  /\ collector'[v].until = announced[d]
                            \/ /\ announced[d] <= acquired'.until
                               /\ \A v \in Collectors :
                                     collector'[v] # NoCollector => collector'[v].cycle # acquired.cycle
            BY <1>4, <1>7, <2>1, SameFamily DEF WaitsAreKept, NoCollector
        <3>1. PICK v \in Collectors : /\ collector[v].step = "deferring" /\ collector[v].cycle = d
                                     /\ collector[v].until = announced[d]
            BY <1>1, <1>2, <1>3, <2>1 DEF WaitsAreKept
        <3>2. CASE v # w
            BY <1>10, <3>1, <3>2
        <3>3. CASE v = w
            <4>1. announced[d] = t /\ t > minute
                BY <1>2, <1>5, <1>6, <3>1, <3>3
            <4>2. \A u \in Collectors : collector'[u] # NoCollector => collector'[u].cycle # c
                BY <1>1, <1>2, <1>3, <1>10 DEF CyclesAreOwn
            <4> QED
                BY <1>7, <2>1, <4>1, <4>2
        <3> QED
            BY <3>2, <3>3
    <2>2. CASE ~ (Leased(c) /\ acquired.cycle = c)
        <3>1. lost \subseteq lost' /\ (c \in lost' \/ announced[c] = 0)
            BY <1>1, <1>4, <1>5, <2>2, LosingIs
        <3>2. WaitsStand
            BY <1>2, <1>4, <1>7, <1>10, <2>2, <3>1 DEF WaitsStand, NoCollector
        <3> QED
            BY <1>11, <3>2, WaitsStay
    <2> QED
        BY <2>1, <2>2
<1>13. PaceIsKept'
    <2>1. PaceStands
        BY <1>4, <1>7, <1>10 DEF PaceStands, NoCollector
    <2> QED
        BY <1>11, <2>1, PaceStays
<1>14. LedgerTypes' /\ IdentitiesAreKept' /\ AdmittedAsRead' /\ RetractionsStand'
    BY <1>4, <1>11, LedgerStands
<1> QED
    BY <1>9, <1>12, <1>13, <1>14 DEF FamilyIInv

LEMMA FamilyStageKeeps ==
    ASSUME FamilyIInv, NEW w \in Collectors, FamilyStage(w)
    PROVE  FamilyIInv'
<1>1. CycleTypes /\ CyclesAreOwn
    BY DEF FamilyIInv
<1>2. PICK c : c = collector[w].cycle
    OBVIOUS
<1>3. collector[w].step = "staging" /\ collector[w] # NoCollector
    BY <1>1, IdleIs DEF FamilyStage
<1>4. UNCHANGED <<family, minute, cycle, asked, access, ledger, sent, waits, retracted>>
    BY DEF FamilyStage
<1>5. c \in Cycles /\ run[c] \in CycleRun /\ collector[w].result \in CycleResult /\ run[c].target # -1
    BY <1>1, <1>2, <1>3, CollectorIs DEF CyclesAreOwn
<1>6. /\ minute \in Nat /\ asked' \in 0..minute /\ access' \in BOOLEAN
      /\ announced' \in [Cycles -> Nat] /\ announced' = announced /\ lost' = lost /\ lost' \subseteq Cycles
      /\ sent' \in [cycle : 0..cycle, at : 0..minute, under : Nat]
    BY <1>1, <1>4, FamilyNumbers DEF CycleTypes, waits
<1>7. CASE /\ run' = [run EXCEPT ![c].result = collector[w].result]
           /\ collector' = [collector EXCEPT ![w] = [step |-> "staged", cycle |-> c]]
           /\ UNCHANGED <<leased, acquired>>
    <2> DEFINE staging == [run[c] EXCEPT !.result = collector[w].result]
               next == [step |-> "staged", cycle |-> c]
    <2>1. staging \in CycleRun /\ staging.target = run[c].target /\ staging.requests = run[c].requests
        BY <1>5 DEF CycleRun
    <2>2. next \in Collecting /\ next # NoCollector /\ next.cycle = c /\ next.step = "staged"
        BY <1>5 DEF Collecting, NoCollector
    <2>3. run' = [run EXCEPT ![c] = staging]
        BY <1>1, <1>7 DEF CycleTypes
    <2>4. run[c].requests <= Needed(run[c].target) /\ acquired' \in [cycle : 0..cycle, until : Nat]
        BY <1>1, <1>5, <1>7 DEF CyclesAreOwn, CycleTypes
    <2>5. collector' = [collector EXCEPT ![w] = next]
        BY <1>7
    <2> HIDE DEF staging, next
    <2>6. GoesOn(w, c, next, staging)
        BY <1>2, <1>3, <1>4, <1>5, <1>6, <1>7, <2>1, <2>2, <2>3, <2>4, <2>5 DEF GoesOn
    <2> QED
        BY <1>3, <1>4, <1>5, <1>7, <2>1, <2>2, <2>6, GoesOnQuietly
<1>8. CASE Leave(w) /\ acquired' = acquired
    BY <1>3, <1>4, <1>8, LeaveKeeps
<1>9. CASE Leave(w) /\ family = "pokesup" /\ acquired' = [cycle |-> 0, until |-> 0]
    <2>1. acquired' \in [cycle : 0..cycle, until : Nat]
        <3>1. 0 \in 0..cycle
            BY <1>1, FamilyNumbers DEF CycleTypes
        <3> QED
            BY <1>9, <3>1
    <2>2. GoesOn(w, c, NoCollector, NoRun)
        BY <1>2, <1>3, <1>4, <1>6, <1>9, <2>1, LeaveGoesOn
    <2>3. CycleTypes' /\ CyclesAreOwn'
        BY <1>5, <2>2, NoRunIsRun, CycleGoesOn
    <2>4. WaitsAreKept' /\ PaceIsKept'
        BY <1>4, <1>9 DEF WaitsAreKept, PaceIsKept
    <2>5. LedgerTypes' /\ IdentitiesAreKept' /\ AdmittedAsRead' /\ RetractionsStand'
        <3>1. minute' \in Nat /\ minute <= minute'
            BY <1>4, <1>6
        <3> QED
            BY <1>4, <3>1, LedgerStands
    <2> QED
        BY <2>3, <2>4, <2>5 DEF FamilyIInv
<1> QED
    BY <1>2, <1>7, <1>8, <1>9 DEF FamilyStage

LEMMA FamilyCrashKeeps ==
    ASSUME FamilyIInv, NEW w \in Collectors, FamilyCrash(w)
    PROVE  FamilyIInv'
<1>1. CycleTypes
    BY DEF FamilyIInv
<1>2. PICK c : c = collector[w].cycle
    OBVIOUS
<1>3. /\ collector[w] # NoCollector /\ collector' = [collector EXCEPT ![w] = NoCollector]
      /\ run' = [run EXCEPT ![c] = NoRun] /\ lost' = Losing(c)
      /\ UNCHANGED <<family, minute, leased, cycle, acquired, asked, access, ledger, sent,
                     announced, retracted>>
    BY <1>2 DEF FamilyCrash
<1>4. c \in Cycles
    BY <1>1, <1>2, <1>3, CollectorIs
<1>5. /\ lost' \subseteq Cycles /\ lost \subseteq lost' /\ (c \in lost' \/ announced[c] = 0)
      /\ minute' \in Nat /\ minute <= minute'
    BY <1>1, <1>3, <1>4, LosingIs, FamilyNumbers DEF CycleTypes
<1>6. GoesOn(w, c, NoCollector, NoRun)
    BY <1>1, <1>2, <1>3, <1>5, NoRunIsRun DEF GoesOn, CycleTypes
<1>7. CycleTypes' /\ CyclesAreOwn'
    BY <1>4, <1>6, NoRunIsRun, CycleGoesOn
<1>8. collector'[w] = NoCollector /\ \A v \in Collectors \ {w} : collector'[v] = collector[v]
    BY <1>1, <1>3 DEF CycleTypes
<1>9. WaitsStand /\ PaceStands
    BY <1>2, <1>3, <1>5, <1>8 DEF WaitsStand, PaceStands, NoCollector
<1> QED
    BY <1>3, <1>5, <1>7, <1>9, WaitsStay, PaceStays, LedgerStands DEF FamilyIInv

LEMMA FamilySwitchKeeps ==
    ASSUME FamilyIInv, FamilySwitch
    PROVE  FamilyIInv'
<1>1. CycleTypes /\ CyclesAreOwn /\ WaitsAreKept /\ PaceIsKept
    BY DEF FamilyIInv
<1>2. /\ access' = FALSE /\ family' = family /\ minute' = minute /\ leased' = leased /\ cycle' = cycle
      /\ collector' = collector /\ acquired' = acquired /\ run' = run /\ asked' = asked
      /\ announced' = announced /\ lost' = lost /\ sent' = sent /\ UNCHANGED <<ledger, retracted>>
    BY DEF FamilySwitch, waits
<1>3. CycleTypes'
    BY <1>1, <1>2, SameFamily DEF CycleTypes
<1>4. CyclesAreOwn' /\ WaitsAreKept' /\ PaceIsKept'
    BY <1>1, <1>2, SameFamily DEF CyclesAreOwn, WaitsAreKept, PaceIsKept, Spaced
<1>5. minute' \in Nat /\ minute <= minute'
    BY <1>1, <1>2, FamilyNumbers DEF CycleTypes
<1> QED
    BY <1>2, <1>3, <1>4, <1>5, LedgerStands DEF FamilyIInv

LEMMA FamilyTickKeeps ==
    ASSUME FamilyIInv, FamilyTick
    PROVE  FamilyIInv'
<1>1. CycleTypes /\ CyclesAreOwn
    BY DEF FamilyIInv
<1>2. /\ minute < FamilyEnd /\ minute' = minute + 1 /\ family' = family /\ leased' = leased
      /\ cycle' = cycle /\ collector' = collector /\ acquired' = acquired /\ run' = run
      /\ asked' = asked /\ access' = access /\ announced' = announced /\ lost' = lost /\ sent' = sent
      /\ UNCHANGED <<ledger, retracted>>
    BY DEF FamilyTick, waits
<1>3. /\ minute \in Nat /\ minute' \in (Daily + 2)..FamilyEnd /\ minute' \in Nat /\ minute <= minute'
      /\ 0..minute \subseteq 0..minute'
    BY <1>1, <1>2, FamilyNumbers DEF CycleTypes
<1>4. CycleTypes'
    <2>1. sent' \in [cycle : 0..cycle, at : 0..minute', under : Nat]
        BY <1>1, <1>2, <1>3 DEF CycleTypes
    <2> QED
        BY <1>1, <1>2, <1>3, <2>1, SameFamily DEF CycleTypes
<1>5. CyclesAreOwn'
    BY <1>1, <1>2, SameFamily DEF CyclesAreOwn
<1>6. WaitsStand /\ PaceStands
    BY <1>2 DEF WaitsStand, PaceStands
<1> QED
    BY <1>2, <1>3, <1>4, <1>5, <1>6, WaitsStay, PaceStays, LedgerStands DEF FamilyIInv


\* What the finalizer counts is complete, was never anything else, and is free.
LEMMA OutcomeIs ==
    ASSUME FamilyIInv, NEW u \in URLs, NEW result \in CycleResult
    PROVE  /\ Outcome(u, result) \in {"absent", "pending", "admitted", "quarantined", "duplicate", "retracted"}
           /\ Outcome(u, result) = "admitted" =>
                 /\ result.kind = "evidence" /\ AreCountable(result.packs)
                 /\ admission[u] = {} \/ admission[u] = result.packs
                 /\ \A p \in result.packs \cap DOMAIN owner : owner[p] = u
                 /\ ~ (family = "kozaru" /\ candidate[u] \in {"duplicate", "retracted"})
           /\ family = "kozaru" /\ u \in retracted => Outcome(u, result) = "retracted"
<1>1. /\ candidate[u] \in {"absent", "pending", "admitted", "quarantined", "duplicate", "retracted"}
      /\ family = "kozaru" /\ u \in retracted => candidate[u] = "retracted"
      /\ family \in Families
    BY DEF FamilyIInv, LedgerTypes, RetractionsStand, CycleTypes
<1>2. result.kind = "evidence" => AreCountable(result.packs)
    BY <1>1, ResultIs
<1>3. Outcome(u, result) \in {"absent", "pending", "admitted", "quarantined", "duplicate", "retracted"}
    BY <1>1 DEF Outcome
<1>4. family = "kozaru" /\ u \in retracted => Outcome(u, result) = "retracted"
    BY <1>1 DEF Outcome
<1>5. ASSUME Outcome(u, result) = "admitted"
      PROVE  /\ result.kind = "evidence" /\ ~ Contradicts(u, result.packs) /\ ~ Clashes(u, result.packs)
             /\ ~ (family = "kozaru" /\ candidate[u] \in {"duplicate", "retracted"})
    BY <1>5 DEF Outcome
<1> QED
    BY <1>2, <1>3, <1>4, <1>5 DEF Contradicts, Clashes

\* An identity stays with the article that it is reserved for.
LEMMA ReservedIs ==
    ASSUME NEW u, NEW packs, NEW outcome, NEW reserved, reserved = Reserved(u, packs, outcome)
    PROVE  /\ DOMAIN owner \subseteq DOMAIN reserved /\ \A p \in DOMAIN owner : reserved[p] = owner[p]
           /\ outcome = "admitted" =>
                 /\ packs \subseteq DOMAIN reserved
                 /\ \A p \in packs : p \notin DOMAIN owner => reserved[p] = u
BY DEF Reserved

LEMMA ReadArticleKeeps ==
    ASSUME FamilyIInv, NEW u \in URLs, NEW result \in CycleResult, ReadArticle(u, result),
           UNCHANGED <<family, minute, retracted>>
    PROVE  LedgerTypes' /\ IdentitiesAreKept' /\ AdmittedAsRead' /\ RetractionsStand'
<1>1. LedgerTypes /\ IdentitiesAreKept /\ AdmittedAsRead /\ RetractionsStand /\ CycleTypes
    BY DEF FamilyIInv
<1>2. PICK outcome, final, packs :
          /\ outcome = Outcome(u, result)
          /\ final = (family = "kozaru" /\ candidate[u] \in {"duplicate", "retracted"})
          /\ packs = IF result.kind = "evidence" THEN result.packs ELSE {}
    OBVIOUS
<1>3. /\ candidate' = [candidate EXCEPT ![u] = outcome]
      /\ checked' = IF final THEN checked ELSE [checked EXCEPT ![u] = minute]
      /\ admission' = IF outcome = "admitted" /\ admission[u] = {}
                      THEN [admission EXCEPT ![u] = packs] ELSE admission
      /\ latest' = [latest EXCEPT ![u] = packs]
      /\ discovered' = discovered /\ tombstone' = tombstone
      /\ family' = family /\ minute' = minute /\ retracted' = retracted
    BY <1>2 DEF ReadArticle
<1>4. /\ final => owner' = owner /\ first' = first
      /\ ~ final =>
            /\ owner' = Reserved(u, packs, outcome)
            /\ first' = IF outcome \notin {"admitted", "duplicate"} THEN first
                        ELSE [p \in DOMAIN first \cup packs |->
                                IF p \in DOMAIN first THEN first[p] ELSE u]
    BY <1>2 DEF ReadArticle
<1>5. /\ outcome \in {"absent", "pending", "admitted", "quarantined", "duplicate", "retracted"}
      /\ outcome = "admitted" =>
            /\ AreCountable(packs) /\ (admission[u] = {} \/ admission[u] = packs)
            /\ \A p \in packs \cap DOMAIN owner : owner[p] = u
            /\ ~ final
      /\ family = "kozaru" /\ u \in retracted => outcome = "retracted"
    BY <1>2, OutcomeIs
<1>6. minute \in Nat /\ minute \in 0..minute
    BY <1>1, FamilyNumbers DEF CycleTypes
<1>7. /\ \A v \in URLs : admission'[v] = IF v = u /\ outcome = "admitted" THEN packs ELSE admission[v]
      /\ \A v \in URLs : latest'[v] = IF v = u THEN packs ELSE latest[v]
      /\ \A v \in URLs : candidate'[v] = IF v = u THEN outcome ELSE candidate[v]
      /\ admission' = [v \in URLs |-> admission'[v]] /\ latest' = [v \in URLs |-> latest'[v]]
    <2>1. admission = [v \in URLs |-> admission[v]] /\ latest = [v \in URLs |-> latest[v]]
        BY <1>1 DEF LedgerTypes
    <2>2. /\ \A v \in URLs : latest'[v] = IF v = u THEN packs ELSE latest[v]
          /\ latest' = [v \in URLs |-> latest'[v]]
        BY <1>3, <2>1
    <2>3. /\ \A v \in URLs : admission'[v] = IF v = u /\ outcome = "admitted" THEN packs ELSE admission[v]
          /\ admission' = [v \in URLs |-> admission'[v]]
        <3>1. CASE outcome = "admitted" /\ admission[u] = {}
            <4>1. admission' = [admission EXCEPT ![u] = packs]
                BY <1>3, <3>1
            <4> QED
                BY <2>1, <3>1, <4>1
        <3>2. CASE ~ (outcome = "admitted" /\ admission[u] = {})
            <4>1. admission' = admission
                BY <1>3, <3>2
            <4>2. outcome = "admitted" => admission[u] = packs
                BY <1>5, <3>2
            <4> QED
                BY <2>1, <4>1, <4>2
        <3> QED
            BY <3>1, <3>2
    <2>4. \A v \in URLs : candidate'[v] = IF v = u THEN outcome ELSE candidate[v]
        BY <1>1, <1>3 DEF LedgerTypes
    <2> QED
        BY <2>2, <2>3, <2>4
<1>8. LedgerTypes'
    <2>1. checked' \in [URLs -> 0..minute]
        BY <1>1, <1>3, <1>6 DEF LedgerTypes
    <2>2. candidate' \in [URLs -> {"absent", "pending", "admitted", "quarantined",
                                   "duplicate", "retracted"}]
        BY <1>1, <1>3, <1>5 DEF LedgerTypes
    <2> QED
        BY <1>1, <1>3, <1>7, <2>1, <2>2 DEF LedgerTypes
<1>9. /\ DOMAIN owner \subseteq DOMAIN owner' /\ \A p \in DOMAIN owner : owner'[p] = owner[p]
      /\ outcome = "admitted" => packs \subseteq DOMAIN owner' /\ \A p \in packs : owner'[p] = u
    <2>1. CASE final
        BY <1>4, <1>5, <2>1
    <2>2. CASE ~ final
        <3>1. owner' = Reserved(u, packs, outcome)
            BY <1>4, <2>2
        <3> QED
            BY <1>5, <3>1, ReservedIs
    <2> QED
        BY <2>1, <2>2
<1>10. family = "kozaru" => DOMAIN first' = DOMAIN owner' /\ \A p \in DOMAIN owner' : first'[p] = owner'[p]
    <2> SUFFICES ASSUME family = "kozaru"
                 PROVE  DOMAIN first' = DOMAIN owner' /\ \A p \in DOMAIN owner' : first'[p] = owner'[p]
        OBVIOUS
    <2>1. DOMAIN first = DOMAIN owner /\ \A p \in DOMAIN owner : first[p] = owner[p]
        BY <1>1 DEF IdentitiesAreKept
    <2>2. CASE final \/ outcome \notin {"admitted", "duplicate"}
        <3>1. owner' = owner /\ first' = first
            BY <1>4, <2>2 DEF Reserved
        <3> QED
            BY <2>1, <3>1
    <2>3. CASE ~ final /\ outcome \in {"admitted", "duplicate"}
        <3>1. owner' = [p \in DOMAIN owner \cup packs |-> IF p \in DOMAIN owner THEN owner[p] ELSE u]
            BY <1>4, <2>3 DEF Reserved
        <3>2. first' = [p \in DOMAIN first \cup packs |-> IF p \in DOMAIN first THEN first[p] ELSE u]
            BY <1>4, <2>3
        <3> QED
            BY <2>1, <3>1, <3>2
    <2> QED
        BY <2>2, <2>3
<1>11. IdentitiesAreKept'
    <2>1. ASSUME NEW v \in URLs, admission'[v] # {}
          PROVE  /\ AreCountable(admission'[v])
                 /\ admission'[v] \subseteq DOMAIN owner' /\ \A p \in admission'[v] : owner'[p] = v
        <3>1. CASE v = u /\ outcome = "admitted"
            BY <1>5, <1>7, <1>9, <3>1
        <3>2. CASE ~ (v = u /\ outcome = "admitted")
            <4>1. admission'[v] = admission[v]
                BY <1>7, <3>2
            <4>2. /\ AreCountable(admission[v])
                  /\ admission[v] \subseteq DOMAIN owner /\ \A p \in admission[v] : owner[p] = v
                BY <1>1, <2>1, <4>1 DEF IdentitiesAreKept
            <4> QED
                BY <1>9, <4>1, <4>2
        <3> QED
            BY <3>1, <3>2
    <2> QED
        BY <1>3, <1>10, <2>1, SameFamily DEF IdentitiesAreKept
<1>12. AdmittedAsRead'
    <2>1. ASSUME NEW v \in URLs, candidate'[v] = "admitted"
          PROVE  admission'[v] # {} /\ latest'[v] = admission'[v]
        <3>1. CASE v = u
            <4>1. outcome = "admitted"
                BY <1>7, <2>1, <3>1
            <4> QED
                BY <1>5, <1>7, <3>1, <4>1 DEF AreCountable
        <3>2. CASE v # u
            BY <1>1, <1>7, <2>1, <3>2 DEF AdmittedAsRead
        <3> QED
            BY <3>1, <3>2
    <2> QED
        BY <2>1 DEF AdmittedAsRead
<1>13. RetractionsStand'
    <2>1. family = "kozaru" => \A v \in retracted : candidate'[v] = "retracted"
        <3>1. retracted \subseteq URLs
            BY <1>1 DEF LedgerTypes
        <3> QED
            BY <1>1, <1>5, <1>7, <3>1 DEF RetractionsStand
    <2> QED
        BY <1>1, <1>3, <2>1 DEF RetractionsStand
<1> QED
    BY <1>8, <1>11, <1>12, <1>13

LEMMA ReadListingKeeps ==
    ASSUME FamilyIInv, NEW result \in CycleResult, ReadListing(result),
           UNCHANGED <<family, minute, retracted>>
    PROVE  LedgerTypes' /\ IdentitiesAreKept' /\ AdmittedAsRead' /\ RetractionsStand'
<1>1. LedgerTypes /\ IdentitiesAreKept /\ AdmittedAsRead /\ RetractionsStand /\ CycleTypes
    BY DEF FamilyIInv
<1>2. /\ family' = family /\ minute' = minute /\ retracted' = retracted /\ checked' = checked
      /\ admission' = admission /\ owner' = owner /\ latest' = latest /\ first' = first
      /\ discovered' = minute \/ discovered' = discovered
      /\ tombstone \subseteq tombstone' /\ tombstone' \subseteq tombstone \cup Fixed
    BY DEF ReadListing
<1>3. \A u \in URLs :
          /\ candidate'[u] \in {"absent", "pending", "admitted", "quarantined", "duplicate", "retracted"}
          /\ candidate'[u] = "admitted" => candidate[u] = "admitted"
          /\ family = "kozaru" /\ candidate[u] = "retracted" => candidate'[u] = "retracted"
    BY <1>1 DEF ReadListing, LedgerTypes
<1>4. candidate' = [u \in URLs |-> candidate'[u]]
    BY DEF ReadListing
<1>5. LedgerTypes'
    <2>1. minute \in 0..minute /\ Fixed \subseteq URLs
        BY <1>1, FamilyNumbers DEF CycleTypes
    <2>2. candidate' \in [URLs -> {"absent", "pending", "admitted", "quarantined",
                                   "duplicate", "retracted"}]
        BY <1>3, <1>4
    <2> QED
        BY <1>1, <1>2, <2>1, <2>2 DEF LedgerTypes
<1>6. IdentitiesAreKept'
    BY <1>1, <1>2, SameFamily DEF IdentitiesAreKept
<1>7. AdmittedAsRead'
    BY <1>1, <1>2, <1>3 DEF AdmittedAsRead
<1>8. RetractionsStand'
    <2>1. retracted \subseteq URLs
        BY <1>1 DEF LedgerTypes
    <2>2. family = "kozaru" => \A u \in retracted : candidate'[u] = "retracted"
        BY <1>1, <1>3, <2>1 DEF RetractionsStand
    <2> QED
        BY <1>1, <1>2, <2>2 DEF RetractionsStand
<1> QED
    BY <1>5, <1>6, <1>7, <1>8

LEMMA FamilyFinalizeKeeps ==
    ASSUME FamilyIInv, NEW w \in Collectors, FamilyFinalize(w)
    PROVE  FamilyIInv'
<1>1. CycleTypes /\ CyclesAreOwn
    BY DEF FamilyIInv
<1>2. PICK c, r : c = collector[w].cycle /\ r = run[c]
    OBVIOUS
<1>3. collector[w].step = "staged" /\ collector[w] # NoCollector
    BY <1>1, IdleIs DEF FamilyFinalize
<1>4. /\ collector' = [collector EXCEPT ![w] = NoCollector] /\ run' = [run EXCEPT ![c] = NoRun]
      /\ leased' = leased \/ leased' = [leased EXCEPT ![c] = 0]
      /\ UNCHANGED <<family, minute, cycle, acquired, asked, access, sent, waits, retracted>>
      /\ \/ r.target # Listing /\ ReadArticle(r.target, r.result)
         \/ ReadListing(r.result)
         \/ UNCHANGED ledger
    BY <1>2 DEF FamilyFinalize
<1>5. c \in Cycles /\ r \in CycleRun /\ r.target # -1
    BY <1>1, <1>2, <1>3, CollectorIs DEF CyclesAreOwn
<1>6. r.result \in CycleResult /\ (r.target # Listing => r.target \in URLs)
    BY <1>5 DEF CycleRun
<1>7. minute' \in Nat /\ minute <= minute'
    BY <1>1, <1>4, FamilyNumbers DEF CycleTypes
<1>8. LedgerTypes' /\ IdentitiesAreKept' /\ AdmittedAsRead' /\ RetractionsStand'
    <2>1. CASE r.target # Listing /\ ReadArticle(r.target, r.result)
        BY <1>4, <1>6, <2>1, ReadArticleKeeps
    <2>2. CASE ReadListing(r.result)
        BY <1>4, <1>6, <2>2, ReadListingKeeps
    <2>3. CASE UNCHANGED ledger
        BY <1>4, <1>7, <2>3, LedgerStands
    <2> QED
        BY <1>4, <2>1, <2>2, <2>3
<1>9. /\ access' \in BOOLEAN /\ asked' \in 0..minute /\ acquired' \in [cycle : 0..cycle, until : Nat]
      /\ announced' \in [Cycles -> Nat] /\ lost' \subseteq Cycles
      /\ sent' \in [cycle : 0..cycle, at : 0..minute, under : Nat]
    BY <1>1, <1>4 DEF CycleTypes, waits
<1>10. GoesOn(w, c, NoCollector, NoRun)
    BY <1>2, <1>3, <1>4, <1>9, NoRunIsRun DEF GoesOn
<1>11. CycleTypes' /\ CyclesAreOwn'
    BY <1>5, <1>10, NoRunIsRun, CycleGoesOn
<1>12. WaitsAreKept' /\ PaceIsKept'
    <2>1. collector'[w] = NoCollector /\ \A v \in Collectors \ {w} : collector'[v] = collector[v]
        BY <1>1, <1>4 DEF CycleTypes
    <2>2. WaitsStand /\ PaceStands
        BY <1>3, <1>4, <2>1 DEF WaitsStand, PaceStands, waits, NoCollector
    <2> QED
        BY <1>4, <1>7, <2>2, WaitsStay, PaceStays
<1> QED
    BY <1>8, <1>11, <1>12 DEF FamilyIInv

LEMMA FamilyRetractKeeps ==
    ASSUME FamilyIInv, NEW u \in URLs, FamilyRetract(u)
    PROVE  FamilyIInv'
<1>1. /\ LedgerTypes /\ IdentitiesAreKept /\ AdmittedAsRead /\ RetractionsStand /\ CycleTypes
      /\ CyclesAreOwn /\ WaitsAreKept /\ PaceIsKept
    BY DEF FamilyIInv
<1>2. /\ retracted' = retracted \cup {u}
      /\ tombstone' = IF family = "pokesup" THEN tombstone \cup {u} ELSE tombstone
      /\ candidate' = IF family = "pokesup" /\ candidate[u] = "absent" THEN candidate
                      ELSE [candidate EXCEPT ![u] = "retracted"]
    BY DEF FamilyRetract
<1>3. /\ family' = family /\ minute' = minute /\ leased' = leased /\ cycle' = cycle
      /\ collector' = collector /\ acquired' = acquired /\ run' = run /\ asked' = asked
      /\ access' = access /\ discovered' = discovered /\ checked' = checked /\ admission' = admission
      /\ owner' = owner /\ latest' = latest /\ first' = first /\ announced' = announced
      /\ lost' = lost /\ sent' = sent
    BY DEF FamilyRetract, waits
<1>4. CycleTypes' /\ CyclesAreOwn' /\ WaitsAreKept' /\ PaceIsKept'
    <2>1. CycleTypes'
        BY <1>1, <1>3, SameFamily DEF CycleTypes
    <2>2. CyclesAreOwn' /\ WaitsAreKept' /\ PaceIsKept'
        BY <1>1, <1>3, SameFamily DEF CyclesAreOwn, WaitsAreKept, PaceIsKept, Spaced
    <2> QED
        BY <2>1, <2>2
<1>5. LedgerTypes'
    BY <1>1, <1>2, <1>3 DEF LedgerTypes
<1>6. \A v \in URLs : candidate'[v] = candidate[v] \/ candidate'[v] = "retracted"
    BY <1>1, <1>2 DEF LedgerTypes
<1>7. IdentitiesAreKept' /\ AdmittedAsRead'
    <2>1. IdentitiesAreKept'
        BY <1>1, <1>3, SameFamily DEF IdentitiesAreKept
    <2>2. AdmittedAsRead'
        BY <1>1, <1>3, <1>6 DEF AdmittedAsRead
    <2> QED
        BY <2>1, <2>2
<1>8. RetractionsStand'
    <2>1. family = "kozaru" => candidate'[u] = "retracted"
        BY <1>1, <1>2 DEF LedgerTypes
    <2>2. retracted \subseteq URLs
        BY <1>1 DEF LedgerTypes
    <2> QED
        BY <1>1, <1>2, <1>3, <1>6, <2>1, <2>2 DEF RetractionsStand
<1> QED
    BY <1>4, <1>5, <1>7, <1>8 DEF FamilyIInv

LEMMA FamilyInitial ==
    ASSUME FamilyInit
    PROVE  FamilyIInv
<1>1. /\ family \in Families /\ minute = Daily + 2 /\ cycle = 0 /\ access = TRUE
      /\ leased = [c \in Cycles |-> 0] /\ collector = [w \in Collectors |-> NoCollector]
      /\ acquired = [cycle |-> 0, until |-> 0] /\ run = [c \in Cycles |-> NoRun]
      /\ asked = 0 /\ sent = [cycle |-> 0, at |-> 0, under |-> 0]
      /\ announced = [c \in Cycles |-> 0] /\ lost = {} /\ tombstone = {} /\ retracted = {}
    BY DEF FamilyInit
<1>2. PICK e \in Earlier[family] :
          /\ discovered = IF e.listed = {} THEN 0 ELSE minute
          /\ candidate = [u \in URLs |-> IF u \in e.counted THEN "admitted"
                                        ELSE IF u \in e.listed THEN "pending" ELSE "absent"]
          /\ checked = [u \in URLs |-> IF u \in e.counted THEN 1 ELSE 0]
          /\ admission = [u \in URLs |-> IF u \in e.counted THEN e.shown ELSE {}]
          /\ latest = admission
          /\ owner = [p \in IF e.counted = {} THEN {} ELSE e.shown |-> CHOOSE u \in e.counted : TRUE]
          /\ first = owner
    BY DEF FamilyInit
<1>3. /\ minute \in Nat /\ minute > 0 /\ minute \in (Daily + 2)..FamilyEnd /\ MaxCycles[family] \in Nat
      /\ IsFiniteSet(URLs)
    BY <1>1, FamilyNumbers
<1>4. CycleTypes
    <2>1. /\ 0 \in 0..MaxCycles[family] /\ 0 \in 0..minute /\ acquired \in [cycle : 0..0, until : Nat]
          /\ sent \in [cycle : 0..0, at : 0..minute, under : Nat] /\ announced \in [Cycles -> Nat]
        BY <1>1, <1>3
    <2>2. run \in [Cycles -> CycleRun] /\ collector \in [Collectors -> Collecting \cup {NoCollector}]
        BY <1>1, NoRunIsRun
    <2> QED
        BY <1>1, <1>3, <2>1, <2>2 DEF CycleTypes
<1>5. CyclesAreOwn
    BY <1>1 DEF CyclesAreOwn, NoRun
<1>6. WaitsAreKept /\ PaceIsKept
    BY <1>1, <1>3 DEF WaitsAreKept, PaceIsKept, NoCollector
<1>7. LedgerTypes
    <2>1. 0 \in 0..minute /\ 1 \in 0..minute /\ minute \in 0..minute
        BY <1>3
    <2>2. candidate \in [URLs -> {"absent", "pending", "admitted", "quarantined",
                                  "duplicate", "retracted"}]
        BY <1>2
    <2>3. checked \in [URLs -> 0..minute] /\ discovered \in 0..minute
        BY <1>2, <2>1
    <2>4. admission = [u \in URLs |-> admission[u]]
        BY <1>2
    <2> QED
        BY <1>1, <1>2, <2>2, <2>3, <2>4 DEF LedgerTypes
<1>8. /\ e.counted \subseteq URLs /\ \A u \in e.counted : e.counted = {u}
      /\ e.counted # {} =>
            e.shown # {} /\ (family = "kozaru" => IsFiniteSet(e.shown) /\ Cardinality(e.shown) = PackCount)
    <2>1. /\ e.counted \subseteq e.listed /\ e.listed \subseteq URLs /\ Cardinality(e.counted) < 2
          /\ e.counted # {} => e.shown # {}
          /\ e.counted # {} /\ family = "kozaru" => IsFiniteSet(e.shown) /\ Cardinality(e.shown) = PackCount
        BY <1>1, FamilyAssumption
    <2>2. IsFiniteSet(e.counted)
        BY <1>3, <2>1, FS_Subset
    <2>3. ASSUME NEW u \in e.counted PROVE e.counted = {u}
        <3>1. IsFiniteSet(e.counted \ {u}) /\ Cardinality(e.counted \ {u}) = Cardinality(e.counted) - 1
            BY <2>2, FS_RemoveElement
        <3>2. Cardinality(e.counted) \in Nat /\ Cardinality(e.counted \ {u}) \in Nat
            BY <2>2, <3>1, FS_CardinalityType
        <3>3. Cardinality(e.counted \ {u}) = 0
            BY <2>1, <3>1, <3>2
        <3>4. e.counted \ {u} = {}
            BY <3>1, <3>3, FS_EmptySet
        <3> QED
            BY <3>4
    <2> QED
        BY <2>1, <2>3
<1>9. IdentitiesAreKept
    <2>1. ASSUME NEW u \in URLs, admission[u] # {}
          PROVE  /\ AreCountable(admission[u])
                 /\ admission[u] \subseteq DOMAIN owner /\ \A p \in admission[u] : owner[p] = u
        <3>1. u \in e.counted /\ admission[u] = e.shown
            BY <1>2, <2>1
        <3>2. e.counted = {u}
            BY <1>8, <3>1
        <3>3. (CHOOSE v \in e.counted : TRUE) = u
            BY <3>2
        <3>4. owner = [p \in e.shown |-> u]
            BY <1>2, <3>1, <3>3
        <3>5. AreCountable(e.shown)
            BY <1>8, <3>1 DEF AreCountable
        <3> QED
            BY <3>1, <3>4, <3>5
    <2> QED
        BY <1>2, <2>1 DEF IdentitiesAreKept
<1>10. AdmittedAsRead /\ RetractionsStand
    <2>1. AdmittedAsRead
        BY <1>2, <1>8 DEF AdmittedAsRead
    <2> QED
        BY <1>1, <2>1 DEF RetractionsStand
<1> QED
    BY <1>4, <1>5, <1>6, <1>7, <1>9, <1>10 DEF FamilyIInv

LEMMA FamilyNextKeeps ==
    ASSUME FamilyIInv, [FamilyNext]_familyVars
    PROVE  FamilyIInv'
<1>1. CASE UNCHANGED familyVars
    <2>1. /\ family' = family /\ minute' = minute /\ leased' = leased /\ cycle' = cycle
          /\ collector' = collector /\ acquired' = acquired /\ run' = run /\ asked' = asked
          /\ access' = access /\ announced' = announced /\ lost' = lost /\ sent' = sent
          /\ retracted' = retracted /\ UNCHANGED ledger
        BY <1>1 DEF familyVars, ledger
    <2>2. CycleTypes /\ CyclesAreOwn /\ WaitsAreKept /\ PaceIsKept
        BY DEF FamilyIInv
    <2>3. CycleTypes'
        BY <2>1, <2>2, SameFamily DEF CycleTypes
    <2>4. CyclesAreOwn' /\ WaitsAreKept' /\ PaceIsKept'
        BY <2>1, <2>2, SameFamily DEF CyclesAreOwn, WaitsAreKept, PaceIsKept, Spaced
    <2>5. minute' \in Nat /\ minute <= minute'
        BY <2>1, <2>2, FamilyNumbers DEF CycleTypes
    <2> QED
        BY <2>1, <2>3, <2>4, <2>5, LedgerStands DEF FamilyIInv
<1>2. ASSUME NEW w \in Collectors, FamilyClaim(w) PROVE FamilyIInv'
    BY <1>2, FamilyClaimKeeps
<1>3. ASSUME NEW w \in Collectors, FamilyHeartbeat(w) PROVE FamilyIInv'
    BY <1>3, FamilyHeartbeatKeeps
<1>4. ASSUME NEW w \in Collectors, FamilyBegin(w) PROVE FamilyIInv'
    BY <1>4, FamilyBeginKeeps
<1>5. ASSUME NEW w \in Collectors, FamilyAuthorize(w) \/ FamilySend(w) PROVE FamilyIInv'
    BY <1>5, FamilyAuthorizeKeeps, FamilySendKeeps
<1>6. ASSUME NEW w \in Collectors, FamilyDefer(w) PROVE FamilyIInv'
    BY <1>6, FamilyDeferKeeps
<1>7. ASSUME NEW w \in Collectors, FamilyStage(w) PROVE FamilyIInv'
    BY <1>7, FamilyStageKeeps
<1>8. ASSUME NEW w \in Collectors, FamilyFinalize(w) PROVE FamilyIInv'
    BY <1>8, FamilyFinalizeKeeps
<1>9. ASSUME NEW w \in Collectors, FamilyCrash(w) PROVE FamilyIInv'
    BY <1>9, FamilyCrashKeeps
<1>10. ASSUME NEW u \in URLs, FamilyRetract(u) PROVE FamilyIInv'
    BY <1>10, FamilyRetractKeeps
<1>11. FamilySwitch => FamilyIInv'
    BY FamilySwitchKeeps
<1>12. FamilyTick => FamilyIInv'
    BY FamilyTickKeeps
<1> QED
    BY <1>1, <1>2, <1>3, <1>4, <1>5, <1>6, <1>7, <1>8, <1>9, <1>10, <1>11, <1>12 DEF FamilyNext

LEMMA FamilyIsCounted ==
    ASSUME FamilyIInv
    PROVE  FamilyInv
<1>1. /\ CycleTypes /\ CyclesAreOwn /\ LedgerTypes /\ IdentitiesAreKept /\ AdmittedAsRead
      /\ RetractionsStand
    BY DEF FamilyIInv
<1>2. \A u \in Counted :
          /\ u \in URLs /\ admission[u] # {} /\ latest[u] = admission[u] /\ AreCountable(admission[u])
          /\ admission[u] \subseteq DOMAIN owner /\ \A p \in admission[u] : owner[p] = u
    BY <1>1 DEF Counted, AdmittedAsRead, IdentitiesAreKept
<1>3. FamilyTypeOK
    <2>1. /\ family \in Families /\ minute \in (Daily + 2)..FamilyEnd /\ cycle \in 0..MaxCycles[family]
          /\ access \in BOOLEAN /\ discovered \in 0..minute /\ asked \in 0..minute
          /\ acquired.cycle \in 0..cycle /\ acquired.until \in Nat
          /\ \A c \in Cycles : leased[c] \in Nat
          /\ sent.cycle \in 0..cycle /\ sent.at \in 0..minute /\ sent.under \in Nat
          /\ announced \in [Cycles -> Nat] /\ lost \subseteq Cycles
        BY <1>1 DEF CycleTypes, LedgerTypes
    <2>2. ASSUME NEW c \in Cycles, run[c].target # -1
          PROVE  run[c].target \in URLs \cup {Listing} /\ run[c].requests \in 0..Needed(run[c].target)
        <3>1. run[c] \in CycleRun /\ run[c].requests <= Needed(run[c].target)
            BY <1>1, <2>2 DEF CycleTypes, CyclesAreOwn
        <3>2. Needed(run[c].target) \in Nat
            BY DEF Needed
        <3> QED
            BY <2>2, <3>1, <3>2 DEF CycleRun
    <2>3. \A w \in Collectors : collector[w].step \in
              {"idle", "claimed", "reading", "sending", "deferring", "staging", "staged"}
        <3>1. NoCollector.step = "idle"
            BY DEF NoCollector
        <3> QED
            BY <1>1, <3>1, CollectorIs
    <2>4. /\ candidate \in [URLs -> {"absent", "pending", "admitted", "quarantined",
                                     "duplicate", "retracted"}]
          /\ checked \in [URLs -> 0..minute]
          /\ tombstone \subseteq URLs /\ retracted \subseteq URLs
          /\ \A u \in URLs : candidate[u] = "admitted" => admission[u] # {}
        BY <1>1 DEF LedgerTypes, AdmittedAsRead
    <2> QED
        BY <2>1, <2>2, <2>3, <2>4 DEF FamilyTypeOK
<1>4. NoPackTwice
    <2>1. \A u, v \in Counted : u # v => admission[u] \cap admission[v] = {}
        BY <1>2
    <2>2. ASSUME family = "kozaru"
          PROVE  Cardinality(UNION {admission[u] : u \in Counted}) = PackCount * Cardinality(Counted)
        <3>1. IsFiniteSet(Counted)
            <4>1. Counted \subseteq URLs /\ IsFiniteSet(URLs)
                BY FamilyNumbers DEF Counted
            <4> QED
                BY <4>1, FS_Subset
        <3>2. \A u \in Counted : IsFiniteSet(admission[u]) /\ Cardinality(admission[u]) = PackCount
            BY <1>2, <2>2 DEF AreCountable
        <3>3. PackCount \in Nat
            BY FamilyNumbers
        <3> QED
            BY <2>1, <3>1, <3>2, <3>3, PacksAddUp
    <2> QED
        BY <2>1, <2>2 DEF NoPackTwice
<1>5. FirstShownCounts
    BY <1>1, <1>2 DEF FirstShownCounts, IdentitiesAreKept
<1>6. RetractedStaysOut
    <2>1. family \in {"pokesup", "kozaru"}
        BY <1>1, FamilyNumbers DEF CycleTypes
    <2> QED
        BY <1>1, <2>1 DEF RetractedStaysOut, RetractionsStand, Counted
<1>7. CountedAsLastRead
    BY <1>2 DEF CountedAsLastRead
<1> QED
    BY <1>3, <1>4, <1>5, <1>6, <1>7 DEF FamilyInv

(* No pack of a publisher is counted twice, and what counts it is the      *)
(* article that showed it first, as it was read last, and not retracted:   *)
(* whatever articles repost, whoever reads them and whichever cycle, crash *)
(* or retraction comes between (finalize_source_family_v1 and              *)
(* finalize_numbered_family_v1).                                           *)
THEOREM PacksCountOnce == FamilySpec => []FamilyInv
<1>1. FamilyInit => FamilyIInv
    BY FamilyInitial
<1>2. FamilyIInv /\ [FamilyNext]_familyVars => FamilyIInv'
    BY FamilyNextKeeps
<1>3. FamilyIInv => FamilyInv
    BY FamilyIsCounted
<1> QED
    BY <1>1, <1>2, <1>3, PTL DEF FamilySpec

\* Only a process that was authorized sends; with the gate, it is the last one
\* that was, and what any cycle was told is over, lost or still to be told.
LEMMA SentInTime ==
    ASSUME FamilyIInv, [FamilyNext]_familyVars, sent' # sent, Acquires(sent'.cycle)
    PROVE  /\ sent.cycle = 0 \/ sent'.at >= sent.under + Pace
           /\ \A d \in Cycles \ lost : Untold(d) \/ sent'.at >= announced[d]
<1>1. CycleTypes /\ CyclesAreOwn /\ WaitsAreKept /\ PaceIsKept
    BY DEF FamilyIInv
<1>2. PICK w \in Collectors : FamilySend(w)
    BY DEF FamilyNext, familyVars, FamilyClaim, FamilyHeartbeat, FamilyBegin, FamilyAuthorize, FamilyDefer,
           FamilyStage, FamilyFinalize, FamilyCrash, FamilyRetract, FamilySwitch, FamilyTick
<1>3. collector[w].step = "sending" /\ collector[w] # NoCollector
    BY <1>1, <1>2, IdleIs DEF FamilySend
<1>4. PICK c : c = collector[w].cycle
    OBVIOUS
<1>5. /\ family = "kozaru"
      /\ sent'.cycle = c /\ sent'.at = minute /\ sent'.under = collector[w].under
    BY <1>2, <1>4 DEF FamilySend
<1>6. acquired.cycle = c
    BY <1>5 DEF Acquires
<1>7. /\ collector[w].under \in 1..asked /\ collector[w].under = asked
      /\ sent.cycle # 0 => sent.under \in 1..asked /\ Spaced(sent.under, asked)
    BY <1>1, <1>3, <1>4, <1>5, <1>6 DEF PaceIsKept
<1>8. asked \in 0..minute /\ minute \in Nat /\ Pace \in Nat /\ Pace > 0
    BY <1>1, FamilyNumbers DEF CycleTypes
<1>9. sent.cycle = 0 \/ sent'.at >= sent.under + Pace
    BY <1>5, <1>7, <1>8 DEF Spaced
<1>10. ASSUME NEW d \in Cycles \ lost PROVE Untold(d) \/ sent'.at >= announced[d]
    <2>1. CASE minute < announced[d]
        <3>1. PICK v \in Collectors : collector[v].step = "deferring" /\ collector[v].cycle = d
            BY <1>1, <1>3, <1>4, <1>5, <1>6, <2>1 DEF WaitsAreKept
        <3>2. v # w /\ collector[v] # NoCollector
            BY <1>1, <1>3, <3>1, IdleIs
        <3>3. d # c
            BY <1>1, <1>3, <1>4, <3>1, <3>2 DEF CyclesAreOwn
        <3> QED
            BY <1>6, <3>1, <3>3 DEF Untold, Acquires
    <2>2. CASE ~ (minute < announced[d])
        <3>1. announced[d] \in Nat
            BY <1>1 DEF CycleTypes
        <3> QED
            BY <1>5, <1>8, <2>2, <3>1
    <2> QED
        BY <2>1, <2>2
<1> QED
    BY <1>9, <1>10

(* The numbered publisher is sent nothing within the pace of the last       *)
(* authorization that was used, nor before an instant it asked any cycle to *)
(* wait for, unless the sender lost its acquisition between authorization   *)
(* and request, or the cycle that was asked ended, or lost lease or         *)
(* acquisition, before the database knew (authorize_numbered_family_        *)
(* request_v1, client.get, defer_numbered_family_v1).                       *)
THEOREM PublisherIsPaced == FamilySpec => PublisherPaced
<1>1. FamilyInit => FamilyIInv
    BY FamilyInitial
<1>2. FamilyIInv /\ [FamilyNext]_familyVars => FamilyIInv'
    BY FamilyNextKeeps
<1>3. FamilyIInv /\ [FamilyNext]_familyVars
          => [sent' # sent /\ Acquires(sent'.cycle) =>
                 /\ sent.cycle = 0 \/ sent'.at >= sent.under + Pace
                 /\ \A c \in Cycles \ lost : Untold(c) \/ sent'.at >= announced[c]]_familyVars
    BY SentInTime
<1> QED
    BY <1>1, <1>2, <1>3, PTL DEF FamilySpec, PublisherPaced
===============================================================================
