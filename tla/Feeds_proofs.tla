------------------------------ MODULE Feeds_proofs ------------------------------
(***************************************************************************)
(* Proofs about the three social feeds, for every value of their           *)
(* constants: what a cursor or a checkpoint has passed was stored, in      *)
(* whatever order leases, gates, crashes and the services outside came.    *)
(* The feeds share nothing, so each has an inductive invariant of its own. *)
(***************************************************************************)
EXTENDS NostrRelay, BlueskyStream, MastodonTags, FiniteSetTheorems,
        WellFoundedInduction, TLAPS
-------------------------------------------------------------------------------
\* A set of numbers with a bound has a greatest one.
LEMMA GreatestExists ==
    ASSUME NEW S \in SUBSET Nat, S # {}, NEW n \in Nat, \A x \in S : x <= n
    PROVE  \E g \in S : \A x \in S : x <= g
<1> DEFINE above(k) == {i \in S : i > k}
           family == {above(k) : k \in S}
<1>1. IsFiniteSet(S)
    BY FS_BoundedSetOfNaturals
<1>2. family \subseteq FiniteSubsetsOf(S) /\ family # {}
    <2>1. ASSUME NEW k \in S PROVE above(k) \in SUBSET S /\ IsFiniteSet(above(k))
        <3>1. above(k) \in SUBSET S
            OBVIOUS
        <3> QED
            BY <1>1, <3>1, FS_Subset
    <2> QED
        BY <2>1 DEF FiniteSubsetsOf
<1>3. PICK T \in family : \A U \in family : <<U, T>> \notin StrictSubsetOrdering(S)
    BY <1>2, FS_StrictSubsetOrderingWellFounded, WFMin
<1>4. PICK g \in S : T = above(g)
    OBVIOUS
<1>5. ASSUME NEW x \in S, x > g PROVE FALSE
    <2>1. above(x) \in family
        OBVIOUS
    <2>2. x \in Nat /\ g \in Nat /\ x \in T /\ x \notin above(x)
        BY <1>4, <1>5
    <2>3. \A i \in S : i > x => i > g
        BY <1>5, <2>2
    <2>4. above(x) \subseteq T
        BY <1>4, <2>3
    <2>5. <<above(x), T>> \in StrictSubsetOrdering(S)
        BY <1>4, <2>2, <2>4 DEF StrictSubsetOrdering
    <2> QED
        BY <1>3, <2>1, <2>5
<1>6. \A x \in S : x <= g
    BY <1>5
<1> QED
    BY <1>6
-------------------------------------------------------------------------------
(* Nostr.  A slice that is under way knows every post stored before its    *)
(* end, and one that was read holds whatever of its seconds had reached    *)
(* the relay by then: the checkpoint may move over it.                     *)

Undertaking ==
    Slice \cup Result \cup [stage : {"leased"}, relay : Relays, gen : Nat]

NostrTypes ==
    /\ NostrTypeOK
    /\ kept \in [Relays -> SUBSET (Events \X SUBSET Posts)]
    /\ work \in [NostrWorkers -> Undertaking \cup {Idle}]

NostrTimes ==
    /\ clock > 0
    /\ \A r \in Relays, e \in Events : arrived[r][e] <= clock
    /\ \A p \in Posts : candidate[p].first <= clock
    /\ \A r \in Relays : checkpoint[r] <= clock /\ (origin[r] > 0 => checkpoint[r] > 0)

KnowsStored(b) ==
    /\ b.until <= clock
    /\ \A p \in Posts :
          /\ 0 < candidate[p].first /\ candidate[p].first < b.until
          /\ Cardinality(Posts) <= KnownLimit
          => p \in b.known \/ candidate[p].deleted

\* A sound event of the slice's seconds that the relay had when it ended.
InSlice(c, e) ==
    /\ e \in sound /\ NeverCut(c.relay)
    /\ 0 < arrived[c.relay][e] /\ arrived[c.relay][e] < c.until
    /\ c.since <= at[e] /\ at[e] <= c.until

HoldsSlice(c) ==
    /\ c.until <= clock
    /\ \A p \in Posts : InSlice(c, p) => p \in c.posts
    /\ \A d \in Deletions : \A p \in named[d] :
          /\ InSlice(c, d)
          /\ 0 < candidate[p].first /\ candidate[p].first < c.until
          /\ Cardinality(Posts) <= KnownLimit
          => candidate[p].deleted \/ \E x \in c.deletions : x[1] = d /\ p \in x[2]

SlicesAreRead ==
    \A w \in NostrWorkers :
        /\ work[w].stage = "begun" => KnowsStored(work[w])
        /\ work[w].stage = "collected" => HoldsSlice(work[w])

NostrIInv ==
    /\ NostrTypes /\ NostrTimes /\ SlicesAreRead
    /\ TimelyPostsStored /\ TimelyDeletionsApplied

LEMMA IdleIs == Idle.stage = "idle" /\ \A x \in Undertaking : x # Idle
BY DEF Idle, Undertaking, Slice, Result

LEMMA UndertakingIs ==
    ASSUME NEW x \in Undertaking
    PROVE  /\ x.relay \in Relays /\ x.gen \in Nat
           /\ x.stage \in {"leased", "begun", "collected"}
           /\ x.stage = "begun" => x \in Slice
           /\ x.stage = "collected" => x \in Result
BY DEF Undertaking, Slice, Result

LEMMA Working ==
    ASSUME NostrTypes, NEW w \in NostrWorkers, work[w].stage # "idle"
    PROVE  work[w] \in Undertaking
BY IdleIs DEF NostrTypes

LEMMA NostrInitInv == ASSUME NostrAssumption PROVE NostrInit => NostrIInv
<1> SUFFICES ASSUME NostrInit PROVE NostrIInv
    OBVIOUS
<1> USE DEF NostrInit
<1>1. NostrTypes
    BY DEF NostrAssumption, NostrTypes, NostrTypeOK, NoLease, NoStream, NoCandidate
<1>2. NostrTimes
    BY DEF NostrAssumption, NostrTimes, NoCandidate, Events
<1>3. SlicesAreRead
    BY IdleIs DEF SlicesAreRead
<1>4. TimelyPostsStored /\ TimelyDeletionsApplied
    BY DEF TimelyPostsStored, TimelyDeletionsApplied, Overtaken, Events, NostrAssumption
<1> QED
    BY <1>1, <1>2, <1>3, <1>4 DEF NostrIInv

(* What is stored only grows: an event arrives once, a post is stored once *)
(* and is deleted for good.                                                *)
NostrGrows ==
    /\ clock' \in Nat /\ clock <= clock'
    /\ \A r \in Relays, e \in Events :
          \/ arrived'[r][e] = arrived[r][e]
          \/ arrived[r][e] = 0 /\ arrived'[r][e] = clock
    /\ \A p \in Posts :
          /\ candidate[p].deleted => candidate'[p].deleted
          /\ candidate[p].first > 0 => candidate'[p].first = candidate[p].first
          /\ candidate[p].first = 0 => candidate'[p].first \in {0, clock}

LEMMA StoredFacts ==
    ASSUME NostrTypes, NostrTimes, NEW posts \in SUBSET Posts,
           NEW deletions \in Writes, NEW p \in Posts
    PROVE  LET s == Stored(posts, deletions)
           IN  /\ s \in [Posts -> [first : Nat, last : Nat, deleted : BOOLEAN]]
               /\ candidate[p].deleted => s[p].deleted
               /\ candidate[p].first > 0 => s[p].first = candidate[p].first
               /\ candidate[p].first = 0 => s[p].first \in {0, clock}
               /\ p \in posts => s[p].first > 0
               /\ \A x \in deletions : p \in x[2] /\ Erases(x[1], p) => s[p].deleted
<1> DEFINE Row == [first : Nat, last : Nat, deleted : BOOLEAN]
           s == Stored(posts, deletions)
<1>1. clock \in Nat \ {0} /\ candidate \in [Posts -> Row]
    BY DEF NostrTypes, NostrTypeOK, NostrTimes
<1>2. ASSUME NEW q \in Posts
      PROVE  /\ Upserted(candidate[q]) \in Row
             /\ Upserted(candidate[q]).first =
                    IF candidate[q].first = 0 THEN clock ELSE candidate[q].first
             /\ Upserted(candidate[q]).deleted = candidate[q].deleted
    BY <1>1 DEF Upserted
<1>3. ASSUME NEW q \in Posts
      PROVE  /\ s[q] \in Row
             /\ candidate[q].deleted => s[q].deleted
             /\ s[q].first = IF q \in posts THEN Upserted(candidate[q]).first
                             ELSE candidate[q].first
             /\ \A x \in deletions : q \in x[2] /\ Erases(x[1], q) => s[q].deleted
    BY <1>1, <1>2 DEF Stored
<1>4. s \in [Posts -> Row]
    BY <1>3 DEF Stored
<1> QED
    BY <1>1, <1>2, <1>3, <1>4

LEMMA NostrGrowsNext == ASSUME NostrTypes, NostrTimes, NostrNext PROVE NostrGrows
<1>1. clock \in Nat /\ (clock' = clock \/ clock' = clock + 1)
    BY DEF NostrTypes, NostrTypeOK, NostrNext, NostrClaim, HandBack, NostrBegin, NostrDefer,
           NostrCollect, NostrFinalize, NostrHeartbeat, NostrCrash, Arrive, NostrTick
<1>2. \A r \in Relays, e \in Events :
          \/ arrived'[r][e] = arrived[r][e]
          \/ arrived[r][e] = 0 /\ arrived'[r][e] = clock
    <2>1. arrived \in [Relays -> [Events -> Nat]]
        BY DEF NostrTypes, NostrTypeOK
    <2>2. CASE \E r \in Relays, e \in Events : Arrive(r, e)
        BY <2>1, <2>2 DEF Arrive
    <2>3. CASE arrived' = arrived
        BY <2>3
    <2> QED
        BY <2>2, <2>3 DEF NostrNext, NostrClaim, HandBack, NostrBegin, NostrDefer,
           NostrCollect, NostrFinalize, NostrHeartbeat, NostrCrash, NostrTick
<1>3. ASSUME NEW w \in NostrWorkers, NostrFinalize(w), NEW p \in Posts
      PROVE  /\ candidate[p].deleted => candidate'[p].deleted
             /\ candidate[p].first > 0 => candidate'[p].first = candidate[p].first
             /\ candidate[p].first = 0 => candidate'[p].first \in {0, clock}
    <2>1. work[w] \in Result
        BY <1>3, Working, UndertakingIs DEF NostrFinalize
    <2>2. work[w].posts \in SUBSET Posts /\ work[w].deletions \in Writes
        BY <2>1 DEF Result
    <2>3. candidate' = Stored(work[w].posts, work[w].deletions)
        BY <1>3 DEF NostrFinalize
    <2> QED
        BY <2>2, <2>3, StoredFacts
<1>4. CASE \E w \in NostrWorkers : NostrFinalize(w)
    BY <1>1, <1>2, <1>3, <1>4 DEF NostrGrows
<1>5. CASE candidate' = candidate
    BY <1>1, <1>2, <1>5 DEF NostrGrows, NostrTypes, NostrTypeOK
<1> QED
    BY <1>4, <1>5 DEF NostrNext, NostrClaim, HandBack, NostrBegin, NostrDefer, NostrCollect,
           NostrHeartbeat, NostrCrash, Arrive, NostrTick, nostrRows

(* Counts.  A newest-first cut that may keep everything does.              *)
LEMMA NothingIsCut ==
    ASSUME NEW S, IsFiniteSet(S), NEW n \in Nat, Cardinality(S) <= n, NEW age(_),
           NEW T \in NewestOf(S, n, age)
    PROVE  T = S
<1>1. Cardinality(S) \in Nat
    BY FS_CardinalityType
<1>2. T \in SUBSET S /\ Cardinality(T) = Cardinality(S)
    BY <1>1 DEF NewestOf, LeastOf
<1> QED
    BY <1>2, FS_Subset

LEMMA FewArrived ==
    ASSUME NostrAssumption, NEW r \in Relays, NeverCut(r),
           NEW S, S \subseteq {e \in Events : arrived[r][e] > 0}
    PROVE  IsFiniteSet(S) /\ Cardinality(S) <= Limit
<1> DEFINE here == {e \in Events : arrived[r][e] > 0}
<1>1. IsFiniteSet(here) /\ Cardinality(here) \in Nat
    BY FS_Subset, FS_CardinalityType DEF NostrAssumption
<1>2. IsFiniteSet(S) /\ Cardinality(S) \in Nat /\ Cardinality(S) <= Cardinality(here)
    BY <1>1, FS_Subset, FS_CardinalityType
<1> QED
    BY <1>1, <1>2 DEF NeverCut, NostrAssumption

LEMMA FewPosts ==
    ASSUME NostrAssumption, Cardinality(Posts) <= KnownLimit
    PROVE  IsFiniteSet(Live) /\ Cardinality(Live) <= KnownLimit
<1>1. IsFiniteSet(Posts) /\ Cardinality(Posts) \in Nat
    BY FS_Subset, FS_CardinalityType DEF NostrAssumption, Events
<1>2. Live \in SUBSET Posts
    BY DEF Live
<1>3. IsFiniteSet(Live) /\ Cardinality(Live) \in Nat /\ Cardinality(Live) <= Cardinality(Posts)
    BY <1>1, <1>2, FS_Subset, FS_CardinalityType
<1> QED
    BY <1>1, <1>3 DEF NostrAssumption

(* An answer that was not cut holds all of the slice, and a begin that was *)
(* not cut knows every live candidate.                                     *)
LEMMA AnswerIsWhole ==
    ASSUME NostrAssumption, NEW r \in Relays, NeverCut(r), NEW since, NEW until, NEW known,
           NEW answer \in Answers(r, since, until, known), NEW e \in Events,
           arrived[r][e] > 0, since <= at[e], at[e] <= until,
           e \in Posts \/ (e \in Deletions /\ named[e] \cap known # {})
    PROVE  e \in answer
<1> DEFINE Here(S) == {x \in S : arrived[r][x] > 0 /\ since <= at[x] /\ at[x] <= until}
           age(x) == at[x]
           tells == {d \in Here(Deletions) : named[d] \cap known # {}}
<1>1. PICK P \in NewestOf(Here(Posts), Limit, age), D \in NewestOf(tells, Limit, age) :
          answer = P \cup D
    BY DEF Answers, NewestOf
<1>2. Here(Posts) \subseteq {x \in Events : arrived[r][x] > 0}
    BY DEF Events
<1>3. tells \subseteq {x \in Events : arrived[r][x] > 0}
    BY DEF Events
<1>4. Limit \in Nat
    BY DEF NostrAssumption
<1>5. P = Here(Posts)
    BY <1>1, <1>2, <1>4, FewArrived, NothingIsCut
<1>6. D = tells
    BY <1>1, <1>3, <1>4, FewArrived, NothingIsCut
<1> QED
    BY <1>1, <1>5, <1>6

LEMMA AllLiveKnown ==
    ASSUME NostrAssumption, Cardinality(Posts) <= KnownLimit, NEW known \in KnownSets
    PROVE  known = Live
<1> DEFINE last(p) == candidate[p].last
<1>1. known \in NewestOf(Live, KnownLimit, last)
    BY DEF KnownSets
<1>2. KnownLimit \in Nat
    BY DEF NostrAssumption
<1> QED
    BY <1>1, <1>2, FewPosts, NothingIsCut

LEMMA AnswerIsOfEvents ==
    ASSUME NEW r \in Relays, NEW since, NEW until, NEW known,
           NEW answer \in Answers(r, since, until, known)
    PROVE  answer \subseteq Events
<1> DEFINE Here(S) == {x \in S : arrived[r][x] > 0 /\ since <= at[x] /\ at[x] <= until}
           age(x) == at[x]
           tells == {d \in Here(Deletions) : named[d] \cap known # {}}
<1>1. PICK P \in NewestOf(Here(Posts), Limit, age), D \in NewestOf(tells, Limit, age) :
          answer = P \cup D
    BY DEF Answers, NewestOf
<1>2. P \subseteq Posts /\ D \subseteq Deletions
    BY <1>1 DEF NewestOf
<1> QED
    BY <1>1, <1>2 DEF Events

\* A relay that was never over the limit was not so a step before.
LEMMA RelayNotCutBefore ==
    ASSUME NostrAssumption, NostrTypes, NostrGrows, NEW r \in Relays, NeverCut(r)'
    PROVE  NeverCut(r)
<1> DEFINE before == {e \in Events : arrived[r][e] > 0}
           after == {e \in Events : arrived'[r][e] > 0}
<1>1. before \in SUBSET after
    <2>1. ASSUME NEW e \in Events, arrived[r][e] > 0 PROVE arrived'[r][e] > 0
        BY <2>1 DEF NostrGrows
    <2> QED
        BY <2>1
<1>2. IsFiniteSet(after)
    BY FS_Subset DEF NostrAssumption
<1>3. Cardinality(before) \in Nat /\ Cardinality(after) \in Nat
      /\ Cardinality(before) <= Cardinality(after)
    BY <1>1, <1>2, FS_Subset, FS_CardinalityType
<1>4. Cardinality(after) <= Limit /\ Limit \in Nat
    BY DEF NeverCut, NostrAssumption
<1> QED
    BY <1>3, <1>4 DEF NeverCut

(* A slice that stays with its worker is still sound after any step.       *)
LEMMA SliceStays ==
    ASSUME NostrAssumption, NostrTypes, NostrGrows, SlicesAreRead,
           NEW w \in NostrWorkers, work'[w] = work[w]
    PROVE  /\ work'[w].stage = "begun" => KnowsStored(work[w])'
           /\ work'[w].stage = "collected" => HoldsSlice(work[w])'
<1> DEFINE c == work[w]
<1>1. clock \in Nat /\ clock' \in Nat /\ clock <= clock'
    BY DEF NostrGrows, NostrTypes, NostrTypeOK
<1>2. c.stage \in {"begun", "collected"} =>
          /\ c.relay \in Relays /\ c.until \in Nat /\ c.since \in Nat
          /\ c.until <= clock /\ c.until <= clock'
    <2>1. c.stage \in {"begun", "collected"} => c \in Slice \cup Result
        BY Working, UndertakingIs
    <2>2. c.stage \in {"begun", "collected"} => c.until <= clock
        BY DEF SlicesAreRead, KnowsStored, HoldsSlice
    <2> QED
        BY <1>1, <2>1, <2>2 DEF Slice, Result
<1>3. ASSUME NEW p \in Posts, c.stage \in {"begun", "collected"},
             0 < candidate'[p].first, candidate'[p].first < c.until
      PROVE  candidate'[p].first = candidate[p].first
    <2>1. candidate[p].first \in Nat
        BY DEF NostrTypes, NostrTypeOK
    <2>2. candidate[p].first = 0 => candidate'[p].first \in {0, clock}
        BY DEF NostrGrows
    <2>3. candidate[p].first # 0
        BY <1>1, <1>2, <1>3, <2>2
    <2>4. candidate[p].first > 0 => candidate'[p].first = candidate[p].first
        BY DEF NostrGrows
    <2> QED
        BY <2>1, <2>3, <2>4
<1>4. ASSUME NEW p \in Posts
      PROVE  candidate[p].deleted => candidate'[p].deleted
    BY DEF NostrGrows
<1>5. ASSUME c.stage = "begun" PROVE KnowsStored(c)'
    BY <1>2, <1>3, <1>4, <1>5 DEF SlicesAreRead, KnowsStored
<1>6. ASSUME c.stage = "collected", NEW e \in Events, InSlice(c, e)' PROVE InSlice(c, e)
    <2>1. arrived'[c.relay][e] < c.until /\ 0 < arrived'[c.relay][e]
        BY <1>6 DEF InSlice
    <2>2. \/ arrived'[c.relay][e] = arrived[c.relay][e]
          \/ arrived[c.relay][e] = 0 /\ arrived'[c.relay][e] = clock
        BY <1>2, <1>6 DEF NostrGrows
    <2>3. arrived'[c.relay][e] = arrived[c.relay][e]
        BY <1>1, <1>2, <1>6, <2>1, <2>2
    <2>4. NeverCut(c.relay)
        BY <1>2, <1>6, RelayNotCutBefore DEF InSlice
    <2> QED
        BY <1>6, <2>3, <2>4 DEF InSlice
<1>7. ASSUME c.stage = "collected" PROVE HoldsSlice(c)'
    <2>1. HoldsSlice(c)
        BY <1>7 DEF SlicesAreRead
    <2>2. ASSUME NEW p \in Posts, InSlice(c, p)' PROVE p \in c.posts
        BY <1>6, <1>7, <2>1, <2>2 DEF HoldsSlice, Events
    <2>3. ASSUME NEW d \in Deletions, NEW p \in named[d], InSlice(c, d)',
                 0 < candidate'[p].first, candidate'[p].first < c.until,
                 Cardinality(Posts) <= KnownLimit
          PROVE  candidate'[p].deleted \/ \E x \in c.deletions : x[1] = d /\ p \in x[2]
        <3>1. p \in Posts /\ InSlice(c, d)
            BY <1>6, <1>7, <2>3 DEF Events, NostrAssumption
        <3>2. 0 < candidate[p].first /\ candidate[p].first < c.until
            BY <1>3, <1>7, <2>3, <3>1
        <3> QED
            BY <1>4, <2>1, <2>3, <3>1, <3>2 DEF HoldsSlice
    <2> QED
        BY <1>2, <1>7, <2>2, <2>3 DEF HoldsSlice
<1> QED
    BY <1>5, <1>7

(* A begin that was granted knows what is stored.                          *)
LEMMA BeginKnows ==
    ASSUME NostrAssumption, NostrTypes, NostrTimes, NEW w \in NostrWorkers, NostrBegin(w)
    PROVE  work'[w].stage = "begun" /\ KnowsStored(work[w])'
<1>1. clock' = clock /\ candidate' = candidate /\ clock \in Nat
    BY DEF NostrBegin, nostrRows, NostrTypes, NostrTypeOK
<1>2. PICK known \in KnownSets :
          work' = [work EXCEPT ![w] =
                      [stage |-> "begun", relay |-> work[w].relay, gen |-> work[w].gen,
                       since |-> SinceOf(checkpoint[work[w].relay], clock), until |-> clock,
                       base |-> checkpoint[work[w].relay], known |-> known]]
    BY DEF NostrBegin
<1>3. /\ work'[w].stage = "begun" /\ work'[w].until = clock /\ work'[w].known = known
    BY <1>2 DEF NostrTypes
<1>4. ASSUME NEW p \in Posts, 0 < candidate[p].first, Cardinality(Posts) <= KnownLimit
      PROVE  p \in known \/ candidate[p].deleted
    BY <1>2, <1>4, AllLiveKnown DEF Live
<1> QED
    BY <1>1, <1>3, <1>4 DEF KnowsStored

(* What a slice that was read holds: every post, and of every deletion     *)
(* each target that was stored when the slice ended.                       *)
LEMMA CollectHolds ==
    ASSUME NostrAssumption, NostrTypes, SlicesAreRead, NEW w \in NostrWorkers, NostrCollect(w)
    PROVE  work'[w].stage = "collected" /\ HoldsSlice(work[w])'
<1> DEFINE b == work[w]
<1>1. b \in Slice /\ KnowsStored(b)
    BY Working, UndertakingIs DEF NostrCollect, SlicesAreRead
<1>2. clock' = clock /\ candidate' = candidate /\ arrived' = arrived
    BY DEF NostrCollect, nostrRows
<1>3. PICK answer \in Answers(b.relay, b.since, b.until, b.known) :
          work' = [work EXCEPT ![w] =
              [stage |-> "collected", relay |-> b.relay, gen |-> b.gen,
               since |-> b.since, until |-> b.until, base |-> b.base,
               seen |-> Cardinality(answer),
               posts |-> CollectedPosts(answer, b.until),
               deletions |-> CollectedDeletions(answer, b.until, b.known)]]
    BY DEF NostrCollect
<1>4. /\ work'[w].stage = "collected" /\ work'[w].relay = b.relay
      /\ work'[w].since = b.since /\ work'[w].until = b.until
      /\ work'[w].posts = CollectedPosts(answer, b.until)
      /\ work'[w].deletions = CollectedDeletions(answer, b.until, b.known)
    BY <1>3 DEF NostrTypes
<1>5. /\ b.relay \in Relays /\ b.until \in Nat /\ b.since \in Nat
      /\ b.known \subseteq Posts /\ b.until <= clock
    BY <1>1 DEF Slice, KnowsStored
<1>6. ASSUME NEW e \in Events, InSlice(work[w], e)'
      PROVE  /\ NeverCut(b.relay) /\ arrived[b.relay][e] > 0
             /\ b.since <= at[e] /\ at[e] <= b.until /\ Parsed(e, b.until)
             /\ arrived[b.relay][e] < b.until
    <2>1. e \in sound /\ NeverCut(b.relay)
        BY <1>2, <1>4, <1>6 DEF InSlice, NeverCut
    <2>2. /\ arrived[b.relay][e] > 0 /\ arrived[b.relay][e] < b.until
          /\ b.since <= at[e] /\ at[e] <= b.until
        BY <1>2, <1>4, <1>6 DEF InSlice
    <2>3. at[e] \in Nat
        BY DEF NostrAssumption
    <2> QED
        BY <1>5, <2>1, <2>2, <2>3 DEF Parsed
<1>7. ASSUME NEW p \in Posts, InSlice(work[w], p)' PROVE p \in CollectedPosts(answer, b.until)
    <2>1. p \in Events
        BY DEF Events
    <2>2. p \in answer
        BY <1>3, <1>5, <1>6, <1>7, <2>1, AnswerIsWhole
    <2> QED
        BY <1>6, <1>7, <2>1, <2>2 DEF CollectedPosts
<1>8. ASSUME NEW d \in Deletions, NEW p \in named[d], InSlice(work[w], d)',
             0 < candidate[p].first, candidate[p].first < b.until,
             Cardinality(Posts) <= KnownLimit, ~candidate[p].deleted
      PROVE  \E x \in CollectedDeletions(answer, b.until, b.known) : x[1] = d /\ p \in x[2]
    <2>1. d \in Events /\ p \in Posts
        BY DEF Events, NostrAssumption
    <2>2. p \in b.known
        BY <1>1, <1>8, <2>1 DEF KnowsStored
    <2>3. d \in answer
        BY <1>3, <1>5, <1>6, <1>8, <2>1, <2>2, AnswerIsWhole
    <2>4. <<d, named[d] \cap b.known>> \in CollectedDeletions(answer, b.until, b.known)
        BY <1>6, <1>8, <2>1, <2>3 DEF CollectedDeletions
    <2> QED
        BY <2>2, <2>4
<1> QED
    BY <1>2, <1>4, <1>5, <1>7, <1>8 DEF HoldsSlice

LEMMA LeaseStretched ==
    ASSUME NEW l \in [gen : Nat, until : Nat], NEW t \in Nat
    PROVE  [l EXCEPT !.until = t] \in [gen : Nat, until : Nat]
OBVIOUS

LEMMA NostrTypesNext ==
    ASSUME NostrAssumption, NostrTypes, NostrTimes, NostrNext PROVE NostrTypes'
<1> USE DEF NostrAssumption
<1> DEFINE Row == [first : Nat, last : Nat, deleted : BOOLEAN]
<1>1. /\ clock \in Nat /\ arrived \in [Relays -> [Events -> Nat]]
      /\ checkpoint \in [Relays -> Nat] /\ claims \in [Relays -> Nat]
      /\ lease \in [Relays -> [gen : Nat, until : Nat]]
      /\ stream \in [Relays -> [gen : Nat, acquired : Nat, until : Nat]]
      /\ attempted \in [Relays -> Nat] /\ origin \in [Relays -> Nat]
      /\ candidate \in [Posts -> Row]
      /\ kept \in [Relays -> SUBSET (Events \X SUBSET Posts)]
      /\ work \in [NostrWorkers -> Undertaking \cup {Idle}]
    BY DEF NostrTypes, NostrTypeOK
<1>2. ASSUME clock' \in Nat,
             arrived' \in [Relays -> [Events -> Nat]],
             checkpoint' \in [Relays -> Nat],
             claims' \in [Relays -> Nat],
             lease' \in [Relays -> [gen : Nat, until : Nat]],
             stream' \in [Relays -> [gen : Nat, acquired : Nat, until : Nat]],
             attempted' \in [Relays -> Nat],
             origin' \in [Relays -> Nat],
             candidate' \in [Posts -> Row],
             kept' \in [Relays -> SUBSET (Events \X SUBSET Posts)],
             work' \in [NostrWorkers -> Undertaking \cup {Idle}]
      PROVE  NostrTypes'
    <2>1. \A w \in NostrWorkers : work'[w] \in Undertaking \cup {Idle}
        BY <1>2
    <2>2. \A r \in Relays : kept'[r] \subseteq Events \X SUBSET Posts
        BY <1>2
    <2> QED
        BY <1>2, <2>1, <2>2 DEF NostrTypes, NostrTypeOK, Undertaking
<1>3. ASSUME NEW w \in NostrWorkers, NEW r \in Relays, NostrClaim(w, r) PROVE NostrTypes'
    <2>1. claims' \in [Relays -> Nat]
        BY <1>1, <1>3 DEF NostrClaim
    <2>2. [gen |-> claims'[r], until |-> clock + NostrLease] \in [gen : Nat, until : Nat]
        BY <1>1, <2>1
    <2>3. lease' \in [Relays -> [gen : Nat, until : Nat]]
        BY <1>1, <1>3, <2>2 DEF NostrClaim
    <2>4. [stage |-> "leased", relay |-> r, gen |-> claims'[r]] \in Undertaking
        BY <2>1 DEF Undertaking
    <2>5. work' \in [NostrWorkers -> Undertaking \cup {Idle}]
        BY <1>1, <1>3, <2>4 DEF NostrClaim
    <2> QED
        BY <1>1, <1>2, <1>3, <2>1, <2>3, <2>5 DEF NostrClaim, nostrRows
<1>4. ASSUME NEW w \in NostrWorkers, NEW failed \in BOOLEAN, HandBack(w, failed)
      PROVE  NostrTypes'
    <2>1. work[w].relay \in Relays
        BY <1>4, Working, UndertakingIs DEF HandBack
    <2>2. NoLease \in [gen : Nat, until : Nat]
          /\ NoStream \in [gen : Nat, acquired : Nat, until : Nat]
        BY DEF NoLease, NoStream
    <2>3. lease' \in [Relays -> [gen : Nat, until : Nat]]
        BY <1>1, <1>4, <2>1, <2>2 DEF HandBack
    <2>4. stream' \in [Relays -> [gen : Nat, acquired : Nat, until : Nat]]
        BY <1>1, <1>4, <2>1, <2>2 DEF HandBack
    <2>5. attempted' \in [Relays -> Nat] /\ work' \in [NostrWorkers -> Undertaking \cup {Idle}]
        BY <1>1, <1>4, <2>1 DEF HandBack
    <2> QED
        BY <1>1, <1>2, <1>4, <2>3, <2>4, <2>5 DEF HandBack, nostrRows
<1>5. ASSUME NEW w \in NostrWorkers, NostrBegin(w) PROVE NostrTypes'
    <2> DEFINE r == work[w].relay
               deadline == MostOf(lease[r].until, clock + NostrBeginLease)
    <2>1. r \in Relays /\ work[w].gen \in Nat
        BY <1>5, Working, UndertakingIs DEF NostrBegin
    <2>2. deadline \in Nat
        BY <1>1, <2>1 DEF MostOf
    <2> HIDE DEF deadline
    <2>3. [lease[r] EXCEPT !.until = deadline] \in [gen : Nat, until : Nat]
        BY <1>1, <2>1, <2>2, LeaseStretched
    <2>4. lease' \in [Relays -> [gen : Nat, until : Nat]]
        BY <1>1, <1>5, <2>1, <2>3 DEF NostrBegin, deadline
    <2>5. [gen |-> work[w].gen, acquired |-> clock, until |-> deadline]
              \in [gen : Nat, acquired : Nat, until : Nat]
        BY <1>1, <2>1, <2>2
    <2>6. stream' \in [Relays -> [gen : Nat, acquired : Nat, until : Nat]]
        BY <1>1, <1>5, <2>1, <2>5 DEF NostrBegin, deadline
    <2>7. PICK known \in KnownSets :
              work' = [work EXCEPT ![w] =
                          [stage |-> "begun", relay |-> r, gen |-> work[w].gen,
                           since |-> SinceOf(checkpoint[r], clock), until |-> clock,
                           base |-> checkpoint[r], known |-> known]]
        BY <1>5 DEF NostrBegin
    <2>8. known \in SUBSET Posts
        BY DEF KnownSets, NewestOf, Live
    <2>9. SinceOf(checkpoint[r], clock) \in Nat /\ checkpoint[r] \in Nat
        BY <1>1, <2>1 DEF SinceOf, MostOf
    <2>10. [stage |-> "begun", relay |-> r, gen |-> work[w].gen,
            since |-> SinceOf(checkpoint[r], clock), until |-> clock,
            base |-> checkpoint[r], known |-> known] \in Slice
        BY <1>1, <2>1, <2>8, <2>9 DEF Slice
    <2>11. work' \in [NostrWorkers -> Undertaking \cup {Idle}]
        BY <1>1, <2>7, <2>10 DEF Undertaking
    <2>12. attempted' \in [Relays -> Nat]
        BY <1>1, <1>5, <2>1 DEF NostrBegin
    <2> QED
        BY <1>1, <1>2, <1>5, <2>4, <2>6, <2>11, <2>12 DEF NostrBegin, nostrRows
<1>6. ASSUME NEW w \in NostrWorkers, NostrCollect(w) PROVE NostrTypes'
    <2> DEFINE b == work[w]
    <2>1. b \in Slice
        BY <1>6, Working, UndertakingIs DEF NostrCollect
    <2>2. PICK answer \in Answers(b.relay, b.since, b.until, b.known) :
              work' = [work EXCEPT ![w] =
                  [stage |-> "collected", relay |-> b.relay, gen |-> b.gen,
                   since |-> b.since, until |-> b.until, base |-> b.base,
                   seen |-> Cardinality(answer),
                   posts |-> CollectedPosts(answer, b.until),
                   deletions |-> CollectedDeletions(answer, b.until, b.known)]]
        BY <1>6 DEF NostrCollect
    <2>3. b.relay \in Relays /\ b.known \subseteq Posts
        BY <2>1 DEF Slice
    <2>4. answer \subseteq Events
        BY <2>2, <2>3, AnswerIsOfEvents
    <2>5. Cardinality(answer) \in Nat
        BY <2>4, FS_Subset, FS_CardinalityType
    <2>6. CollectedPosts(answer, b.until) \in SUBSET Posts
        BY DEF CollectedPosts
    <2>7. CollectedDeletions(answer, b.until, b.known) \in Writes
        BY <2>3 DEF CollectedDeletions, Writes
    <2>8. [stage |-> "collected", relay |-> b.relay, gen |-> b.gen,
           since |-> b.since, until |-> b.until, base |-> b.base,
           seen |-> Cardinality(answer),
           posts |-> CollectedPosts(answer, b.until),
           deletions |-> CollectedDeletions(answer, b.until, b.known)] \in Result
        BY <2>1, <2>5, <2>6, <2>7 DEF Result, Slice
    <2>9. work' \in [NostrWorkers -> Undertaking \cup {Idle}]
        BY <1>1, <2>2, <2>8 DEF Undertaking
    <2> QED
        BY <1>1, <1>2, <1>6, <2>9 DEF NostrCollect, nostrRows
<1>7. ASSUME NEW w \in NostrWorkers, NostrFinalize(w) PROVE NostrTypes'
    <2> DEFINE c == work[w]
    <2>1. c \in Result
        BY <1>7, Working, UndertakingIs DEF NostrFinalize
    <2>2. /\ c.relay \in Relays /\ c.until \in Nat /\ c.since \in Nat
          /\ c.posts \in SUBSET Posts /\ c.deletions \in Writes
        BY <2>1 DEF Result
    <2>3. candidate' \in [Posts -> Row]
        <3>1. candidate' = Stored(c.posts, c.deletions)
            BY <1>7 DEF NostrFinalize
        <3>2. CASE Posts = {}
            BY <3>1, <3>2 DEF Stored
        <3>3. CASE Posts # {}
            BY <3>1, <3>3, <2>2, StoredFacts
        <3> QED
            BY <3>2, <3>3
    <2>4. kept' \in [Relays -> SUBSET (Events \X SUBSET Posts)]
        BY <1>1, <1>7, <2>2 DEF NostrFinalize, Writes, Events
    <2>5. /\ checkpoint' \in [Relays -> Nat] /\ origin' \in [Relays -> Nat]
          /\ attempted' \in [Relays -> Nat]
        BY <1>1, <1>7, <2>2 DEF NostrFinalize
    <2>6. lease' \in [Relays -> [gen : Nat, until : Nat]]
        BY <1>1, <1>7 DEF NostrFinalize, NoLease
    <2>7. stream' \in [Relays -> [gen : Nat, acquired : Nat, until : Nat]]
        BY <1>1, <1>7 DEF NostrFinalize, NoStream
    <2>8. work' \in [NostrWorkers -> Undertaking \cup {Idle}]
        BY <1>1, <1>7 DEF NostrFinalize
    <2> QED
        BY <1>1, <1>2, <1>7, <2>3, <2>4, <2>5, <2>6, <2>7, <2>8 DEF NostrFinalize
<1>8. ASSUME NEW w \in NostrWorkers, NostrHeartbeat(w) PROVE NostrTypes'
    <2> DEFINE r == work[w].relay
    <2>1. r \in Relays
        BY <1>8, Working, UndertakingIs DEF NostrHeartbeat
    <2>2. clock + NostrLease \in Nat
        BY <1>1
    <2>3. lease' \in [Relays -> [gen : Nat, until : Nat]]
        BY <1>1, <1>8, <2>1, <2>2 DEF NostrHeartbeat
    <2>4. stream' \in [Relays -> [gen : Nat, acquired : Nat, until : Nat]]
        BY <1>1, <1>8, <2>1, <2>2 DEF NostrHeartbeat
    <2> QED
        BY <1>1, <1>2, <1>8, <2>3, <2>4 DEF NostrHeartbeat, nostrRows
<1>9. ASSUME NEW w \in NostrWorkers, NostrCrash(w) PROVE NostrTypes'
    BY <1>1, <1>2, <1>9 DEF NostrCrash, nostrRows
<1>10. ASSUME NEW r \in Relays, NEW e \in Events, Arrive(r, e) PROVE NostrTypes'
    BY <1>1, <1>2, <1>10 DEF Arrive, nostrRows
<1>11. ASSUME NostrTick PROVE NostrTypes'
    BY <1>1, <1>2, <1>11 DEF NostrTick, nostrRows
<1> QED
    BY <1>3, <1>4, <1>5, <1>6, <1>7, <1>8, <1>9, <1>10, <1>11 DEF NostrNext, NostrDefer

(* A finalize moves the checkpoint of its relay to the end of a slice that *)
(* was read whole, and that began no later than the overlap before it.     *)
LEMMA FinalizeFacts ==
    ASSUME NostrAssumption, NostrTypes, SlicesAreRead, NEW w \in NostrWorkers, NostrFinalize(w)
    PROVE  LET c == work[w]
           IN  /\ c \in Result /\ c.relay \in Relays /\ HoldsSlice(c)
               /\ c.base = checkpoint[c.relay] /\ c.since = SinceOf(c.base, c.until)
               /\ c.until > c.base /\ c.until <= clock /\ c.base \in Nat /\ c.until \in Nat
               /\ c.posts \in SUBSET Posts /\ c.deletions \in Writes
               /\ checkpoint' = [checkpoint EXCEPT ![c.relay] = c.until]
               /\ origin' = [origin EXCEPT ![c.relay] = IF @ = 0 THEN c.since ELSE @]
               /\ candidate' = Stored(c.posts, c.deletions)
               /\ clock' = clock /\ arrived' = arrived
<1>1. work[w] \in Result
    BY Working, UndertakingIs DEF NostrFinalize
<1>2. HoldsSlice(work[w])
    BY DEF NostrFinalize, SlicesAreRead
<1> QED
    BY <1>1, <1>2 DEF Result, NostrFinalize, MayFinalize, HoldsSlice

LEMMA NostrTimesNext ==
    ASSUME NostrAssumption, NostrTypes, NostrTimes, SlicesAreRead, NostrNext, NostrGrows
    PROVE  NostrTimes'
<1>1. clock \in Nat /\ clock > 0 /\ clock' \in Nat /\ clock <= clock'
    BY DEF NostrTypes, NostrTypeOK, NostrTimes, NostrGrows
<1>2. ASSUME NEW r \in Relays, NEW e \in Events PROVE arrived'[r][e] <= clock'
    <2>1. arrived[r][e] \in Nat /\ arrived[r][e] <= clock
        BY DEF NostrTypes, NostrTypeOK, NostrTimes
    <2>2. arrived'[r][e] = arrived[r][e] \/ arrived'[r][e] = clock
        BY DEF NostrGrows
    <2> QED
        BY <1>1, <2>1, <2>2
<1>3. ASSUME NEW p \in Posts PROVE candidate'[p].first <= clock'
    <2>1. candidate[p].first \in Nat /\ candidate[p].first <= clock
        BY DEF NostrTypes, NostrTypeOK, NostrTimes
    <2>2. candidate'[p].first \in {0, clock, candidate[p].first}
        BY <2>1 DEF NostrGrows
    <2> QED
        BY <1>1, <2>1, <2>2
<1>4. ASSUME NEW r \in Relays
      PROVE  checkpoint'[r] <= clock' /\ (origin'[r] > 0 => checkpoint'[r] > 0)
    <2>1. /\ checkpoint \in [Relays -> Nat] /\ origin \in [Relays -> Nat]
          /\ checkpoint[r] <= clock /\ (origin[r] > 0 => checkpoint[r] > 0)
        BY DEF NostrTypes, NostrTypeOK, NostrTimes
    <2>2. CASE UNCHANGED <<checkpoint, origin>>
        BY <1>1, <2>1, <2>2
    <2>3. CASE \E w \in NostrWorkers : NostrFinalize(w)
        <3>1. PICK w \in NostrWorkers : NostrFinalize(w)
            BY <2>3
        <3>2. CASE r = work[w].relay
            BY <1>1, <2>1, <3>1, <3>2, FinalizeFacts
        <3>3. CASE r # work[w].relay
            BY <1>1, <2>1, <3>1, <3>3, FinalizeFacts
        <3> QED
            BY <3>2, <3>3
    <2> QED
        BY <2>2, <2>3 DEF NostrNext, NostrClaim, HandBack, NostrBegin, NostrDefer, NostrCollect,
           NostrHeartbeat, NostrCrash, Arrive, NostrTick, nostrRows
<1> QED
    BY <1>1, <1>2, <1>3, <1>4 DEF NostrTimes

LEMMA SlicesNext ==
    ASSUME NostrAssumption, NostrTypes, NostrTimes, SlicesAreRead, NostrNext, NostrGrows
    PROVE  SlicesAreRead'
<1> SUFFICES ASSUME NEW v \in NostrWorkers
             PROVE  /\ work'[v].stage = "begun" => KnowsStored(work[v])'
                    /\ work'[v].stage = "collected" => HoldsSlice(work[v])'
    BY DEF SlicesAreRead
<1>1. work \in [NostrWorkers -> Undertaking \cup {Idle}]
    BY DEF NostrTypes
<1>2. CASE work'[v] = work[v]
    BY <1>2, SliceStays
<1>3. CASE work'[v].stage \in {"idle", "leased"}
    BY <1>3
<1>4. CASE NostrBegin(v)
    BY <1>4, BeginKnows
<1>5. CASE NostrCollect(v)
    BY <1>5, CollectHolds
<1>6. ASSUME NEW w \in NostrWorkers,
             \/ NostrDefer(w) \/ NostrFinalize(w) \/ HandBack(w, TRUE) \/ NostrCrash(w)
      PROVE  work'[v] = work[v] \/ work'[v].stage = "idle"
    BY <1>1, <1>6, IdleIs DEF NostrDefer, HandBack, NostrFinalize, NostrCrash
<1>7. ASSUME NEW w \in NostrWorkers, NEW r \in Relays, NostrClaim(w, r)
      PROVE  work'[v] = work[v] \/ work'[v].stage = "leased"
    BY <1>1, <1>7 DEF NostrClaim
<1>8. ASSUME NEW w \in NostrWorkers, w # v, NostrBegin(w) \/ NostrCollect(w)
      PROVE  work'[v] = work[v]
    BY <1>1, <1>8 DEF NostrBegin, NostrCollect
<1>9. ASSUME NEW w \in NostrWorkers, NostrHeartbeat(w) PROVE work'[v] = work[v]
    BY <1>9 DEF NostrHeartbeat
<1>10. ASSUME NEW r \in Relays, NEW e \in Events, Arrive(r, e) PROVE work'[v] = work[v]
    BY <1>10 DEF Arrive
<1>11. ASSUME NostrTick PROVE work'[v] = work[v]
    BY <1>11 DEF NostrTick
<1> QED
    BY <1>2, <1>3, <1>4, <1>5, <1>6, <1>7, <1>8, <1>9, <1>10, <1>11 DEF NostrNext

(* What the checkpoint has just passed it either had passed before, or it  *)
(* lies in the slice: an event that came within the overlap cannot be in   *)
(* front of the slice's start.                                             *)
LEMMA PassedOrInSlice ==
    ASSUME NostrAssumption, NostrTypes, NostrTimes, SlicesAreRead,
           NEW w \in NostrWorkers, NostrFinalize(w), NEW r \in Relays, r = work[w].relay,
           NEW e \in Events, e \in sound, Overtaken(r, e)', NeverCut(r)
    PROVE  Overtaken(r, e) \/ InSlice(work[w], e)
<1> DEFINE c == work[w]
<1>1. /\ c \in Result /\ r \in Relays
      /\ c.base = checkpoint[r] /\ c.since = SinceOf(c.base, c.until) /\ c.until > c.base
      /\ c.base \in Nat /\ c.until \in Nat
      /\ checkpoint'[r] = c.until /\ arrived' = arrived
      /\ origin'[r] = IF origin[r] = 0 THEN c.since ELSE origin[r]
    BY FinalizeFacts DEF NostrTypes, NostrTypeOK
<1>2. /\ at[e] \in Nat \ {0} /\ Overlap \in Nat \ {0}
      /\ origin[r] \in Nat /\ arrived[r][e] \in Nat
      /\ origin[r] > 0 => checkpoint[r] > 0
    BY <1>1 DEF NostrAssumption, NostrTypes, NostrTypeOK, NostrTimes
<1>3. /\ arrived[r][e] > 0 /\ arrived[r][e] <= at[e] + Overlap
      /\ origin'[r] <= at[e] /\ arrived[r][e] < c.until /\ at[e] <= c.until
    BY <1>1 DEF Overtaken
<1>4. CASE c.base = 0
    BY <1>1, <1>2, <1>3, <1>4 DEF InSlice
<1>5. CASE c.base > 0 /\ (arrived[r][e] >= c.base \/ at[e] > c.base)
    <2>1. c.since <= at[e]
        BY <1>1, <1>2, <1>3, <1>5 DEF SinceOf, MostOf
    <2> QED
        BY <1>3, <2>1 DEF InSlice
<1>6. CASE c.base > 0 /\ arrived[r][e] < c.base /\ at[e] <= c.base
    <2>1. origin[r] <= at[e]
        BY <1>1, <1>2, <1>3
    <2> QED
        BY <1>1, <1>3, <1>6, <2>1 DEF Overtaken
<1> QED
    BY <1>1, <1>2, <1>4, <1>5, <1>6

\* A relay whose checkpoint stands has passed nothing new.
LEMMA PassedBefore ==
    ASSUME NostrTypes, NostrTimes, NostrGrows, NEW r \in Relays, NEW e \in Events,
           checkpoint'[r] = checkpoint[r], origin'[r] = origin[r], Overtaken(r, e)'
    PROVE  Overtaken(r, e) /\ arrived'[r][e] = arrived[r][e]
<1>1. clock \in Nat /\ checkpoint[r] \in Nat /\ checkpoint[r] <= clock
    BY DEF NostrTypes, NostrTypeOK, NostrTimes
<1>2. arrived'[r][e] < checkpoint[r]
    BY DEF Overtaken
<1>3. arrived'[r][e] = arrived[r][e]
    BY <1>1, <1>2 DEF NostrGrows
<1> QED
    BY <1>3 DEF Overtaken

LEMMA TimelyPostsNext ==
    ASSUME NostrAssumption, NostrTypes, NostrTimes, SlicesAreRead, TimelyPostsStored,
           NostrNext, NostrGrows
    PROVE  TimelyPostsStored'
<1> SUFFICES ASSUME NEW r \in Relays, NEW p \in Posts,
                    Overtaken(r, p)', p \in sound, NeverCut(r)'
             PROVE  candidate'[p].first > 0
    BY DEF TimelyPostsStored
<1>1. p \in Events /\ NeverCut(r)
    BY RelayNotCutBefore DEF Events
<1>2. candidate[p].first > 0 => candidate'[p].first > 0
    BY DEF NostrGrows
<1>3. CASE checkpoint'[r] = checkpoint[r] /\ origin'[r] = origin[r]
    BY <1>1, <1>2, <1>3, PassedBefore DEF TimelyPostsStored
<1>4. ASSUME NEW w \in NostrWorkers, NostrFinalize(w)
      PROVE  candidate'[p].first > 0
    <2>1. CASE r # work[w].relay
        BY <1>3, <1>4, <2>1, FinalizeFacts DEF NostrTypes, NostrTypeOK
    <2>2. CASE r = work[w].relay /\ Overtaken(r, p)
        BY <1>1, <1>2, <2>2 DEF TimelyPostsStored
    <2>3. CASE r = work[w].relay /\ InSlice(work[w], p)
        <3>1. /\ p \in work[w].posts /\ candidate' = Stored(work[w].posts, work[w].deletions)
              /\ work[w].posts \in SUBSET Posts /\ work[w].deletions \in Writes
            BY <1>4, <2>3, FinalizeFacts DEF HoldsSlice
        <3> QED
            BY <3>1, StoredFacts
    <2> QED
        BY <1>1, <1>4, <2>1, <2>2, <2>3, PassedOrInSlice
<1> QED
    BY <1>3, <1>4 DEF NostrNext, NostrClaim, HandBack, NostrBegin, NostrDefer, NostrCollect,
       NostrHeartbeat, NostrCrash, Arrive, NostrTick, nostrRows

LEMMA TimelyDeletionsNext ==
    ASSUME NostrAssumption, NostrTypes, NostrTimes, SlicesAreRead, TimelyDeletionsApplied,
           NostrNext, NostrGrows
    PROVE  TimelyDeletionsApplied'
<1> SUFFICES ASSUME NEW r \in Relays, NEW d \in Deletions, NEW p \in named[d],
                    Overtaken(r, d)', d \in sound, NeverCut(r)', Erases(d, p)',
                    candidate'[p].first < arrived'[r][d], Cardinality(Posts) <= KnownLimit
             PROVE  candidate'[p].deleted
    BY DEF TimelyDeletionsApplied
<1>1. d \in Events /\ p \in Posts /\ NeverCut(r)
    BY RelayNotCutBefore DEF Events, NostrAssumption
<1>2. candidate[p].deleted => candidate'[p].deleted
    BY <1>1 DEF NostrGrows
<1>3. /\ clock \in Nat /\ candidate[p].first \in Nat
      /\ arrived[r][d] \in Nat /\ arrived[r][d] <= clock
    BY <1>1 DEF NostrTypes, NostrTypeOK, NostrTimes
\* The post was stored before: one stored now is not older than the deletion.
<1>4. /\ candidate[p].first > 0 /\ candidate'[p].first = candidate[p].first
      /\ Erases(d, p)
    <2>1. candidate'[p].first > 0 /\ author[p] = author[d] /\ at[d] >= at[p]
        BY DEF Erases
    <2>2. arrived'[r][d] \in {arrived[r][d], clock}
        BY <1>1 DEF NostrGrows
    <2>3. candidate[p].first = 0 => candidate'[p].first \in {0, clock}
        BY <1>1 DEF NostrGrows
    <2>4. candidate[p].first # 0
        BY <1>3, <2>1, <2>2, <2>3
    <2>5. candidate'[p].first = candidate[p].first
        BY <1>1, <1>3, <2>4 DEF NostrGrows
    <2> QED
        BY <1>3, <2>1, <2>4, <2>5 DEF Erases
<1>5. CASE checkpoint'[r] = checkpoint[r] /\ origin'[r] = origin[r]
    <2>1. Overtaken(r, d) /\ arrived'[r][d] = arrived[r][d]
        BY <1>1, <1>5, PassedBefore
    <2> QED
        BY <1>1, <1>2, <1>4, <2>1 DEF TimelyDeletionsApplied
<1>6. ASSUME NEW w \in NostrWorkers, NostrFinalize(w)
      PROVE  candidate'[p].deleted
    <2>1. CASE r # work[w].relay
        BY <1>5, <1>6, <2>1, FinalizeFacts DEF NostrTypes, NostrTypeOK
    <2>2. arrived' = arrived
        BY <1>6, FinalizeFacts
    <2>3. CASE r = work[w].relay /\ Overtaken(r, d)
        BY <1>1, <1>2, <1>4, <2>2, <2>3 DEF TimelyDeletionsApplied
    <2>4. CASE r = work[w].relay /\ InSlice(work[w], d)
        <3>1. /\ HoldsSlice(work[w]) /\ work[w].until \in Nat
              /\ candidate' = Stored(work[w].posts, work[w].deletions)
              /\ work[w].posts \in SUBSET Posts /\ work[w].deletions \in Writes
            BY <1>6, FinalizeFacts
        <3>2. arrived[r][d] < work[w].until
            BY <2>4 DEF InSlice
        <3>3. candidate[p].first < work[w].until
            BY <1>3, <1>4, <2>2, <3>1, <3>2
        <3>4. candidate[p].deleted \/ \E x \in work[w].deletions : x[1] = d /\ p \in x[2]
            BY <1>1, <1>4, <2>4, <3>1, <3>3 DEF HoldsSlice
        <3>5. ASSUME NEW x \in work[w].deletions, x[1] = d, p \in x[2]
              PROVE  candidate'[p].deleted
            <4>1. Erases(x[1], p)
                BY <1>4, <3>5
            <4>2. \A y \in work[w].deletions :
                      p \in y[2] /\ Erases(y[1], p) =>
                          Stored(work[w].posts, work[w].deletions)[p].deleted
                BY <1>1, <3>1, StoredFacts
            <4> QED
                BY <3>1, <3>5, <4>1, <4>2
        <3> QED
            BY <1>2, <3>4, <3>5
    <2> QED
        BY <1>1, <1>6, <2>1, <2>3, <2>4, PassedOrInSlice
<1> QED
    BY <1>5, <1>6 DEF NostrNext, NostrClaim, HandBack, NostrBegin, NostrDefer, NostrCollect,
       NostrHeartbeat, NostrCrash, Arrive, NostrTick, nostrRows

LEMMA NostrNextInv ==
    ASSUME NostrAssumption, NostrIInv, [NostrNext]_nostrVars PROVE NostrIInv'
<1>1. CASE NostrNext
    <2>1. NostrGrows
        BY <1>1, NostrGrowsNext DEF NostrIInv
    <2> QED
        BY <1>1, <2>1, NostrTypesNext, NostrTimesNext, SlicesNext, TimelyPostsNext,
           TimelyDeletionsNext DEF NostrIInv
<1>2. CASE UNCHANGED nostrVars
    <2> USE <1>2 DEF nostrVars
    <2>1. NostrTypes' /\ NostrTimes'
        BY DEF NostrIInv, NostrTypes, NostrTypeOK, NostrTimes
    <2>2. SlicesAreRead'
        BY DEF NostrIInv, SlicesAreRead, KnowsStored, HoldsSlice, InSlice, NeverCut
    <2>3. TimelyPostsStored' /\ TimelyDeletionsApplied'
        BY DEF NostrIInv, TimelyPostsStored, TimelyDeletionsApplied, Overtaken, NeverCut, Erases
    <2> QED
        BY <2>1, <2>2, <2>3 DEF NostrIInv
<1> QED
    BY <1>1, <1>2

LEMMA NostrAlways == NostrSpec => []NostrIInv
BY NostrAssumption, NostrInitInv, NostrNextInv, PTL DEF NostrSpec

(* Once the checkpoint of a relay has passed a post that reached it in     *)
(* time, the post is stored, and once it has passed a deletion, what the   *)
(* deletion names and was stored is deleted: begin_nostr_relay_job's       *)
(* overlapping slices and the fence of finalize_nostr_relay_job lose       *)
(* nothing, however often attempts fail or are taken over.                 *)
THEOREM CheckpointLosesNothing == NostrSpec => []NostrInv
<1>1. NostrIInv => NostrInv
    BY DEF NostrIInv, NostrTypes, NostrInv
<1> QED
    BY <1>1, NostrAlways, PTL

(* What a deletion has erased no replay and no other relay brings back.    *)
THEOREM DeletionsAreFinal == NostrSpec => DeletedStays
<1>1. ASSUME NostrIInv, [NostrNext]_nostrVars
      PROVE  [\A p \in Posts : candidate[p].deleted => candidate'[p].deleted]_nostrVars
    BY <1>1, NostrGrowsNext DEF NostrIInv, NostrGrows
<1> QED
    BY <1>1, NostrAlways, PTL DEF NostrSpec, DeletedStays
-------------------------------------------------------------------------------
(* Bluesky.  The lease holder's slice starts at the cursor, or, without    *)
(* one, behind everything that was ever stored; what it collected are the  *)
(* frames of its window, one for each post.                                *)

SliceRecord ==
    {NoSlice, [stage |-> "leased"]} \cup Begun \cup Collected
        \cup [stage : {"too_old"}, start : Nat]

BlueskyTypes == BlueskyTypeOK /\ slice \in [BlueskyWorkers -> SliceRecord]

BlueskyMarks ==
    /\ reached <= Len(stream_log) /\ cursor \in {0, reached}
    /\ gaps \subseteq 1..reached
    /\ \A e \in events : e[1] <= reached
    /\ \A u \in Uris : post[u].seq <= reached

CollectedWindow(c) ==
    /\ c.end <= Len(stream_log) /\ c.start <= c.end
    /\ c.start > 0 => c.joined = c.start
    /\ c.end = 0 => c.puts = {} /\ c.deletes = {}
    /\ c.seen = 0 => c.end = c.start
    /\ c.end > c.start => c.joined < c.end
    /\ c.puts = ItemsOf(c.joined, c.end, "put")
    /\ c.deletes = ItemsOf(c.joined, c.end, "delete")
    /\ \A i, j \in c.puts \cup c.deletes : i[2] = j[2] => i = j
    /\ Cardinality(c.puts) <= MaxItems /\ Cardinality(c.deletes) <= MaxItems
    /\ Cardinality(c.puts) + Cardinality(c.deletes) <= c.seen

StartsAtCursor(w) ==
    LET c == slice[w]
    IN  /\ c.start = cursor
        /\ c.stage # "too_old" /\ c.start = 0 => reached <= c.joined

SlicesFit ==
    \A w \in BlueskyWorkers :
        /\ slice[w].stage = "begun" => slice[w].joined <= Len(stream_log)
        /\ slice[w].stage = "collected" => CollectedWindow(slice[w])
        /\ slice[w].stage = "too_old" => slice[w].start < floor
        /\ holder = w /\ slice[w].stage \in {"begun", "collected", "too_old"}
              => StartsAtCursor(w)

\* What the stored frames of a post amount to, without the choice of the last.
PutsOf(u) ==
    {i \in 1..reached : i \notin gaps /\ Is(i, {"put"}) /\ stream_log[i].uri = u}
ChangesOf(u) ==
    {i \in 1..reached : /\ i \notin gaps /\ Relevant(i) /\ stream_log[i].uri = u
                        /\ \E j \in PutsOf(u) : i >= j}
PostsAreLatest ==
    \A u \in Uris :
        IF PutsOf(u) = {} THEN post[u] = NoPost
        ELSE \E last \in ChangesOf(u) :
                /\ \A j \in ChangesOf(u) : j <= last
                /\ post[u] = [seq |-> last, live |-> Is(last, {"put"})]

BlueskyIInv ==
    /\ BlueskyTypes /\ BlueskyMarks /\ SlicesFit /\ NothingSkipped /\ PostsAreLatest

(* The frames of the stream never change, so what was read of them stays.  *)
StreamGrows ==
    /\ Len(stream_log) <= Len(stream_log') /\ floor <= floor'
    /\ \A i \in 1..Len(stream_log) : stream_log'[i] = stream_log[i]

LEMMA StreamGrowsNext == ASSUME BlueskyTypes, BlueskyNext PROVE StreamGrows
<1>1. stream_log \in Seq(Frames) /\ floor \in Nat
    BY DEF BlueskyTypes, BlueskyTypeOK
<1>2. ASSUME NEW f \in Frames, Append_(f) PROVE StreamGrows
    BY <1>1, <1>2 DEF Append_, StreamGrows
<1>3. CASE Forget
    BY <1>1, <1>3 DEF Forget, StreamGrows
<1>4. CASE UNCHANGED upstream
    BY <1>1, <1>4 DEF upstream, StreamGrows
<1> QED
    BY <1>2, <1>3, <1>4 DEF BlueskyNext, BlueskyClaim, BlueskyBegin, BlueskyCollect,
       BlueskyTooOld, BlueskyFinalize, BlueskyRecover, BlueskyGiveUp, GrowStale

LEMMA FramesStay ==
    ASSUME BlueskyTypes, StreamGrows, NEW from \in Nat, NEW to \in Nat,
           to <= Len(stream_log), NEW op
    PROVE  ItemsOf(from, to, op)' = ItemsOf(from, to, op)
<1>1. ASSUME NEW i \in from + 1..to
      PROVE  stream_log'[i] = stream_log[i] /\ Is(i, {op})' = Is(i, {op})
    BY <1>1 DEF StreamGrows, Is, BlueskyTypes, BlueskyTypeOK
<1>2. Sequences(from, to, op)' = Sequences(from, to, op)
    BY <1>1 DEF Sequences
<1>3. \A i \in Sequences(from, to, op) : stream_log'[i] = stream_log[i]
    BY <1>1 DEF Sequences
<1> QED
    BY <1>2, <1>3 DEF ItemsOf

LEMMA ItemsAre ==
    ASSUME NEW from, NEW to, NEW op
    PROVE  \A x : x \in ItemsOf(from, to, op) <=>
               /\ x = <<x[1], stream_log[x[1]].uri>>
               /\ x[1] \in from + 1..to /\ Is(x[1], {op})
BY DEF ItemsOf, Sequences

\* The frames that changed a post are as many as the items made of them.
LEMMA ItemsAreFew ==
    ASSUME NEW from \in Nat, NEW to \in Nat, NEW op
    PROVE  /\ IsFiniteSet(Sequences(from, to, op))
           /\ IsFiniteSet(ItemsOf(from, to, op))
           /\ Cardinality(ItemsOf(from, to, op)) \in Nat
           /\ Cardinality(Sequences(from, to, op)) \in Nat
           /\ Cardinality(ItemsOf(from, to, op)) <= Cardinality(Sequences(from, to, op))
<1> DEFINE S == Sequences(from, to, op)
           f == [i \in S |-> <<i, stream_log[i].uri>>]
<1>1. IsFiniteSet(S)
    <2>1. IsFiniteSet(from + 1..to)
        BY FS_Interval
    <2>2. S \in SUBSET (from + 1..to)
        BY DEF Sequences
    <2> QED
        BY <2>1, <2>2, FS_Subset
<1>2. f \in Surjection(S, ItemsOf(from, to, op))
    BY DEF Surjection, ItemsOf
<1>3. /\ IsFiniteSet(ItemsOf(from, to, op))
      /\ Cardinality(ItemsOf(from, to, op)) <= Cardinality(S)
    BY <1>1, <1>2, FS_Surjection
<1> QED
    BY <1>1, <1>3, FS_CardinalityType

LEMMA BlueskyInitInv == ASSUME BlueskyAssumption PROVE BlueskyInit => BlueskyIInv
<1> SUFFICES ASSUME BlueskyInit PROVE BlueskyIInv
    OBVIOUS
<1> USE DEF BlueskyInit
<1>1. stream_log \in Seq(Frames) /\ Len(stream_log) = 0
    OBVIOUS
<1>2. BlueskyTypes
    <2>1. slice \in [BlueskyWorkers -> SliceRecord] /\ \A w \in BlueskyWorkers : slice[w] = NoSlice
        BY DEF SliceRecord
    <2>2. post \in [Uris -> [seq : Nat, live : BOOLEAN]]
        BY DEF NoPost
    <2>3. floor \in 0..Len(stream_log) /\ cursor \in Nat /\ reached \in Nat
        BY <1>1
    <2>4. /\ events \subseteq Nat \X {"put", "delete"} \X Uris /\ gaps \subseteq Nat
          /\ {holder, owner} \subseteq BlueskyWorkers \cup {Nobody} /\ stale \in BOOLEAN
        OBVIOUS
    <2> HIDE DEF BlueskyInit
    <2> QED
        BY <1>1, <2>1, <2>2, <2>3, <2>4 DEF BlueskyTypes, BlueskyTypeOK
<1>3. BlueskyMarks
    BY <1>1 DEF BlueskyMarks, NoPost
<1>4. SlicesFit
    BY DEF SlicesFit, NoSlice
<1>5. NothingSkipped /\ PostsAreLatest
    BY DEF NothingSkipped, PostsAreLatest, PutsOf
<1> QED
    BY <1>2, <1>3, <1>4, <1>5 DEF BlueskyIInv

LEMMA SliceStages ==
    ASSUME BlueskyTypes, NEW w \in BlueskyWorkers
    PROVE  /\ slice[w].stage = "begun" => slice[w] \in Begun
           /\ slice[w].stage = "collected" => slice[w] \in Collected
           /\ slice[w].stage = "too_old" => slice[w] \in [stage : {"too_old"}, start : Nat]
BY DEF BlueskyTypes, SliceRecord, Begun, Collected, NoSlice

(* The prefix a collect keeps is one a completion can hold.                *)
LEMMA PrefixHolds ==
    ASSUME BlueskyAssumption, NEW from \in Nat, NEW received \in Nat, from <= received
    PROVE  PrefixEnd(from, received) \in from..received /\ Holds(from, PrefixEnd(from, received))
<1> DEFINE fits == {n \in from..received : Holds(from, n)}
<1>1. Holds(from, from)
    <2>1. \A op : Sequences(from, from, op) = {}
        BY DEF Sequences
    <2> QED
        BY <2>1, FS_EmptySet DEF Holds, BlueskyAssumption
<1>2. fits \in SUBSET Nat /\ fits # {} /\ \A n \in fits : n <= received
    BY <1>1
<1>3. PICK n \in fits : \A m \in fits : m <= n
    BY <1>2, GreatestExists
<1>4. n < received => ~Holds(from, n + 1)
    BY <1>2, <1>3
<1>5. \E k \in from..received : Holds(from, k) /\ (k < received => ~Holds(from, k + 1))
    BY <1>3, <1>4
<1> QED
    BY <1>5 DEF PrefixEnd

LEMMA LastCommit ==
    ASSUME NEW start \in Nat, NEW from \in Nat, NEW to \in Nat, start = from \/ start = 0
    PROVE  LET end == EndCursor(start, from, to)
           IN  /\ end \in Nat /\ start <= end
               /\ end = start \/ (from < end /\ end <= to)
               /\ \A i \in from + 1..to : ~Is(i, {"ignored"}) => i <= end /\ from < end
               /\ from = to => end = start
<1> DEFINE commits == {i \in from + 1..to : ~Is(i, {"ignored"})}
<1>1. CASE commits = {}
    BY <1>1 DEF EndCursor
<1>2. CASE commits # {}
    <2>1. commits \in SUBSET Nat /\ \A i \in commits : i <= to /\ from < i
        OBVIOUS
    <2>2. \E i \in commits : \A j \in commits : j <= i
        BY <1>2, <2>1, GreatestExists
    <2>3. EndCursor(start, from, to) = CHOOSE i \in commits : \A j \in commits : j <= i
        BY <1>2 DEF EndCursor
    <2>4. /\ EndCursor(start, from, to) \in commits
          /\ \A j \in commits : j <= EndCursor(start, from, to)
        BY <2>2, <2>3
    <2> QED
        BY <2>1, <2>4
<1> QED
    BY <1>1, <1>2

LEMMA ItemsOfPrefix ==
    ASSUME BlueskyTypes, NEW start \in Nat, NEW from \in Nat, NEW to \in Nat,
           start = from \/ start = 0, NEW op \in {"put", "delete"}
    PROVE  ItemsOf(from, to, op) = ItemsOf(from, EndCursor(start, from, to), op)
<1> DEFINE end == EndCursor(start, from, to)
<1>1. /\ end \in Nat /\ start <= end /\ (end = start \/ (from < end /\ end <= to))
      /\ \A i \in from + 1..to : ~Is(i, {"ignored"}) => i <= end /\ from < end
    BY LastCommit
<1> HIDE DEF end
<1>2. ASSUME NEW i \in Nat, Is(i, {op}) PROVE ~Is(i, {"ignored"})
    BY <1>2 DEF Is
<1>3. Sequences(from, to, op) = Sequences(from, end, op)
    <2>1. ASSUME NEW i \in Sequences(from, to, op) PROVE i \in Sequences(from, end, op)
        BY <1>1, <1>2, <2>1 DEF Sequences
    <2>2. ASSUME NEW i \in Sequences(from, end, op) PROVE i \in Sequences(from, to, op)
        BY <1>1, <2>2 DEF Sequences
    <2> QED
        BY <2>1, <2>2
<1> QED
    BY <1>3 DEF ItemsOf, end

LEMMA ItemsWithinFrames ==
    ASSUME BlueskyTypes, NEW from \in Nat, NEW to \in Nat, from <= to
    PROVE  Cardinality(ItemsOf(from, to, "put")) + Cardinality(ItemsOf(from, to, "delete"))
               <= to - from
<1> DEFINE P == Sequences(from, to, "put")
           D == Sequences(from, to, "delete")
<1>1. IsFiniteSet(P) /\ IsFiniteSet(D) /\ Cardinality(P) \in Nat /\ Cardinality(D) \in Nat
    BY ItemsAreFew
<1>2. P \cap D = {}
    BY DEF Sequences, Is
<1>3. Cardinality(P \cup D) = Cardinality(P) + Cardinality(D)
    BY <1>1, <1>2, FS_Union, FS_EmptySet
<1>4. P \cup D \in SUBSET (from + 1..to)
    BY DEF Sequences
<1>5. Cardinality(P \cup D) <= to - from
    <2>1. IsFiniteSet(from + 1..to) /\ Cardinality(from + 1..to) = to - from
        <3>1. from + 1 \in Int /\ to \in Int
            OBVIOUS
        <3>2. /\ IsFiniteSet(from + 1..to)
              /\ Cardinality(from + 1..to) =
                     IF from + 1 > to THEN 0 ELSE to - (from + 1) + 1
            BY <3>1, FS_Interval, Zenon
        <3> QED
            BY <3>2
    <2> QED
        BY <1>4, <2>1, FS_Subset
<1>6. /\ Cardinality(ItemsOf(from, to, "put")) <= Cardinality(P)
      /\ Cardinality(ItemsOf(from, to, "put")) \in Nat
      /\ Cardinality(ItemsOf(from, to, "delete")) <= Cardinality(D)
      /\ Cardinality(ItemsOf(from, to, "delete")) \in Nat
    BY ItemsAreFew
<1> QED
    BY <1>1, <1>3, <1>5, <1>6

\* One item for each post, over both lists.
LEMMA OneItemPerPost ==
    ASSUME BlueskyTypes, NEW from \in Nat, NEW to \in Nat, Holds(from, to)
    PROVE  \A x, y \in ItemsOf(from, to, "put") \cup ItemsOf(from, to, "delete") :
               x[2] = y[2] => x = y
BY DEF Holds, ItemsOf

LEMMA ItemsWithinCaps ==
    ASSUME BlueskyAssumption, NEW from \in Nat, NEW to \in Nat, Holds(from, to)
    PROVE  /\ Cardinality(ItemsOf(from, to, "put")) <= MaxItems
           /\ Cardinality(ItemsOf(from, to, "delete")) <= MaxItems
<1>1. /\ Cardinality(Sequences(from, to, "put")) <= MaxItems
      /\ Cardinality(Sequences(from, to, "delete")) <= MaxItems
    BY DEF Holds
<1> QED
    BY <1>1, ItemsAreFew DEF BlueskyAssumption

(* A slice that was collected is its window.                               *)
LEMMA CollectFits ==
    ASSUME BlueskyAssumption, BlueskyTypes, SlicesFit, NEW w \in BlueskyWorkers,
           BlueskyCollect(w)
    PROVE  /\ slice'[w].stage = "collected" /\ slice'[w] \in Collected
           /\ CollectedWindow(slice[w])'
           /\ slice'[w].start = slice[w].start
           /\ slice[w].start = 0 => slice[w].joined <= slice'[w].joined
<1> DEFINE b == slice[w]
<1>1. /\ b \in Begun /\ b.start \in Nat /\ b.joined \in Nat
      /\ stream_log \in Seq(Frames) /\ slice \in [BlueskyWorkers -> SliceRecord]
      /\ stream_log' = stream_log
    BY SliceStages DEF BlueskyCollect, BlueskyTypes, BlueskyTypeOK, Begun, upstream
<1>2. PICK received \in Received(b) :
          slice' = [slice EXCEPT ![w] =
              [stage |-> "collected", start |-> b.start, joined |-> received[1],
               end |-> EndCursor(b.start, received[1], PrefixEnd(received[1], received[2])),
               seen |-> PrefixEnd(received[1], received[2]) - received[1],
               puts |-> ItemsOf(received[1], PrefixEnd(received[1], received[2]), "put"),
               deletes |-> ItemsOf(received[1], PrefixEnd(received[1], received[2]), "delete")]]
    BY DEF BlueskyCollect
<1> DEFINE from == received[1]
<1>3. /\ from \in Nat /\ received[2] \in Nat /\ from <= received[2]
      /\ received[2] <= Len(stream_log)
      /\ IF b.start > 0 THEN from = b.start ELSE from >= b.joined
    BY <1>1 DEF Received
<1> HIDE DEF from
<1>4. PICK to \in Nat : /\ to = PrefixEnd(from, received[2]) /\ from <= to
                        /\ to <= Len(stream_log) /\ Holds(from, to)
    <2>1. /\ PrefixEnd(from, received[2]) \in from..received[2]
          /\ Holds(from, PrefixEnd(from, received[2]))
        BY <1>3, PrefixHolds
    <2>2. Len(stream_log) \in Nat
        BY <1>1
    <2> QED
        BY <1>3, <2>1, <2>2
<1>5. PICK end \in Nat :
          /\ end = EndCursor(b.start, from, to)
          /\ b.start <= end /\ (end = b.start \/ (from < end /\ end <= to))
          /\ from = to => end = b.start
    <2>1. b.start = from \/ b.start = 0
        BY <1>1, <1>3
    <2>2. /\ EndCursor(b.start, from, to) \in Nat /\ b.start <= EndCursor(b.start, from, to)
          /\ \/ EndCursor(b.start, from, to) = b.start
             \/ from < EndCursor(b.start, from, to) /\ EndCursor(b.start, from, to) <= to
          /\ from = to => EndCursor(b.start, from, to) = b.start
        BY <1>1, <1>3, <1>4, <2>1, LastCommit
    <2> QED
        BY <2>2
<1>6. /\ ItemsOf(from, to, "put") = ItemsOf(from, end, "put")
      /\ ItemsOf(from, to, "delete") = ItemsOf(from, end, "delete")
    <2>1. b.start = from \/ b.start = 0
        BY <1>1, <1>3
    <2> QED
        BY <1>1, <1>3, <1>4, <1>5, <2>1, ItemsOfPrefix
<1>7. slice'[w] = [stage |-> "collected", start |-> b.start, joined |-> from, end |-> end,
                   seen |-> to - from, puts |-> ItemsOf(from, end, "put"),
                   deletes |-> ItemsOf(from, end, "delete")]
    BY <1>1, <1>2, <1>4, <1>5, <1>6 DEF from
<1>8. /\ ItemsOf(from, end, "put") \in Items
      /\ ItemsOf(from, end, "delete") \in Items
    <2>1. ASSUME NEW i \in from + 1..end PROVE i \in Nat /\ stream_log[i].uri \in Uris
        <3>1. i \in 1..Len(stream_log)
            BY <1>1, <1>3, <1>4, <1>5, <2>1
        <3>2. stream_log[i] \in FrameType
            BY <1>1, <3>1 DEF BlueskyAssumption
        <3> QED
            BY <3>1, <3>2 DEF FrameType
    <2> QED
        BY <2>1 DEF ItemsOf, Sequences, Items
<1>9. slice'[w] \in Collected
    BY <1>1, <1>3, <1>4, <1>5, <1>7, <1>8 DEF Collected
<1>10. /\ end = 0 => ItemsOf(from, end, "put") = {} /\ ItemsOf(from, end, "delete") = {}
       /\ to - from = 0 => end = b.start
       /\ end > b.start => from < end
       /\ end <= Len(stream_log)
    <2>1. end = 0 => Sequences(from, end, "put") = {} /\ Sequences(from, end, "delete") = {}
        BY <1>3 DEF Sequences
    <2>2. end <= Len(stream_log)
        BY <1>1, <1>3, <1>4, <1>5
    <2> QED
        BY <1>1, <1>3, <1>4, <1>5, <2>1, <2>2 DEF ItemsOf
<1>11. /\ Cardinality(ItemsOf(from, end, "put")) <= MaxItems
       /\ Cardinality(ItemsOf(from, end, "delete")) <= MaxItems
       /\ Cardinality(ItemsOf(from, end, "put")) + Cardinality(ItemsOf(from, end, "delete"))
              <= to - from
       /\ \A i, j \in ItemsOf(from, end, "put") \cup ItemsOf(from, end, "delete") :
              i[2] = j[2] => i = j
    BY <1>3, <1>4, <1>6, ItemsWithinCaps, ItemsWithinFrames, OneItemPerPost
<1>12. /\ ItemsOf(from, end, "put")' = ItemsOf(from, end, "put")
       /\ ItemsOf(from, end, "delete")' = ItemsOf(from, end, "delete")
    BY <1>1 DEF ItemsOf, Sequences, Is
<1> QED
    <2>1. /\ slice'[w].stage = "collected" /\ slice'[w].start = b.start
          /\ slice'[w].joined = from /\ slice'[w].end = end /\ slice'[w].seen = to - from
          /\ slice'[w].puts = ItemsOf(from, end, "put")
          /\ slice'[w].deletes = ItemsOf(from, end, "delete")
        BY <1>7
    <2>2. CollectedWindow(slice[w])'
        BY <1>1, <1>3, <1>5, <1>10, <1>11, <1>12, <2>1 DEF CollectedWindow
    <2>3. b.start = 0 => b.joined <= from
        BY <1>1, <1>3
    <2> QED
        BY <1>9, <2>1, <2>2, <2>3

LEMMA CollectedIs ==
    ASSUME NEW c \in Collected
    PROVE  /\ c.start \in Nat /\ c.joined \in Nat /\ c.end \in Nat /\ c.seen \in Nat
           /\ c.puts \in Items /\ c.deletes \in Items
BY DEF Collected

(* The lease holder's slice joins behind everything that was stored.       *)
LEMMA HolderJoinsBehind ==
    ASSUME BlueskyTypes, BlueskyMarks, SlicesFit, NEW w \in BlueskyWorkers, holder = w,
           slice[w].stage = "collected"
    PROVE  LET c == slice[w]
           IN  /\ c \in Collected /\ CollectedWindow(c)
               /\ c.start = cursor
               /\ c.start > 0 => c.joined = reached
               /\ reached <= c.joined
               /\ c.end > c.start => c.joined < c.end /\ c.end <= Len(stream_log)
               /\ c.end = c.start => c.puts = {} /\ c.deletes = {}
<1> DEFINE c == slice[w]
<1>1. c \in Collected /\ CollectedWindow(c) /\ StartsAtCursor(w)
    BY SliceStages DEF SlicesFit
<1>2. c.start \in Nat /\ c.joined \in Nat /\ c.end \in Nat
    BY <1>1, CollectedIs
<1>3. /\ c.start = cursor /\ (c.start = 0 => reached <= c.joined)
      /\ cursor \in {0, reached} /\ reached \in Nat
    BY <1>1 DEF StartsAtCursor, BlueskyMarks, BlueskyTypes, BlueskyTypeOK
<1>4. /\ c.end <= Len(stream_log) /\ c.start <= c.end
      /\ c.start > 0 => c.joined = c.start
      /\ c.end > c.start => c.joined < c.end
      /\ c.puts = ItemsOf(c.joined, c.end, "put")
      /\ c.deletes = ItemsOf(c.joined, c.end, "delete")
    BY <1>1 DEF CollectedWindow
<1>5. c.end = c.start => c.puts = {} /\ c.deletes = {}
    <2>1. ASSUME c.end = c.start PROVE \A i : i \notin c.joined + 1..c.end
        BY <1>2, <1>4, <2>1
    <2> QED
        BY <1>4, <2>1 DEF ItemsOf, Sequences
<1> QED
    BY <1>1, <1>2, <1>3, <1>4, <1>5

LEMMA FinalizeStands ==
    ASSUME BlueskyTypes, BlueskyMarks, SlicesFit, NEW w \in BlueskyWorkers,
           BlueskyFinalize(w), slice[w].end = slice[w].start
    PROVE  UNCHANGED <<stream_log, cursor, events, post, reached, gaps>>
<1> DEFINE c == slice[w]
<1>1. /\ c \in Collected /\ c.start = cursor /\ c.puts = {} /\ c.deletes = {}
      /\ c.end = cursor
    BY HolderJoinsBehind DEF BlueskyFinalize, FencedSlice
<1>2. cursor \in {0, reached} /\ reached \in Nat /\ cursor \in Nat
    BY DEF BlueskyMarks, BlueskyTypes, BlueskyTypeOK
<1>3. post' = post
    <2>1. post' = [u \in Uris |-> Applied({}, {}, u)]
        BY <1>1 DEF BlueskyFinalize
    <2> QED
        BY <2>1 DEF Applied, BlueskyTypes, BlueskyTypeOK
<1>4. PassedOver(c) = {} /\ gaps' = gaps \cup PassedOver(c)
    BY <1>1, <1>2 DEF PassedOver, BlueskyFinalize
<1>5. events' = events /\ cursor' = c.end /\ stream_log' = stream_log
      /\ reached' = IF c.end > 0 THEN c.end ELSE reached
    BY <1>1 DEF BlueskyFinalize, upstream
<1> QED
    BY <1>1, <1>2, <1>3, <1>4, <1>5

LEMMA FinalizeMoves ==
    ASSUME BlueskyTypes, BlueskyMarks, SlicesFit, NEW w \in BlueskyWorkers,
           BlueskyFinalize(w), slice[w].end # slice[w].start
    PROVE  \E j \in Nat, end \in Nat :
              /\ reached <= j /\ j < end /\ end <= Len(stream_log)
              /\ cursor' = end /\ reached' = end /\ gaps' = gaps \cup (reached + 1..j)
              /\ slice[w].puts = ItemsOf(j, end, "put")
              /\ slice[w].deletes = ItemsOf(j, end, "delete")
<1> DEFINE c == slice[w]
<1>1. /\ c \in Collected /\ CollectedWindow(c) /\ c.start = cursor
      /\ (c.start > 0 => c.joined = reached) /\ reached <= c.joined
      /\ (c.end > c.start => c.joined < c.end /\ c.end <= Len(stream_log))
    BY HolderJoinsBehind DEF BlueskyFinalize, FencedSlice
<1>2. c.start \in Nat /\ c.joined \in Nat /\ c.end \in Nat /\ reached \in Nat
    BY <1>1, CollectedIs DEF BlueskyTypes, BlueskyTypeOK
<1>3. c.end > c.start
    BY <1>1, <1>2 DEF CollectedWindow
<1>4. gaps' = gaps \cup (reached + 1..c.joined)
    <2>1. gaps' = gaps \cup PassedOver(c)
        BY DEF BlueskyFinalize
    <2>2. CASE c.start = 0
        BY <1>2, <1>3, <2>1, <2>2 DEF PassedOver
    <2>3. CASE c.start > 0
        <3>1. reached + 1..c.joined = {}
            BY <1>1, <1>2, <2>3
        <3> QED
            BY <2>1, <2>3, <3>1 DEF PassedOver
    <2> QED
        BY <1>2, <2>2, <2>3
<1>5. cursor' = c.end /\ reached' = c.end
    BY <1>2, <1>3 DEF BlueskyFinalize
<1> QED
    BY <1>1, <1>2, <1>3, <1>4, <1>5 DEF CollectedWindow

LEMMA NothingSkippedNext ==
    ASSUME BlueskyTypes, BlueskyMarks, SlicesFit, NothingSkipped, BlueskyNext, StreamGrows
    PROVE  NothingSkipped'
<1>1. /\ reached \in Nat /\ reached <= Len(stream_log)
    BY DEF BlueskyTypes, BlueskyTypeOK, BlueskyMarks
<1>2. CASE UNCHANGED <<reached, gaps, events>>
    <2>1. ASSUME NEW i \in 1..reached
          PROVE  stream_log'[i] = stream_log[i]
        BY <1>1, <2>1 DEF StreamGrows, BlueskyTypes, BlueskyTypeOK
    <2> QED
        BY <1>2, <2>1 DEF NothingSkipped, Relevant, Is
<1>3. ASSUME NEW w \in BlueskyWorkers, BlueskyFinalize(w) PROVE NothingSkipped'
    <2>1. CASE slice[w].end = slice[w].start
        BY <1>2, <1>3, <2>1, FinalizeStands
    <2>2. CASE slice[w].end # slice[w].start
        <3>1. PICK j \in Nat, end \in Nat :
                  /\ reached <= j /\ j < end /\ end <= Len(stream_log)
                  /\ reached' = end /\ gaps' = gaps \cup (reached + 1..j)
                  /\ slice[w].puts = ItemsOf(j, end, "put")
                  /\ slice[w].deletes = ItemsOf(j, end, "delete")
            BY <1>3, <2>2, FinalizeMoves
        <3>2. /\ events' = events \cup {<<x[1], "put", x[2]>> : x \in slice[w].puts}
                                  \cup {<<x[1], "delete", x[2]>> : x \in slice[w].deletes}
              /\ stream_log' = stream_log
            BY <1>3 DEF BlueskyFinalize, upstream
        <3>3. ASSUME NEW i \in 1..end, Relevant(i)
              PROVE  i \in gaps' \/ <<i, Disposition(stream_log[i]), stream_log[i].uri>> \in events'
            <4>1. CASE i <= reached
                BY <1>1, <3>1, <3>2, <3>3, <4>1 DEF NothingSkipped
            <4>2. CASE reached < i /\ i <= j
                BY <1>1, <3>1, <4>2
            <4>3. CASE j < i
                <5>1. \E op \in {"put", "delete"} : Disposition(stream_log[i]) = op
                    BY <3>3 DEF Relevant, Is
                <5>2. PICK op \in {"put", "delete"} : Disposition(stream_log[i]) = op
                    BY <5>1
                <5>3. <<i, stream_log[i].uri>> \in ItemsOf(j, end, op)
                    BY <3>1, <4>3, <5>2 DEF ItemsOf, Sequences, Is
                <5>4. <<i, op, stream_log[i].uri>> \in events'
                    BY <3>1, <3>2, <5>3
                <5> QED
                    BY <5>2, <5>4
            <4> QED
                BY <1>1, <3>1, <4>1, <4>2, <4>3
        <3> QED
            BY <3>1, <3>2, <3>3 DEF NothingSkipped, Relevant, Is
    <2> QED
        BY <2>1, <2>2
<1> QED
    BY <1>2, <1>3 DEF BlueskyNext, BlueskyClaim, BlueskyBegin, BlueskyCollect, BlueskyTooOld,
       BlueskyRecover, BlueskyGiveUp, Append_, Forget, GrowStale, blueskyRows

(* A post's stored frames after a slice that moved the cursor to end: those *)
(* of before, and the one of the window if there is one.                   *)
LEMMA WindowOf ==
    ASSUME BlueskyTypes, BlueskyMarks, NEW j \in Nat, NEW end \in Nat, NEW u \in Uris,
           reached <= j, j < end, end <= Len(stream_log), stream_log' = stream_log,
           reached' = end, gaps' = gaps \cup (reached + 1..j)
    PROVE  /\ \A i : i \in PutsOf(u)' <=>
                  \/ i \in PutsOf(u)
                  \/ i \in j + 1..end /\ <<i, u>> \in ItemsOf(j, end, "put")
           /\ \A i : i \in ChangesOf(u)' <=>
                  \/ i \in ChangesOf(u)
                  \/ /\ i \in j + 1..end /\ \E k \in PutsOf(u)' : i >= k
                     /\ <<i, u>> \in ItemsOf(j, end, "put") \cup ItemsOf(j, end, "delete")
<1>1. reached \in Nat /\ gaps \subseteq 1..reached
    BY DEF BlueskyTypes, BlueskyTypeOK, BlueskyMarks
<1>2. ASSUME NEW i \in 1..end
      PROVE  i \notin gaps' <=> (i <= reached /\ i \notin gaps) \/ i \in j + 1..end
    BY <1>1, <1>2
<1>3. \A i \in j + 1..end :
          /\ <<i, u>> \in ItemsOf(j, end, "put") <=> Is(i, {"put"}) /\ stream_log[i].uri = u
          /\ <<i, u>> \in ItemsOf(j, end, "delete") <=>
                 Is(i, {"delete"}) /\ stream_log[i].uri = u
    BY DEF ItemsOf, Sequences
<1>4. \A i : Is(i, {"put"})' = Is(i, {"put"}) /\ Relevant(i)' = Relevant(i)
    BY DEF Is, Relevant
<1>5. \A i : Relevant(i) <=> Is(i, {"put"}) \/ Is(i, {"delete"})
    BY DEF Is, Relevant
<1>6. PutsOf(u)' = {i \in 1..end : i \notin gaps' /\ Is(i, {"put"}) /\ stream_log[i].uri = u}
    BY <1>4 DEF PutsOf
<1>7. \A i : i \in PutsOf(u)' <=>
          \/ i \in PutsOf(u)
          \/ i \in j + 1..end /\ <<i, u>> \in ItemsOf(j, end, "put")
    BY <1>1, <1>2, <1>3, <1>6 DEF PutsOf
<1>8. ChangesOf(u)' = {i \in 1..end : /\ i \notin gaps' /\ Relevant(i)
                                      /\ stream_log[i].uri = u
                                      /\ \E k \in PutsOf(u)' : i >= k}
    BY <1>4 DEF ChangesOf
<1>9. \A i \in 1..reached : (\E k \in PutsOf(u)' : i >= k) <=> \E k \in PutsOf(u) : i >= k
    <2>1. ASSUME NEW i \in 1..reached, NEW k \in PutsOf(u)', i >= k PROVE k \in PutsOf(u)
        <3>1. k \in PutsOf(u) \/ k \in j + 1..end
            BY <1>7
        <3>2. k \notin j + 1..end
            BY <1>1, <2>1
        <3> QED
            BY <3>1, <3>2
    <2>2. \A k \in PutsOf(u) : k \in PutsOf(u)'
        BY <1>7
    <2> QED
        BY <2>1, <2>2
<1>10. \A i : i \in ChangesOf(u)' <=>
          \/ i \in ChangesOf(u)
          \/ /\ i \in j + 1..end /\ \E k \in PutsOf(u)' : i >= k
             /\ <<i, u>> \in ItemsOf(j, end, "put") \cup ItemsOf(j, end, "delete")
    <2>1. ASSUME NEW i \in 1..reached
          PROVE  i \in ChangesOf(u)' <=> i \in ChangesOf(u)
        BY <1>1, <1>2, <1>8, <1>9, <2>1 DEF ChangesOf
    <2>2. ASSUME NEW i \in j + 1..end
          PROVE  i \in ChangesOf(u)' <=>
                     /\ \E k \in PutsOf(u)' : i >= k
                     /\ <<i, u>> \in ItemsOf(j, end, "put") \cup ItemsOf(j, end, "delete")
        BY <1>1, <1>2, <1>3, <1>5, <1>8, <2>2
    <2>3. ASSUME NEW i, i \notin 1..reached, i \notin j + 1..end
          PROVE  i \notin ChangesOf(u)' /\ i \notin ChangesOf(u)
        BY <1>1, <1>2, <1>8, <2>3 DEF ChangesOf
    <2>4. ChangesOf(u) \subseteq 1..reached
        BY DEF ChangesOf
    <2> QED
        BY <1>1, <2>1, <2>2, <2>3, <2>4
<1> QED
    BY <1>7, <1>10

\* What PostsAreLatest says of one post.
LatestOf(u) ==
    IF PutsOf(u) = {} THEN post[u] = NoPost
    ELSE \E last \in ChangesOf(u) :
            /\ \A j \in ChangesOf(u) : j <= last
            /\ post[u] = [seq |-> last, live |-> Is(last, {"put"})]

LEMMA FinalizeKeepsLatest ==
    ASSUME BlueskyTypes, BlueskyMarks, SlicesFit, NEW u \in Uris, LatestOf(u),
           NEW w \in BlueskyWorkers, BlueskyFinalize(w), slice[w].end # slice[w].start
    PROVE  LatestOf(u)'
<1> DEFINE puts == slice[w].puts
           deletes == slice[w].deletes
<1>1. PICK j \in Nat, end \in Nat :
          /\ reached <= j /\ j < end /\ end <= Len(stream_log)
          /\ reached' = end /\ gaps' = gaps \cup (reached + 1..j)
          /\ puts = ItemsOf(j, end, "put") /\ deletes = ItemsOf(j, end, "delete")
    BY FinalizeMoves
<1>2. reached \in Nat /\ stream_log' = stream_log
    BY DEF BlueskyTypes, BlueskyTypeOK, BlueskyFinalize, upstream
<1>3. post'[u] = Applied(puts, deletes, u)
    BY DEF BlueskyFinalize
<1>4. \A x, y \in puts \cup deletes : x[2] = y[2] => x = y
    BY HolderJoinsBehind DEF CollectedWindow, BlueskyFinalize, FencedSlice
<1>5. /\ \A x \in puts : x = <<x[1], stream_log[x[1]].uri>> /\ x[1] \in j + 1..end
                         /\ Is(x[1], {"put"})
      /\ \A x \in deletes : x = <<x[1], stream_log[x[1]].uri>> /\ x[1] \in j + 1..end
                            /\ Is(x[1], {"delete"})
    <2>1. /\ \A x : x \in ItemsOf(j, end, "put") <=>
                 /\ x = <<x[1], stream_log[x[1]].uri>>
                 /\ x[1] \in j + 1..end /\ Is(x[1], {"put"})
          /\ \A x : x \in ItemsOf(j, end, "delete") <=>
                 /\ x = <<x[1], stream_log[x[1]].uri>>
                 /\ x[1] \in j + 1..end /\ Is(x[1], {"delete"})
        BY ItemsAre
    <2> QED
        BY <1>1, <2>1
<1>6. /\ \A i : i \in PutsOf(u)' <=> i \in PutsOf(u) \/ (i \in j + 1..end /\ <<i, u>> \in puts)
      /\ \A i : i \in ChangesOf(u)' <=>
             \/ i \in ChangesOf(u)
             \/ /\ i \in j + 1..end /\ \E k \in PutsOf(u)' : i >= k
                /\ <<i, u>> \in puts \cup deletes
    BY <1>1, <1>2, WindowOf
<1>7. PutsOf(u) \subseteq 1..reached /\ ChangesOf(u) \subseteq 1..reached
    BY DEF PutsOf, ChangesOf
<1>8. \A i : Is(i, {"put"})' = Is(i, {"put"})
    BY <1>2 DEF Is
<1> HIDE DEF puts, deletes
<1>9. CASE \A x \in puts \cup deletes : x[2] # u
    <2>1. PutsOf(u)' = PutsOf(u) /\ ChangesOf(u)' = ChangesOf(u)
        <3>1. \A i : <<i, u>> \notin puts \cup deletes
            BY <1>9
        <3>2. \A i : i \in PutsOf(u)' <=> i \in PutsOf(u)
            BY <1>6, <3>1
        <3>3. \A i : i \in ChangesOf(u)' <=> i \in ChangesOf(u)
            BY <1>6, <3>1
        <3> QED
            BY <3>2, <3>3 DEF PutsOf, ChangesOf
    <2>2. post'[u] = post[u]
        BY <1>3, <1>9 DEF Applied
    <2> QED
        BY <1>8, <2>1, <2>2 DEF LatestOf
<1>10. ASSUME NEW x \in puts, x[2] = u PROVE LatestOf(u)'
    <2> DEFINE i == x[1]
    <2>1. x = <<i, u>> /\ i \in j + 1..end /\ Is(i, {"put"})
        BY <1>5, <1>10
    <2>2. post'[u] = [seq |-> i, live |-> TRUE]
        <3>1. \A y \in puts : y[2] = u => y = x
            BY <1>4, <1>10
        <3>2. (CHOOSE y \in puts : y[2] = u) = x
            BY <1>10, <3>1
        <3> QED
            BY <1>3, <1>10, <3>2 DEF Applied
    <2>3. i \in PutsOf(u)' /\ i \in ChangesOf(u)'
        BY <1>6, <1>10, <2>1
    <2>4. ASSUME NEW k \in ChangesOf(u)' PROVE k <= i
        <3>1. CASE k \in ChangesOf(u)
            BY <1>1, <1>2, <1>7, <2>1, <3>1
        <3>2. CASE <<k, u>> \in puts \cup deletes
            BY <1>4, <1>10, <2>1, <3>2
        <3> QED
            BY <1>6, <2>4, <3>1, <3>2
    <2> QED
        BY <1>8, <2>1, <2>2, <2>3, <2>4 DEF LatestOf
<1>11. ASSUME NEW x \in deletes, x[2] = u PROVE LatestOf(u)'
    <2> DEFINE i == x[1]
    <2>1. x = <<i, u>> /\ i \in j + 1..end /\ Is(i, {"delete"}) /\ ~Is(i, {"put"})
        BY <1>5, <1>11 DEF Is
    <2>2. \A y \in puts : y[2] # u
        BY <1>4, <1>5, <1>11, <2>1
    <2>3. PutsOf(u)' = PutsOf(u)
        <3>1. \A n : <<n, u>> \notin puts
            BY <2>2
        <3>2. \A n : n \in PutsOf(u)' <=> n \in PutsOf(u)
            BY <1>6, <3>1
        <3> QED
            BY <3>2 DEF PutsOf
    <2>4. CASE PutsOf(u) = {}
        <3>1. post[u] = NoPost
            BY <2>4 DEF LatestOf
        <3>2. post'[u] = NoPost
            BY <1>3, <2>2, <3>1 DEF Applied, NoPost
        <3> QED
            BY <2>3, <2>4, <3>2 DEF LatestOf
    <2>5. CASE PutsOf(u) # {}
        <3>1. PICK last \in ChangesOf(u) : post[u] = [seq |-> last, live |-> Is(last, {"put"})]
            BY <2>5 DEF LatestOf
        <3>2. post[u].seq > 0
            BY <1>2, <1>7, <3>1
        <3>3. post'[u] = [seq |-> i, live |-> FALSE]
            <4>1. \A y \in deletes : y[2] = u => y = x
                BY <1>4, <1>11
            <4>2. (CHOOSE y \in deletes : y[2] = u) = x
                BY <1>11, <4>1
            <4> QED
                BY <1>3, <1>11, <2>2, <3>2, <4>2 DEF Applied
        <3>4. i \in ChangesOf(u)'
            <4>1. PICK k \in PutsOf(u) : TRUE
                BY <2>5
            <4>2. k \in PutsOf(u)' /\ i >= k
                BY <1>1, <1>2, <1>7, <2>1, <2>3, <4>1
            <4> QED
                BY <1>6, <1>11, <2>1, <4>2
        <3>5. ASSUME NEW k \in ChangesOf(u)' PROVE k <= i
            <4>1. CASE k \in ChangesOf(u)
                BY <1>1, <1>2, <1>7, <2>1, <4>1
            <4>2. CASE <<k, u>> \in puts \cup deletes
                BY <1>4, <1>11, <2>1, <4>2
            <4> QED
                BY <1>6, <3>5, <4>1, <4>2
        <3>6. Is(i, {"put"})' = FALSE /\ PutsOf(u)' # {}
            BY <1>8, <2>1, <2>3, <2>5 DEF Is
        <3> HIDE DEF i
        <3> QED
            BY <3>3, <3>4, <3>5, <3>6 DEF LatestOf
    <2> QED
        BY <2>4, <2>5
<1> QED
    BY <1>9, <1>10, <1>11

LEMMA PostsAreLatestNext ==
    ASSUME BlueskyTypes, BlueskyMarks, SlicesFit, PostsAreLatest, BlueskyNext, StreamGrows
    PROVE  PostsAreLatest'
<1> SUFFICES ASSUME NEW u \in Uris PROVE LatestOf(u)'
    BY DEF PostsAreLatest, LatestOf
<1>1. LatestOf(u)
    BY DEF PostsAreLatest, LatestOf
<1>2. /\ reached \in Nat /\ reached <= Len(stream_log) /\ stream_log \in Seq(Frames)
    BY DEF BlueskyTypes, BlueskyTypeOK, BlueskyMarks
<1>3. CASE UNCHANGED <<reached, gaps, post>>
    <2>1. ASSUME NEW i \in 1..reached
          PROVE  /\ stream_log'[i] = stream_log[i]
                 /\ Is(i, {"put"})' = Is(i, {"put"}) /\ Relevant(i)' = Relevant(i)
        <3>1. stream_log'[i] = stream_log[i]
            BY <1>2, <2>1 DEF StreamGrows
        <3> QED
            BY <3>1 DEF Is, Relevant
    <2>2. PutsOf(u)' = PutsOf(u)
        BY <1>3, <2>1 DEF PutsOf
    <2>3. ChangesOf(u)' = ChangesOf(u)
        BY <1>3, <2>1, <2>2 DEF ChangesOf
    <2>4. \A i \in ChangesOf(u) : Is(i, {"put"})' = Is(i, {"put"})
        BY <2>1 DEF ChangesOf
    <2> QED
        BY <1>1, <1>3, <2>2, <2>3, <2>4 DEF LatestOf
<1>4. ASSUME NEW w \in BlueskyWorkers, BlueskyFinalize(w) PROVE LatestOf(u)'
    BY <1>1, <1>3, <1>4, FinalizeStands, FinalizeKeepsLatest
<1> QED
    BY <1>3, <1>4 DEF BlueskyNext, BlueskyClaim, BlueskyBegin, BlueskyCollect, BlueskyTooOld,
       BlueskyRecover, BlueskyGiveUp, Append_, Forget, GrowStale, blueskyRows

LEMMA AppliedSeq ==
    ASSUME NEW puts, NEW deletes, NEW u
    PROVE  LET row == Applied(puts, deletes, u)
           IN  \/ row.seq = post[u].seq
               \/ \E x \in puts \cup deletes : row.seq = x[1]
<1>1. CASE \E i \in puts : i[2] = u
    <2>1. (CHOOSE i \in puts : i[2] = u) \in puts
        BY <1>1
    <2> QED
        BY <1>1, <2>1 DEF Applied
<1>2. CASE ~(\E i \in puts : i[2] = u) /\ \E i \in deletes : i[2] = u
    <2>1. (CHOOSE i \in deletes : i[2] = u) \in deletes
        BY <1>2
    <2> QED
        BY <1>2, <2>1 DEF Applied
<1>3. CASE ~(\E i \in puts : i[2] = u) /\ ~(\E i \in deletes : i[2] = u)
    BY <1>3 DEF Applied
<1> QED
    BY <1>1, <1>2, <1>3

LEMMA BlueskyMarksNext ==
    ASSUME BlueskyTypes, BlueskyMarks, SlicesFit, BlueskyNext, StreamGrows
    PROVE  BlueskyMarks'
<1>1. /\ reached \in Nat /\ cursor \in {0, reached} /\ reached <= Len(stream_log)
      /\ gaps \subseteq 1..reached /\ stream_log \in Seq(Frames)
      /\ \A e \in events : e[1] <= reached
      /\ \A u \in Uris : post[u].seq <= reached
    BY DEF BlueskyTypes, BlueskyTypeOK, BlueskyMarks
<1>2. reached <= Len(stream_log')
    <2>1. Len(stream_log') \in Nat
        BY <1>1 DEF BlueskyNext, BlueskyClaim, BlueskyBegin, BlueskyCollect, BlueskyTooOld,
           BlueskyFinalize, BlueskyRecover, BlueskyGiveUp, Append_, Forget, GrowStale, upstream
    <2> QED
        BY <1>1, <2>1 DEF StreamGrows
<1>3. CASE UNCHANGED <<reached, gaps, events, post>> /\ cursor' \in {0, cursor}
    BY <1>1, <1>2, <1>3 DEF BlueskyMarks
<1>4. ASSUME NEW w \in BlueskyWorkers, BlueskyFinalize(w) PROVE BlueskyMarks'
    <2>1. CASE slice[w].end = slice[w].start
        BY <1>3, <1>4, <2>1, FinalizeStands
    <2>2. CASE slice[w].end # slice[w].start
        <3>1. PICK j \in Nat, end \in Nat :
                  /\ reached <= j /\ j < end /\ end <= Len(stream_log)
                  /\ cursor' = end /\ reached' = end /\ gaps' = gaps \cup (reached + 1..j)
                  /\ slice[w].puts = ItemsOf(j, end, "put")
                  /\ slice[w].deletes = ItemsOf(j, end, "delete")
            BY <1>4, <2>2, FinalizeMoves
        <3>2. \A x \in slice[w].puts \cup slice[w].deletes : x[1] \in j + 1..end
            BY <3>1, ItemsAre
        <3>3. \A e \in events' : e[1] <= end
            <4>1. ASSUME NEW e \in events' PROVE e[1] <= end
                <5>1. e \in events \/ \E x \in slice[w].puts \cup slice[w].deletes : e[1] = x[1]
                    BY <1>4, <4>1 DEF BlueskyFinalize
                <5>2. CASE e \in events
                    <6>1. e[1] \in Nat
                        BY <5>2 DEF BlueskyTypes, BlueskyTypeOK
                    <6> QED
                        BY <1>1, <3>1, <5>2, <6>1
                <5> QED
                    BY <3>1, <3>2, <5>1, <5>2
            <4> QED
                BY <4>1
        <3>4. ASSUME NEW u \in Uris PROVE post'[u].seq <= end
            <4>1. post'[u] = Applied(slice[w].puts, slice[w].deletes, u)
                BY <1>4 DEF BlueskyFinalize
            <4>2. \/ post'[u].seq = post[u].seq
                  \/ \E x \in slice[w].puts \cup slice[w].deletes : post'[u].seq = x[1]
                BY <4>1, AppliedSeq
            <4>3. post[u].seq \in Nat
                BY DEF BlueskyTypes, BlueskyTypeOK
            <4> QED
                BY <1>1, <3>1, <3>2, <4>2, <4>3
        <3>5. gaps' \subseteq 1..end /\ stream_log' = stream_log
            <4>1. 1..reached \subseteq 1..end /\ reached + 1..j \subseteq 1..end
                BY <1>1, <3>1
            <4> QED
                BY <1>1, <1>4, <3>1, <4>1 DEF BlueskyFinalize, upstream
        <3> QED
            BY <3>1, <3>3, <3>4, <3>5 DEF BlueskyMarks
    <2> QED
        BY <2>1, <2>2
<1> QED
    BY <1>3, <1>4 DEF BlueskyNext, BlueskyClaim, BlueskyBegin, BlueskyCollect, BlueskyTooOld,
       BlueskyRecover, BlueskyGiveUp, Append_, Forget, GrowStale, blueskyRows

LEMMA BlueskyTypesNext ==
    ASSUME BlueskyAssumption, BlueskyTypes, BlueskyMarks, SlicesFit, BlueskyNext
    PROVE  BlueskyTypes'
<1>1. /\ stream_log \in Seq(Frames) /\ floor \in 0..Len(stream_log)
      /\ cursor \in Nat /\ reached \in Nat /\ stale \in BOOLEAN
      /\ events \subseteq Nat \X {"put", "delete"} \X Uris
      /\ post \in [Uris -> [seq : Nat, live : BOOLEAN]]
      /\ holder \in BlueskyWorkers \cup {Nobody} /\ owner \in BlueskyWorkers \cup {Nobody}
      /\ gaps \subseteq Nat /\ slice \in [BlueskyWorkers -> SliceRecord]
    BY DEF BlueskyTypes, BlueskyTypeOK
<1>2. ASSUME stream_log' \in Seq(Frames), floor' \in 0..Len(stream_log'),
             cursor' \in Nat, reached' \in Nat, stale' \in BOOLEAN,
             events' \subseteq Nat \X {"put", "delete"} \X Uris,
             post' \in [Uris -> [seq : Nat, live : BOOLEAN]],
             holder' \in BlueskyWorkers \cup {Nobody}, owner' \in BlueskyWorkers \cup {Nobody},
             gaps' \subseteq Nat, slice' \in [BlueskyWorkers -> SliceRecord]
      PROVE  BlueskyTypes'
    <2>1. \A w \in BlueskyWorkers : slice'[w] \in SliceRecord
        BY <1>2
    <2> QED
        BY <1>2, <2>1 DEF BlueskyTypes, BlueskyTypeOK, SliceRecord
<1> USE DEF upstream, blueskyRows
<1>3. ASSUME NEW w \in BlueskyWorkers, BlueskyClaim(w) PROVE BlueskyTypes'
    BY <1>1, <1>2, <1>3 DEF BlueskyClaim, SliceRecord
<1>4. ASSUME NEW w \in BlueskyWorkers, BlueskyBegin(w) PROVE BlueskyTypes'
    <2>1. [stage |-> "begun", start |-> cursor, joined |-> Len(stream_log)] \in SliceRecord
        BY <1>1 DEF SliceRecord, Begun
    <2> QED
        BY <1>1, <1>2, <1>4, <2>1 DEF BlueskyBegin
<1>5. ASSUME NEW w \in BlueskyWorkers, BlueskyCollect(w) PROVE BlueskyTypes'
    <2>1. slice'[w] \in SliceRecord
        BY <1>5, CollectFits DEF SliceRecord
    <2>2. slice' \in [BlueskyWorkers -> SliceRecord]
        BY <1>1, <1>5, <2>1 DEF BlueskyCollect
    <2> QED
        BY <1>1, <1>2, <1>5, <2>2 DEF BlueskyCollect
<1>6. ASSUME NEW w \in BlueskyWorkers, BlueskyTooOld(w) PROVE BlueskyTypes'
    <2>1. slice[w].start \in Nat
        BY <1>6, SliceStages DEF BlueskyTooOld, Begun
    <2>2. [stage |-> "too_old", start |-> slice[w].start] \in SliceRecord
        BY <2>1 DEF SliceRecord
    <2> QED
        BY <1>1, <1>2, <1>6, <2>2 DEF BlueskyTooOld
<1>7. ASSUME NEW w \in BlueskyWorkers, BlueskyFinalize(w) PROVE BlueskyTypes'
    <2> DEFINE c == slice[w]
    <2>1. c \in Collected
        BY <1>7, SliceStages DEF BlueskyFinalize
    <2>2. /\ c.end \in Nat /\ c.joined \in Nat
          /\ c.puts \subseteq Nat \X Uris /\ c.deletes \subseteq Nat \X Uris
        BY <2>1, CollectedIs DEF Items
    <2>3. events' \subseteq Nat \X {"put", "delete"} \X Uris
        BY <1>1, <1>7, <2>2 DEF BlueskyFinalize
    <2>4. ASSUME NEW u \in Uris
          PROVE  Applied(c.puts, c.deletes, u) \in [seq : Nat, live : BOOLEAN]
        BY <1>1, <2>2 DEF Applied
    <2>5. post' \in [Uris -> [seq : Nat, live : BOOLEAN]]
        BY <1>7, <2>4 DEF BlueskyFinalize
    <2>6. gaps' \subseteq Nat
        <3>1. PassedOver(c) \subseteq Nat
            BY <1>1, <2>2 DEF PassedOver
        <3> QED
            BY <1>1, <1>7, <3>1 DEF BlueskyFinalize
    <2>7. slice' \in [BlueskyWorkers -> SliceRecord]
        BY <1>1, <1>7 DEF BlueskyFinalize, SliceRecord
    <2>8. cursor' \in Nat /\ reached' \in Nat
        BY <1>1, <1>7, <2>2 DEF BlueskyFinalize
    <2> QED
        BY <1>1, <1>2, <1>7, <2>3, <2>5, <2>6, <2>7, <2>8 DEF BlueskyFinalize
<1>8. ASSUME NEW w \in BlueskyWorkers, BlueskyRecover(w) PROVE BlueskyTypes'
    BY <1>1, <1>2, <1>8 DEF BlueskyRecover, SliceRecord
<1>9. ASSUME NEW w \in BlueskyWorkers, BlueskyGiveUp(w) PROVE BlueskyTypes'
    BY <1>1, <1>2, <1>9 DEF BlueskyGiveUp, SliceRecord
<1>10. ASSUME NEW f \in Frames, Append_(f) PROVE BlueskyTypes'
    <2>1. stream_log' \in Seq(Frames) /\ Len(stream_log') = Len(stream_log) + 1
        BY <1>1, <1>10 DEF Append_
    <2> QED
        BY <1>1, <1>2, <1>10, <2>1 DEF Append_
<1>11. CASE Forget
    BY <1>1, <1>2, <1>11 DEF Forget
<1>12. CASE GrowStale
    BY <1>1, <1>2, <1>12 DEF GrowStale
<1> QED
    BY <1>3, <1>4, <1>5, <1>6, <1>7, <1>8, <1>9, <1>10, <1>11, <1>12 DEF BlueskyNext

(* A slice that stays with its worker fits as before.                      *)
LEMMA WindowStays ==
    ASSUME BlueskyTypes, BlueskyMarks, SlicesFit, StreamGrows, BlueskyTypes',
           NEW v \in BlueskyWorkers, slice'[v] = slice[v]
    PROVE  /\ slice'[v].stage = "begun" => slice'[v].joined <= Len(stream_log')
           /\ slice'[v].stage = "collected" => CollectedWindow(slice[v])'
           /\ slice'[v].stage = "too_old" => slice'[v].start < floor'
<1>1. /\ Len(stream_log) \in Nat /\ Len(stream_log') \in Nat
      /\ Len(stream_log) <= Len(stream_log')
      /\ floor \in Nat /\ floor' \in Nat /\ floor <= floor'
    BY DEF BlueskyTypes, BlueskyTypeOK, StreamGrows
<1>2. CASE slice[v].stage = "begun"
    <2>1. slice[v].joined \in Nat
        BY <1>2, SliceStages DEF Begun
    <2> QED
        BY <1>1, <1>2, <2>1 DEF SlicesFit
<1>3. CASE slice[v].stage = "too_old"
    <2>1. slice[v].start \in Nat
        BY <1>3, SliceStages
    <2> QED
        BY <1>1, <1>3, <2>1 DEF SlicesFit
<1>4. CASE slice[v].stage = "collected"
    <2>1. PICK c : c = slice[v]
        OBVIOUS
    <2>2. c \in Collected /\ CollectedWindow(c)
        BY <1>4, <2>1, SliceStages DEF SlicesFit
    <2>3. c.joined \in Nat /\ c.end \in Nat /\ c.end <= Len(stream_log)
        BY <2>2, CollectedIs DEF CollectedWindow
    <2>4. /\ ItemsOf(c.joined, c.end, "put")' = ItemsOf(c.joined, c.end, "put")
          /\ ItemsOf(c.joined, c.end, "delete")' = ItemsOf(c.joined, c.end, "delete")
        BY <2>3, FramesStay
    <2>5. CollectedWindow(c)'
        BY <1>1, <2>2, <2>3, <2>4 DEF CollectedWindow
    <2> QED
        BY <1>4, <2>1, <2>5
<1> QED
    BY <1>2, <1>3, <1>4

LEMMA SlicesFitNext ==
    ASSUME BlueskyAssumption, BlueskyTypes, BlueskyMarks, SlicesFit, BlueskyNext, StreamGrows,
           BlueskyTypes'
    PROVE  SlicesFit'
<1> DEFINE Fits(v) ==
        /\ slice[v].stage = "begun" => slice[v].joined <= Len(stream_log)
        /\ slice[v].stage = "collected" => CollectedWindow(slice[v])
        /\ slice[v].stage = "too_old" => slice[v].start < floor
    Starts(v) ==
        holder = v /\ slice[v].stage \in {"begun", "collected", "too_old"} => StartsAtCursor(v)
<1> SUFFICES ASSUME NEW v \in BlueskyWorkers PROVE Fits(v)' /\ Starts(v)'
    BY DEF SlicesFit
<1>1. /\ slice \in [BlueskyWorkers -> SliceRecord] /\ stream_log \in Seq(Frames)
      /\ reached \in Nat /\ reached <= Len(stream_log) /\ cursor \in Nat
      /\ v # Nobody
    BY DEF BlueskyTypes, BlueskyTypeOK, BlueskyMarks, BlueskyAssumption
<1>2. Starts(v) /\ Fits(v)
    BY DEF SlicesFit
\* A step that leaves v's slice, its lease and the cursor alone.
<1>3. ASSUME slice'[v] = slice[v], UNCHANGED <<cursor, reached>>, holder' = v => holder = v
      PROVE  Fits(v)' /\ Starts(v)'
    <2>1. Fits(v)'
        BY <1>3, WindowStays
    <2>2. StartsAtCursor(v) => StartsAtCursor(v)'
        BY <1>3 DEF StartsAtCursor
    <2> QED
        BY <1>2, <1>3, <2>1, <2>2
\* A step that frees the job while v's slice stays.
<1>4. ASSUME slice'[v] = slice[v], holder' = Nobody PROVE Fits(v)' /\ Starts(v)'
    BY <1>1, <1>4, WindowStays
<1>5. ASSUME slice'[v] = NoSlice \/ slice'[v] = [stage |-> "leased"]
      PROVE  Fits(v)' /\ Starts(v)'
    BY <1>5 DEF NoSlice
<1>6. ASSUME NEW w \in BlueskyWorkers, BlueskyClaim(w) PROVE Fits(v)' /\ Starts(v)'
    BY <1>1, <1>3, <1>5, <1>6 DEF BlueskyClaim, blueskyRows
<1>7. ASSUME NEW w \in BlueskyWorkers, BlueskyBegin(w) PROVE Fits(v)' /\ Starts(v)'
    <2>1. CASE v = w
        <3>1. slice'[v] = [stage |-> "begun", start |-> cursor, joined |-> Len(stream_log)]
            BY <1>1, <1>7, <2>1 DEF BlueskyBegin
        <3>2. UNCHANGED <<stream_log, cursor, reached>>
            BY <1>7 DEF BlueskyBegin, upstream, blueskyRows
        <3> QED
            BY <1>1, <3>1, <3>2 DEF StartsAtCursor
    <2>2. CASE v # w
        BY <1>1, <1>3, <1>7, <2>2 DEF BlueskyBegin, blueskyRows
    <2> QED
        BY <2>1, <2>2
<1>8. ASSUME NEW w \in BlueskyWorkers, BlueskyCollect(w) PROVE Fits(v)' /\ Starts(v)'
    <2>1. CASE v = w
        <3>1. /\ slice'[v].stage = "collected" /\ slice'[v] \in Collected
              /\ CollectedWindow(slice[v])' /\ slice'[v].start = slice[v].start
              /\ slice[v].start = 0 => slice[v].joined <= slice'[v].joined
            BY <1>8, <2>1, CollectFits
        <3>2. UNCHANGED <<stream_log, cursor, reached, holder>> /\ slice[v].stage = "begun"
            BY <1>8, <2>1 DEF BlueskyCollect, upstream, blueskyRows
        <3>3. slice[v].joined \in Nat /\ slice'[v].joined \in Nat
            BY <3>1, <3>2, CollectedIs, SliceStages DEF Begun
        <3>4. holder = v => slice[v].start = cursor /\ (slice[v].start = 0 => reached <= slice[v].joined)
            BY <1>2, <3>2 DEF StartsAtCursor
        <3>5. Starts(v)'
            BY <1>1, <3>1, <3>2, <3>3, <3>4 DEF StartsAtCursor
        <3> QED
            BY <3>1, <3>5
    <2>2. CASE v # w
        BY <1>1, <1>3, <1>8, <2>2 DEF BlueskyCollect, blueskyRows
    <2> QED
        BY <2>1, <2>2
<1>9. ASSUME NEW w \in BlueskyWorkers, BlueskyTooOld(w) PROVE Fits(v)' /\ Starts(v)'
    <2>1. CASE v = w
        <3>1. slice'[v] = [stage |-> "too_old", start |-> slice[v].start]
            BY <1>1, <1>9, <2>1 DEF BlueskyTooOld
        <3>2. /\ UNCHANGED <<floor, cursor, reached, holder>> /\ slice[v].stage = "begun"
              /\ slice[v].start < floor
            BY <1>9, <2>1 DEF BlueskyTooOld, upstream, blueskyRows
        <3>3. holder = v => slice[v].start = cursor
            BY <1>2, <3>2 DEF StartsAtCursor
        <3> QED
            BY <3>1, <3>2, <3>3 DEF StartsAtCursor
    <2>2. CASE v # w
        BY <1>1, <1>3, <1>9, <2>2 DEF BlueskyTooOld, blueskyRows
    <2> QED
        BY <2>1, <2>2
<1>10. ASSUME NEW w \in BlueskyWorkers, BlueskyFinalize(w) PROVE Fits(v)' /\ Starts(v)'
    BY <1>1, <1>4, <1>5, <1>10 DEF BlueskyFinalize
<1>11. ASSUME NEW w \in BlueskyWorkers, BlueskyRecover(w) PROVE Fits(v)' /\ Starts(v)'
    BY <1>1, <1>4, <1>5, <1>11 DEF BlueskyRecover
<1>12. ASSUME NEW w \in BlueskyWorkers, BlueskyGiveUp(w) PROVE Fits(v)' /\ Starts(v)'
    BY <1>1, <1>3, <1>5, <1>12 DEF BlueskyGiveUp, blueskyRows
<1>13. ASSUME NEW f \in Frames, Append_(f) PROVE Fits(v)' /\ Starts(v)'
    BY <1>3, <1>13 DEF Append_, blueskyRows
<1>14. ASSUME Forget \/ GrowStale PROVE Fits(v)' /\ Starts(v)'
    BY <1>3, <1>14 DEF Forget, GrowStale, blueskyRows
<1> QED
    BY <1>6, <1>7, <1>8, <1>9, <1>10, <1>11, <1>12, <1>13, <1>14 DEF BlueskyNext

LEMMA BlueskyNextInv ==
    ASSUME BlueskyAssumption, BlueskyIInv, [BlueskyNext]_blueskyVars PROVE BlueskyIInv'
<1>1. CASE BlueskyNext
    <2>1. StreamGrows
        BY <1>1, StreamGrowsNext DEF BlueskyIInv
    <2>2. BlueskyTypes'
        BY <1>1, BlueskyTypesNext DEF BlueskyIInv
    <2> QED
        BY <1>1, <2>1, <2>2, BlueskyMarksNext, SlicesFitNext, NothingSkippedNext,
           PostsAreLatestNext DEF BlueskyIInv
<1>2. CASE UNCHANGED blueskyVars
    <2> USE <1>2 DEF blueskyVars
    <2>1. BlueskyTypes' /\ BlueskyMarks'
        BY DEF BlueskyIInv, BlueskyTypes, BlueskyTypeOK, BlueskyMarks
    <2>2. SlicesFit'
        BY DEF BlueskyIInv, SlicesFit, CollectedWindow, StartsAtCursor, ItemsOf, Sequences, Is
    <2>3. NothingSkipped' /\ PostsAreLatest'
        BY DEF BlueskyIInv, NothingSkipped, PostsAreLatest, PutsOf, ChangesOf, Relevant, Is
    <2> QED
        BY <2>1, <2>2, <2>3 DEF BlueskyIInv
<1> QED
    BY <1>1, <1>2

LEMMA BlueskyAlways == BlueskySpec => []BlueskyIInv
BY BlueskyAssumption, BlueskyInitInv, BlueskyNextInv, PTL DEF BlueskySpec

\* The latest stored frame of a post is the one the property chooses.
LEMMA LatestIsChosen ==
    ASSUME BlueskyTypes, PostsAreLatest PROVE CandidateIsLatest
<1> SUFFICES ASSUME NEW u \in Uris
             PROVE  IF PutsOf(u) = {} THEN post[u] = NoPost
                    ELSE LET last == CHOOSE i \in ChangesOf(u) : \A j \in ChangesOf(u) : j <= i
                         IN  post[u] = [seq |-> last, live |-> Is(last, {"put"})]
    BY DEF CandidateIsLatest, PutsOf, ChangesOf
<1>1. ChangesOf(u) \subseteq Nat
    BY DEF ChangesOf, BlueskyTypes, BlueskyTypeOK
<1>2. CASE PutsOf(u) = {}
    BY <1>2 DEF PostsAreLatest
<1>3. CASE PutsOf(u) # {}
    <2>1. PICK last \in ChangesOf(u) :
              /\ \A j \in ChangesOf(u) : j <= last
              /\ post[u] = [seq |-> last, live |-> Is(last, {"put"})]
        BY <1>3 DEF PostsAreLatest
    <2>2. ASSUME NEW i \in ChangesOf(u), \A j \in ChangesOf(u) : j <= i PROVE i = last
        BY <1>1, <2>1, <2>2
    <2>3. last = CHOOSE i \in ChangesOf(u) : \A j \in ChangesOf(u) : j <= i
        BY <2>1, <2>2
    <2> QED
        BY <1>3, <2>1, <2>3
<1> QED
    BY <1>2, <1>3

\* What the lease holder comes back with passes the finalizer's checks.
LEMMA HolderIsAccepted ==
    ASSUME BlueskyAssumption, BlueskyTypes, BlueskyMarks, SlicesFit PROVE SliceIsAccepted
<1> SUFFICES ASSUME NEW w \in BlueskyWorkers, slice[w].stage = "collected", FencedSlice(w),
                    ~(slice[w].start = 0 /\ slice[w].end = 0 /\ slice[w].seen > 0)
             PROVE  ValidSlice(slice[w]) /\ NoSequenceConflict(slice[w])
    BY DEF SliceIsAccepted
<1> DEFINE c == slice[w]
<1>1. /\ c \in Collected /\ CollectedWindow(c) /\ c.start = cursor
      /\ c.start > 0 => c.joined = reached
      /\ reached <= c.joined
      /\ c.end = c.start => c.puts = {} /\ c.deletes = {}
    BY HolderJoinsBehind DEF FencedSlice
<1>2. /\ c.start \in Nat /\ c.joined \in Nat /\ c.end \in Nat /\ c.seen \in Nat
      /\ reached \in Nat
    BY <1>1, CollectedIs DEF BlueskyTypes, BlueskyTypeOK
<1>3. /\ c.start <= c.end
      /\ c.end = 0 => c.puts = {} /\ c.deletes = {}
      /\ c.seen = 0 => c.end = c.start
      /\ \A i, j \in c.puts \cup c.deletes : i[2] = j[2] => i = j
      /\ Cardinality(c.puts) <= MaxItems /\ Cardinality(c.deletes) <= MaxItems
      /\ Cardinality(c.puts) + Cardinality(c.deletes) <= c.seen
      /\ c.puts = ItemsOf(c.joined, c.end, "put")
      /\ c.deletes = ItemsOf(c.joined, c.end, "delete")
    BY <1>1 DEF CollectedWindow
<1>4. /\ \A x \in c.puts \cup c.deletes :
             x = <<x[1], stream_log[x[1]].uri>> /\ x[1] \in c.joined + 1..c.end
    <2>1. ASSUME NEW op, NEW x \in ItemsOf(c.joined, c.end, op)
          PROVE  x = <<x[1], stream_log[x[1]].uri>> /\ x[1] \in c.joined + 1..c.end
        BY DEF ItemsOf, Sequences
    <2> QED
        BY <1>3, <2>1
<1>5. c.end = 0 => c.seen = 0
    BY <1>2, <1>3
<1>6. \A i \in c.puts \cup c.deletes : i[1] > c.start /\ i[1] <= c.end
    <2>1. c.start <= c.joined
        BY <1>1, <1>2 DEF CollectedWindow
    <2> QED
        BY <1>2, <1>4, <2>1
<1>7. \A i, j \in c.puts \cup c.deletes : i[1] = j[1] => i = j
    BY <1>4
<1>8. ValidSlice(c)
    BY <1>1, <1>3, <1>5, <1>6, <1>7 DEF ValidSlice
<1>9. ASSUME NEW i \in c.puts \cup c.deletes
      PROVE  i[1] > post[i[2]].seq /\ \A e \in events : e[1] # i[1]
    <2>1. i[1] \in Nat /\ i[1] > reached /\ i[2] \in Uris
        <3>1. i \in Nat \X Uris
            BY <1>1, CollectedIs DEF Items
        <3> QED
            BY <1>1, <1>2, <1>4, <3>1
    <2>2. post[i[2]].seq \in Nat /\ post[i[2]].seq <= reached
        BY <2>1 DEF BlueskyTypes, BlueskyTypeOK, BlueskyMarks
    <2>3. \A e \in events : e[1] \in Nat /\ e[1] <= reached
        BY DEF BlueskyTypes, BlueskyTypeOK, BlueskyMarks
    <2> QED
        BY <1>2, <2>1, <2>2, <2>3
<1> QED
    BY <1>8, <1>9 DEF NoSequenceConflict

(* Whatever the stream carries, and however often a job's lease moves on   *)
(* from a reader that is still at work: the cursor passes only what is     *)
(* stored, a candidate is what its stored frames made of it, and           *)
(* finalize_bluesky_jetstream_job takes the slice of the current lease.    *)
THEOREM CursorSkipsNothing == BlueskySpec => []BlueskyInv
<1>1. BlueskyIInv => BlueskyInv
    BY BlueskyAssumption, LatestIsChosen, HolderIsAccepted
    DEF BlueskyIInv, BlueskyTypes, BlueskyInv
<1> QED
    BY <1>1, BlueskyAlways, PTL

(* The cursor only goes back when recover_bluesky_cursor_too_old_job_v1    *)
(* drops one the stream no longer serves, and nothing stored goes with it. *)
THEOREM OnlyForgottenIsRewound == BlueskySpec => RewindsOnlyForgotten
<1>1. ASSUME BlueskyIInv, BlueskyNext, cursor' < cursor
      PROVE  cursor' = 0 /\ cursor < floor /\ events' = events /\ post' = post
    <2>1. BlueskyTypes /\ BlueskyMarks /\ SlicesFit /\ cursor \in Nat
        BY <1>1 DEF BlueskyIInv, BlueskyTypes, BlueskyTypeOK
    <2>2. ASSUME NEW w \in BlueskyWorkers, BlueskyFinalize(w) PROVE FALSE
        <3>1. slice[w].start = cursor /\ slice[w] \in Collected /\ CollectedWindow(slice[w])
            BY <2>1, <2>2, HolderJoinsBehind DEF BlueskyFinalize, FencedSlice
        <3>2. cursor' = slice[w].end /\ slice[w].end \in Nat /\ slice[w].start <= slice[w].end
            BY <2>2, <3>1, CollectedIs DEF BlueskyFinalize, CollectedWindow
        <3> QED
            BY <1>1, <2>1, <3>1, <3>2
    <2>3. ASSUME NEW w \in BlueskyWorkers, BlueskyRecover(w)
          PROVE  cursor' = 0 /\ cursor < floor /\ events' = events /\ post' = post
        BY <2>1, <2>3 DEF BlueskyRecover, Recoverable, SlicesFit
    <2>4. CASE cursor' = cursor
        BY <1>1, <2>1, <2>4
    <2> QED
        BY <1>1, <2>2, <2>3, <2>4 DEF BlueskyNext, BlueskyClaim, BlueskyBegin, BlueskyCollect,
           BlueskyTooOld, BlueskyGiveUp, Append_, Forget, GrowStale, blueskyRows
<1>2. ASSUME BlueskyIInv, [BlueskyNext]_blueskyVars
      PROVE  [cursor' < cursor => /\ cursor' = 0 /\ cursor < floor
                                  /\ events' = events /\ post' = post]_blueskyVars
    BY <1>1, <1>2
<1> QED
    BY <1>2, BlueskyAlways, PTL DEF BlueskySpec, RewindsOnlyForgotten
-------------------------------------------------------------------------------
(* Mastodon.  A gate is only granted once the instance has cooled down,    *)
(* and a slice that goes on from a cursor has found every status up to     *)
(* where it stands.                                                        *)

Paging ==
    [stage : {"begun", "paging"}, tag : Tags, start : 0..MaxStatuses, end : 0..MaxStatuses,
     pages : Nat, found : Found, incomplete : BOOLEAN]
Completed ==
    [stage : {"collected"}, tag : Tags, start : 0..MaxStatuses, end : 0..MaxStatuses,
     seen : BOOLEAN, found : Found, incomplete : BOOLEAN, reset : Reset]
ReadingRecord ==
    Paging \cup Completed \cup [stage : {"leased"}, tag : Tags]
        \cup [stage : {"limited"}, tag : Tags, retry : Reset]

MastodonTypes ==
    /\ MastodonTypeOK
    /\ reading \in [MastodonWorkers -> ReadingRecord \cup {Waiting}]

Instance ==
    /\ Len(timeline) <= MaxStatuses
    /\ \A i \in 1..Len(timeline) : timeline[i].kept \subseteq timeline[i].tags
    /\ \A t \in Tags : last_status_id[t] <= Len(timeline)

Cooled == asked <= cooldown /\ (gate # NoTag => cooldown <= today)

\* Where a slice stands and what it has found.
FoundIn(c, statuses) ==
    /\ c.start <= c.end /\ c.end <= Len(statuses)
    /\ \A f \in c.found : c.start < f[1]
    /\ c.start > 0 =>
          \A i \in c.start + 1..c.end :
              statuses[i].form = "sound" /\ c.tag \in statuses[i].kept
                  => \E f \in c.found : f[1] = i /\ c.tag \in f[2]
FoundUpTo(c) == FoundIn(c, timeline)

ReadingsAreWhole ==
    \A w \in MastodonWorkers :
        LET c == reading[w]
        IN  c.stage \in {"begun", "paging", "collected"} =>
              /\ FoundUpTo(c)
              /\ Holding(w) => c.start = last_status_id[c.tag]
              /\ c.stage # "collected" /\ c.pages = 0 => c.end = c.start
              /\ c.stage = "collected" /\ ~c.seen => c.end = c.start

MastodonIInv ==
    /\ MastodonTypes /\ Instance /\ Cooled /\ ReadingsAreWhole
    /\ ReadToCursor /\ CandidateMergesTags

LEMMA WaitingIs == Waiting.stage = "idle" /\ \A c \in ReadingRecord : c # Waiting
BY DEF Waiting, ReadingRecord, Paging, Completed

LEMMA ReadingIs ==
    ASSUME NEW c \in ReadingRecord
    PROVE  /\ c.tag \in Tags
           /\ c.stage \in {"leased", "begun", "paging", "collected", "limited"}
           /\ c.stage \in {"begun", "paging"} => c \in Paging
           /\ c.stage = "collected" => c \in Completed
           /\ c.stage = "limited" => c.retry \in Reset
BY DEF ReadingRecord, Paging, Completed

LEMMA Reading ==
    ASSUME MastodonTypes, NEW w \in MastodonWorkers, reading[w].stage # "idle"
    PROVE  reading[w] \in ReadingRecord
BY WaitingIs DEF MastodonTypes

LEMMA SliceIs ==
    ASSUME MastodonTypes, NEW w \in MastodonWorkers,
           reading[w].stage \in {"begun", "paging", "collected"}
    PROVE  /\ reading[w].tag \in Tags /\ reading[w].start \in 0..MaxStatuses
           /\ reading[w].end \in 0..MaxStatuses /\ reading[w].found \in Found
           /\ reading[w].stage \in {"begun", "paging"} => reading[w].pages \in Nat
           /\ reading[w].stage = "collected" =>
                 reading[w].seen \in BOOLEAN /\ reading[w].reset \in Reset
<1>1. reading[w] \in Paging \cup Completed
    BY Reading, ReadingIs
<1> QED
    BY <1>1 DEF Paging, Completed

LEMMA GreaterOfTwo ==
    ASSUME NEW a \in Int, NEW b \in Int
    PROVE  Max({a, b}) \in {a, b} /\ a <= Max({a, b}) /\ b <= Max({a, b})
<1>1. \E x \in {a, b} : \A y \in {a, b} : x >= y
    <2>1. CASE a >= b
        BY <2>1
    <2>2. CASE b >= a
        BY <2>2
    <2> QED
        BY <2>1, <2>2
<1> QED
    BY <1>1 DEF Max

LEMMA GreatestOfPage ==
    ASSUME NEW S \in SUBSET Nat, S # {}, NEW n \in Nat, \A x \in S : x <= n
    PROVE  Max(S) \in S /\ \A x \in S : x <= Max(S)
<1>1. \E x \in S : \A y \in S : x >= y
    BY GreatestExists
<1> QED
    BY <1>1 DEF Max

LEMMA MastodonInitInv == ASSUME MastodonAssumption PROVE MastodonInit => MastodonIInv
<1> SUFFICES ASSUME MastodonInit PROVE MastodonIInv
    OBVIOUS
<1>1. MastodonTypes
    <2>1. timeline \in Seq(Shown) /\ reading \in [MastodonWorkers -> {Waiting}]
        BY DEF MastodonInit
    <2>2. /\ observed \in [Tags -> [Ids -> SUBSET Tags]] /\ matched_tags \in [Ids -> SUBSET Tags]
          /\ last_status_id \in [Tags -> 0..MaxStatuses] /\ baseline \in [Tags -> 0..MaxStatuses]
        BY DEF MastodonInit, MastodonAssumption
    <2>3. /\ today \in 0..MastodonEnd /\ {cooldown, asked} \subseteq Reset
          /\ available \in [Tags -> Reset]
        BY DEF MastodonInit, MastodonAssumption, Reset
    <2>4. /\ attempts \in [Tags -> Nat] /\ gate \in Tags \cup {NoTag}
          /\ leased \in [Tags -> MastodonWorkers \cup {NoWorker}]
        BY DEF MastodonInit
    <2> QED
        BY <2>1, <2>2, <2>3, <2>4 DEF MastodonTypes, MastodonTypeOK
<1>2. Instance /\ Cooled
    BY DEF MastodonInit, Instance, Cooled, MastodonAssumption
<1>3. ReadingsAreWhole
    BY WaitingIs DEF MastodonInit, ReadingsAreWhole
<1>4. ReadToCursor
    BY DEF MastodonInit, ReadToCursor
<1>5. CandidateMergesTags
    <2>1. \A i \in Ids, t \in Tags : observed[t][i] = {}
        BY DEF MastodonInit
    <2>2. \A i \in Ids : UNION {observed[t][i] : t \in Tags} = {}
        BY <2>1
    <2> QED
        BY <2>2 DEF MastodonInit, CandidateMergesTags
<1> QED
    BY <1>1, <1>2, <1>3, <1>4, <1>5 DEF MastodonIInv

(* A status keeps its form, and the tags it has had ever since only shrink.*)
TimelineGrows ==
    /\ timeline' \in Seq(Shown)
    /\ Len(timeline) <= Len(timeline') /\ Len(timeline') <= MaxStatuses
    /\ \A i \in 1..Len(timeline) :
          timeline'[i].form = timeline[i].form /\ timeline'[i].kept \subseteq timeline[i].kept
    /\ \A i \in 1..Len(timeline') : timeline'[i].kept \subseteq timeline'[i].tags

LEMMA TimelineGrowsNext ==
    ASSUME MastodonAssumption, MastodonTypes, Instance, MastodonNext PROVE TimelineGrows
<1>1. /\ timeline \in Seq(Shown) /\ Len(timeline) <= MaxStatuses /\ MaxStatuses \in Nat
      /\ \A i \in 1..Len(timeline) : timeline[i].kept \subseteq timeline[i].tags
    BY DEF MastodonTypes, MastodonTypeOK, Instance, MastodonAssumption
<1>2. ASSUME NEW s \in Statuses, Appear(s) PROVE TimelineGrows
    <2> DEFINE shown == [tags |-> s.tags, form |-> s.form, kept |-> s.tags]
    <2>1. shown \in Shown
        BY DEF MastodonAssumption, StatusType, Shown
    <2>2. timeline' = Append(timeline, shown) /\ Len(timeline) < MaxStatuses
        BY <1>2 DEF Appear
    <2>3. shown.kept \subseteq shown.tags
        OBVIOUS
    <2> HIDE DEF shown
    <2>4. /\ timeline' \in Seq(Shown) /\ Len(timeline') = Len(timeline) + 1
          /\ \A i \in 1..Len(timeline) : timeline'[i] = timeline[i]
          /\ timeline'[Len(timeline) + 1] = shown
        BY <1>1, <2>1, <2>2
    <2>5. \A i \in 1..Len(timeline') : timeline'[i].kept \subseteq timeline'[i].tags
        <3>1. Len(timeline) \in Nat
            BY <1>1
        <3>2. \A i \in 1..Len(timeline') : i \in 1..Len(timeline) \/ i = Len(timeline) + 1
            BY <2>4, <3>1
        <3> QED
            BY <1>1, <2>3, <2>4, <3>2
    <2> QED
        BY <1>1, <2>2, <2>4, <2>5 DEF TimelineGrows
<1>3. ASSUME NEW i \in DOMAIN timeline, NEW tags \in EditedTags, Edit(i, tags)
      PROVE  TimelineGrows
    <2> DEFINE edited == [timeline[i] EXCEPT !.tags = tags, !.kept = @ \cap tags]
    <2>1. timeline[i] \in Shown /\ tags \in SUBSET Tags /\ i \in 1..Len(timeline)
        BY <1>1 DEF MastodonAssumption
    <2>2. /\ edited \in Shown /\ edited.form = timeline[i].form
          /\ edited.kept = timeline[i].kept \cap tags /\ edited.tags = tags
        BY <2>1 DEF Shown
    <2>3. timeline' = [timeline EXCEPT ![i] = edited]
        BY <1>1, <1>3, <2>1 DEF Edit, Shown
    <2> HIDE DEF edited
    <2>4. /\ timeline' \in Seq(Shown) /\ Len(timeline') = Len(timeline)
          /\ \A k \in 1..Len(timeline) : k # i => timeline'[k] = timeline[k]
          /\ timeline'[i] = edited
        BY <1>1, <2>1, <2>2, <2>3
    <2>5. ASSUME NEW k \in 1..Len(timeline)
          PROVE  /\ timeline'[k].form = timeline[k].form
                 /\ timeline'[k].kept \subseteq timeline[k].kept
                 /\ timeline'[k].kept \subseteq timeline'[k].tags
        <3>1. timeline[k].kept \subseteq timeline[k].tags
            BY <1>1
        <3>2. timeline[i].kept \subseteq timeline[i].tags
            BY <1>1, <2>1
        <3> QED
            BY <1>3, <2>2, <2>4, <3>1, <3>2
    <2> QED
        BY <1>1, <2>4, <2>5 DEF TimelineGrows
<1>4. CASE UNCHANGED timeline
    BY <1>1, <1>4 DEF TimelineGrows
<1> QED
    BY <1>2, <1>3, <1>4 DEF MastodonNext, MastodonClaim, MastodonBegin, MastodonDefer,
       MastodonPreflight, MastodonLimited, MastodonPage, MastodonFinalize, MastodonRecord,
       MastodonGiveUp, LeaseRunsOut, MastodonTick

(* What a page holds: statuses after the cursor, and, once there is a      *)
(* cursor, every one of the tag's up to the last it holds.                 *)
LEMMA PageIs ==
    ASSUME MastodonAssumption, MastodonTypes, Instance, NEW t \in Tags, NEW min \in Nat
    PROVE  /\ PageAfter(t, min) \subseteq min + 1..Len(timeline)
           /\ PageAfter(t, min) # {} =>
                 /\ Max(PageAfter(t, min)) \in min + 1..Len(timeline)
                 /\ \A i \in PageAfter(t, min) : i <= Max(PageAfter(t, min))
           /\ PageAfter(t, min) # {} /\ min > 0 =>
                 \A i \in min + 1..Max(PageAfter(t, min)) :
                     t \in timeline[i].tags => i \in PageAfter(t, min)
<1> DEFINE page == PageAfter(t, min)
           tagged == {i \in min + 1..Len(timeline) : t \in timeline[i].tags}
           older(i) == {j \in tagged : j < i}
           newer(i) == {j \in tagged : j > i}
<1>1. Len(timeline) \in Nat
    BY DEF MastodonTypes, MastodonTypeOK
<1>2. page = {i \in tagged : Cardinality(IF min = 0 THEN newer(i) ELSE older(i)) < PageSize}
    BY DEF PageAfter
<1>3. page \subseteq min + 1..Len(timeline)
    BY <1>2
<1>4. ASSUME page # {}
      PROVE  Max(page) \in page /\ \A i \in page : i <= Max(page)
    <2>1. page \in SUBSET Nat /\ \A i \in page : i <= Len(timeline)
        BY <1>1, <1>3
    <2> QED
        BY <1>1, <1>4, <2>1, GreatestOfPage
<1>5. ASSUME page # {}, min > 0, NEW i \in min + 1..Max(page), t \in timeline[i].tags
      PROVE  i \in page
    <2> HIDE DEF page
    <2>0. page = {k \in tagged : Cardinality(older(k)) < PageSize}
        <3>1. min # 0
            BY <1>5
        <3> QED
            BY <1>2, <3>1
    <2>1. Max(page) \in tagged /\ Cardinality(older(Max(page))) < PageSize
        BY <1>4, <1>5, <2>0
    <2>2. i \in tagged /\ i <= Max(page)
        BY <1>1, <1>5, <2>1
    <2>3. older(i) \in SUBSET older(Max(page))
        BY <1>1, <2>1, <2>2
    <2>4. IsFiniteSet(older(Max(page)))
        <3>1. IsFiniteSet(min + 1..Len(timeline))
            BY <1>1, FS_Interval
        <3>2. older(Max(page)) \in SUBSET (min + 1..Len(timeline))
            OBVIOUS
        <3> QED
            BY <3>1, <3>2, FS_Subset
    <2>5. /\ Cardinality(older(i)) <= Cardinality(older(Max(page)))
          /\ Cardinality(older(i)) \in Nat /\ Cardinality(older(Max(page))) \in Nat
        BY <2>3, <2>4, FS_Subset, FS_CardinalityType
    <2>6. Cardinality(older(i)) < PageSize
        BY <2>1, <2>5 DEF MastodonAssumption
    <2> QED
        BY <2>0, <2>2, <2>6
<1> QED
    BY <1>3, <1>4, <1>5

LEMMA MatchingIs ==
    ASSUME MastodonAssumption, MastodonTypes, Instance, NEW t \in Tags,
           NEW page, page \subseteq 1..Len(timeline)
    PROVE  /\ Matching(t, page) \in Found
           /\ \A f \in Matching(t, page) : f[1] \in page
           /\ \A i \in page : timeline[i].form = "sound" =>
                 <<i, timeline[i].tags>> \in Matching(t, page)
<1>1. ASSUME NEW i \in page PROVE i \in Ids /\ timeline[i].tags \in SUBSET Tags
    <2>1. i \in 1..Len(timeline) /\ Len(timeline) \in Nat /\ Len(timeline) <= MaxStatuses
        BY DEF MastodonTypes, MastodonTypeOK, Instance
    <2>2. timeline[i] \in Shown
        BY <2>1 DEF MastodonTypes, MastodonTypeOK
    <2> QED
        BY <2>1, <2>2 DEF Shown, Ids, MastodonAssumption
<1>2. Matching(t, page) \in Found
    BY <1>1 DEF Matching, Found
<1> QED
    BY <1>2 DEF Matching

\* A slice in progress, with one more page.
LEMMA PageExtends ==
    ASSUME MastodonAssumption, MastodonTypes, Instance, NEW c \in Paging, FoundUpTo(c),
           NEW link \in BOOLEAN
    PROVE  LET page == PageAfter(c.tag, c.end)
               end == EndOf(page, link, c.end)
               all == Gathered(c, page)
           IN  /\ end \in 0..MaxStatuses /\ c.end <= end /\ end <= Len(timeline)
               /\ page = {} => end = c.end
               /\ all \in Found /\ \A f \in all : c.start < f[1]
               /\ c.start > 0 =>
                     \A i \in c.start + 1..end :
                         timeline[i].form = "sound" /\ c.tag \in timeline[i].kept
                             => \E f \in all : f[1] = i /\ c.tag \in f[2]
<1> DEFINE page == PageAfter(c.tag, c.end)
           end == EndOf(page, link, c.end)
           all == Gathered(c, page)
<1>1. /\ c.tag \in Tags /\ c.start \in Nat /\ c.end \in Nat /\ c.found \in Found
      /\ c.start <= c.end /\ c.end <= Len(timeline)
      /\ Len(timeline) \in Nat /\ Len(timeline) <= MaxStatuses /\ MaxStatuses \in Nat
      /\ \A i \in 1..Len(timeline) : timeline[i].kept \subseteq timeline[i].tags
    BY DEF Paging, FoundUpTo, FoundIn, MastodonTypes, MastodonTypeOK, Instance, MastodonAssumption
<1>2. page \subseteq c.end + 1..Len(timeline)
    BY <1>1, PageIs
<1>3. page # {} => /\ Max(page) \in c.end + 1..Len(timeline)
                   /\ \A i \in page : i <= Max(page)
    BY <1>1, PageIs
<1>4. page # {} /\ c.end > 0 =>
          \A i \in c.end + 1..Max(page) : c.tag \in timeline[i].tags => i \in page
    BY <1>1, PageIs
<1>5. /\ Matching(c.tag, page) \in Found
      /\ \A f \in Matching(c.tag, page) : f[1] \in page
      /\ \A i \in page : timeline[i].form = "sound" =>
            <<i, timeline[i].tags>> \in Matching(c.tag, page)
    <2>1. page \subseteq 1..Len(timeline)
        BY <1>1, <1>2
    <2> QED
        BY <1>1, <2>1, MatchingIs
<1> HIDE DEF page
<1>6. /\ end = c.end \/ (page # {} /\ end = Max(page))
      /\ end \in Nat /\ c.end <= end /\ end <= Len(timeline)
      /\ page = {} => end = c.end
    BY <1>1, <1>3 DEF EndOf
<1>7. all = c.found \cup Matching(c.tag, page)
    BY DEF Gathered
<1> HIDE DEF end, all
<1>8. all \in Found
    BY <1>1, <1>5, <1>7 DEF Found
<1>9. ASSUME NEW f \in all PROVE c.start < f[1]
    <2>1. CASE f \in c.found
        BY <2>1 DEF FoundUpTo, FoundIn
    <2>2. CASE f \in Matching(c.tag, page)
        <3>1. f[1] \in c.end + 1..Len(timeline)
            BY <1>2, <1>5, <2>2
        <3> QED
            BY <1>1, <3>1
    <2> QED
        BY <1>7, <2>1, <2>2
<1>10. ASSUME c.start > 0, NEW i \in c.start + 1..end, timeline[i].form = "sound",
              c.tag \in timeline[i].kept
       PROVE  \E f \in all : f[1] = i /\ c.tag \in f[2]
    <2>1. CASE i <= c.end
        BY <1>1, <1>7, <1>10, <2>1 DEF FoundUpTo, FoundIn
    <2>2. CASE i > c.end
        <3>1. page # {} /\ end = Max(page) /\ i \in c.end + 1..Max(page) /\ c.end > 0
            BY <1>1, <1>3, <1>6, <1>10, <2>2
        <3>2. i \in 1..Len(timeline)
            BY <1>1, <1>6, <1>10
        <3>3. c.tag \in timeline[i].tags
            BY <1>1, <1>10, <3>2
        <3>4. <<i, timeline[i].tags>> \in all
            BY <1>4, <1>5, <1>7, <1>10, <3>1, <3>3
        <3> QED
            BY <3>3, <3>4
    <2> QED
        BY <1>1, <1>6, <1>10, <2>1, <2>2
<1>11. end \in 0..MaxStatuses
    BY <1>1, <1>6
<1> QED
    BY <1>6, <1>8, <1>9, <1>10, <1>11 DEF page, end, all

LEMMA PagedOn ==
    ASSUME NEW c \in Paging, NEW all, NEW end, NEW short
    PROVE  /\ [c EXCEPT !.pages = @ + 1, !.found = all, !.end = end, !.incomplete = short] =
                 [stage |-> c.stage, tag |-> c.tag, start |-> c.start, end |-> end,
                  pages |-> c.pages + 1, found |-> all, incomplete |-> short]
           /\ [c EXCEPT !.found = all] =
                 [stage |-> c.stage, tag |-> c.tag, start |-> c.start, end |-> c.end,
                  pages |-> c.pages, found |-> all, incomplete |-> c.incomplete]
<1> DEFINE counted == [c EXCEPT !.pages = @ + 1]
           joined == [counted EXCEPT !.found = all]
           moved == [joined EXCEPT !.end = end]
           marked == [moved EXCEPT !.incomplete = short]
<1>1. c = [stage |-> c.stage, tag |-> c.tag, start |-> c.start, end |-> c.end,
           pages |-> c.pages, found |-> c.found, incomplete |-> c.incomplete]
    BY DEF Paging
<1>2. [c EXCEPT !.found = all] =
          [stage |-> c.stage, tag |-> c.tag, start |-> c.start, end |-> c.end,
           pages |-> c.pages, found |-> all, incomplete |-> c.incomplete]
    BY <1>1
<1>3. [c EXCEPT !.pages = @ + 1, !.found = all, !.end = end, !.incomplete = short] = marked
    BY <1>1
<1>4. counted = [stage |-> c.stage, tag |-> c.tag, start |-> c.start, end |-> c.end,
                 pages |-> c.pages + 1, found |-> c.found, incomplete |-> c.incomplete]
    BY <1>1
<1> HIDE DEF counted
<1>5. joined = [stage |-> c.stage, tag |-> c.tag, start |-> c.start, end |-> c.end,
                pages |-> c.pages + 1, found |-> all, incomplete |-> c.incomplete]
    BY <1>4
<1> HIDE DEF joined
<1>6. moved = [stage |-> c.stage, tag |-> c.tag, start |-> c.start, end |-> end,
               pages |-> c.pages + 1, found |-> all, incomplete |-> c.incomplete]
    BY <1>5
<1> HIDE DEF moved
<1>7. marked = [stage |-> c.stage, tag |-> c.tag, start |-> c.start, end |-> end,
                pages |-> c.pages + 1, found |-> all, incomplete |-> short]
    BY <1>6
<1> HIDE DEF marked
<1> QED
    BY <1>2, <1>3, <1>7

\* What a page leaves a slice with, in progress or at its end.
LEMMA PageRecord ==
    ASSUME MastodonAssumption, MastodonTypes, Instance, ReadingsAreWhole,
           NEW w \in MastodonWorkers, MastodonPage(w)
    PROVE  LET c == reading[w]
               d == reading'[w]
           IN  /\ d \in Paging \cup Completed /\ d.stage \in {"paging", "collected"}
               /\ d.tag = c.tag /\ d.start = c.start /\ FoundUpTo(d)
               /\ d.stage = "paging" => d.pages # 0
               /\ d.stage = "collected" /\ ~d.seen => d.end = d.start
               /\ reading' = [reading EXCEPT ![w] = d]
<1> DEFINE c == reading[w]
           page == PageAfter(c.tag, c.end)
<1>1. c \in Paging /\ c.stage = "paging" /\ FoundUpTo(c) /\ (c.pages = 0 => c.end = c.start)
    BY Reading, ReadingIs DEF MastodonPage, ReadingsAreWhole
<1>2. PICK link \in BOOLEAN, reset \in Resets :
          LET on == /\ page # {} /\ (link \/ NamesAll(page))
                    /\ reset = 0 /\ c.pages + 1 < MaxPages
              end == EndOf(page, link, c.end)
              short == Incomplete(c, page, link, reset > 0)
              all == Gathered(c, page)
          IN  reading' = [reading EXCEPT ![w] =
                 IF on THEN [c EXCEPT !.pages = @ + 1, !.found = all, !.end = end,
                                      !.incomplete = short]
                 ELSE Completion([c EXCEPT !.found = all], page, end, short, reset)]
    BY DEF MastodonPage
<1> DEFINE end == EndOf(page, link, c.end)
           all == Gathered(c, page)
           short == Incomplete(c, page, link, reset > 0)
           on == /\ page # {} /\ (link \/ NamesAll(page))
                 /\ reset = 0 /\ c.pages + 1 < MaxPages
           more == [c EXCEPT !.pages = @ + 1, !.found = all, !.end = end, !.incomplete = short]
           done == Completion([c EXCEPT !.found = all], page, end, short, reset)
<1>3. reading' = [reading EXCEPT ![w] = IF on THEN more ELSE done]
    BY <1>2
<1>4. /\ end \in 0..MaxStatuses /\ c.end <= end /\ end <= Len(timeline)
      /\ page = {} => end = c.end
      /\ all \in Found /\ \A f \in all : c.start < f[1]
      /\ c.start > 0 =>
            \A i \in c.start + 1..end :
                timeline[i].form = "sound" /\ c.tag \in timeline[i].kept
                    => \E f \in all : f[1] = i /\ c.tag \in f[2]
    BY <1>1, PageExtends
<1>5. reset \in Reset
    BY DEF Resets, Retries, Reset, MastodonTypes, MastodonTypeOK, MastodonAssumption
<1>6. short \in BOOLEAN
    BY <1>1 DEF Incomplete, Paging
<1> HIDE DEF end, all, short, on, page, c
<1>7. /\ c.tag \in Tags /\ c.start \in 0..MaxStatuses /\ c.pages \in Nat
      /\ c.end \in 0..MaxStatuses /\ c.start <= c.end
    BY <1>1 DEF Paging, FoundUpTo, FoundIn
<1>8. /\ more = [stage |-> c.stage, tag |-> c.tag, start |-> c.start, end |-> end,
                 pages |-> c.pages + 1, found |-> all, incomplete |-> short]
      /\ done = [stage |-> "collected", tag |-> c.tag, start |-> c.start, end |-> end,
                 seen |-> c.pages > 0 \/ page # {}, found |-> all, incomplete |-> short,
                 reset |-> reset]
    <2>1. more = [stage |-> c.stage, tag |-> c.tag, start |-> c.start, end |-> end,
                  pages |-> c.pages + 1, found |-> all, incomplete |-> short]
        BY <1>1, PagedOn
    <2>2. [c EXCEPT !.found = all] =
              [stage |-> c.stage, tag |-> c.tag, start |-> c.start, end |-> c.end,
               pages |-> c.pages, found |-> all, incomplete |-> c.incomplete]
        BY <1>1, PagedOn
    <2> QED
        BY <2>1, <2>2 DEF Completion
<1> HIDE DEF more, done
<1>9. more \in Paging /\ done \in Completed
    BY <1>1, <1>4, <1>5, <1>6, <1>7, <1>8 DEF Paging, Completed
<1>10. c.start <= end
    BY <1>4, <1>7 DEF MastodonAssumption
<1>11. FoundUpTo(more) /\ FoundUpTo(done)
    BY <1>4, <1>8, <1>10 DEF FoundUpTo, FoundIn
<1>12. ~done.seen => done.end = done.start
    <2>1. CASE c.pages > 0 \/ page # {}
        <3>1. done.seen = TRUE
            BY <1>8, <2>1
        <3> QED
            BY <3>1
    <2>2. CASE c.pages = 0 /\ page = {}
        BY <1>1, <1>4, <1>8, <2>2
    <2> QED
        BY <1>7, <2>1, <2>2
<1>13. more.pages # 0
    BY <1>7, <1>8
<1>14. reading'[w] = IF on THEN more ELSE done
    BY <1>3 DEF MastodonTypes
<1>15. reading' = [reading EXCEPT ![w] = reading'[w]]
    BY <1>3, <1>14
<1>16. /\ more.stage = "paging" /\ more.tag = c.tag /\ more.start = c.start
       /\ done.stage = "collected" /\ done.tag = c.tag /\ done.start = c.start
    BY <1>1, <1>8
<1>17. CASE on
    BY <1>9, <1>11, <1>13, <1>14, <1>15, <1>16, <1>17 DEF c
<1>18. CASE ~on
    BY <1>9, <1>11, <1>12, <1>14, <1>15, <1>16, <1>18 DEF c
<1> QED
    BY <1>17, <1>18

LEMMA PreflightRecord ==
    ASSUME MastodonAssumption, MastodonTypes, ReadingsAreWhole,
           NEW w \in MastodonWorkers, MastodonPreflight(w)
    PROVE  LET c == reading[w]
               d == reading'[w]
           IN  /\ d \in Paging \cup Completed /\ d.stage \in {"paging", "collected"}
               /\ d.tag = c.tag /\ d.start = c.start /\ FoundUpTo(d)
               /\ d.stage = "paging" /\ d.pages = 0 => d.end = d.start
               /\ d.stage = "collected" /\ ~d.seen => d.end = d.start
               /\ reading' = [reading EXCEPT ![w] = d]
<1> DEFINE c == reading[w]
           more == [c EXCEPT !.stage = "paging"]
           done(until) == Completion(c, {}, c.end, TRUE, until)
<1>1. /\ c \in Paging /\ FoundUpTo(c) /\ (c.pages = 0 => c.end = c.start)
      /\ reading \in [MastodonWorkers -> ReadingRecord \cup {Waiting}]
    BY Reading, ReadingIs DEF MastodonPreflight, ReadingsAreWhole, MastodonTypes
<1>2. \/ reading' = [reading EXCEPT ![w] = more]
      \/ \E until \in Retries : reading' = [reading EXCEPT ![w] = done(until)]
    BY DEF MastodonPreflight
<1>3. CASE reading' = [reading EXCEPT ![w] = more]
    <2>1. /\ more \in Paging /\ more.stage = "paging" /\ more.tag = c.tag
          /\ more.start = c.start /\ more.end = c.end /\ more.found = c.found
          /\ more.pages = c.pages
        BY <1>1 DEF Paging
    <2>2. FoundUpTo(more)
        BY <1>1, <2>1 DEF FoundUpTo, FoundIn
    <2>3. reading'[w] = more
        BY <1>1, <1>3
    <2> HIDE DEF more
    <2> QED
        BY <1>1, <1>3, <2>1, <2>2, <2>3
<1>4. ASSUME NEW until \in Retries, reading' = [reading EXCEPT ![w] = done(until)]
      PROVE  LET d == reading'[w]
             IN  /\ d \in Paging \cup Completed /\ d.stage \in {"paging", "collected"}
                 /\ d.tag = c.tag /\ d.start = c.start /\ FoundUpTo(d)
                 /\ d.stage = "paging" /\ d.pages = 0 => d.end = d.start
                 /\ d.stage = "collected" /\ ~d.seen => d.end = d.start
                 /\ reading' = [reading EXCEPT ![w] = d]
    <2> DEFINE end == done(until)
    <2>1. until \in Reset
        BY DEF Retries, Reset, MastodonTypes, MastodonTypeOK, MastodonAssumption
    <2>2. /\ end.stage = "collected" /\ end.tag = c.tag /\ end.start = c.start
          /\ end.end = c.end /\ end.found = c.found /\ end.seen = (c.pages > 0)
        BY DEF Completion
    <2>3. end \in Completed
        BY <1>1, <2>1 DEF Completion, Paging, Completed
    <2>4. FoundUpTo(end)
        BY <1>1, <2>2 DEF FoundUpTo, FoundIn
    <2>5. ~end.seen => end.end = end.start
        <3>1. c.pages \in Nat
            BY <1>1 DEF Paging
        <3>2. CASE c.pages > 0
            <4>1. end.seen = TRUE
                BY <2>2, <3>2
            <4> QED
                BY <4>1
        <3>3. CASE c.pages = 0
            BY <1>1, <2>2, <3>3
        <3>4. c.pages > 0 \/ c.pages = 0
            BY <3>1
        <3> QED
            BY <3>2, <3>3, <3>4
    <2>6. reading'[w] = end /\ reading' = [reading EXCEPT ![w] = end]
        BY <1>1, <1>4
    <2> HIDE DEF end
    <2> QED
        BY <2>2, <2>3, <2>4, <2>5, <2>6
<1> QED
    BY <1>2, <1>3, <1>4

(* Types.                                                                  *)
LEMMA ReadingShape ==
    ASSUME NEW r \in ReadingRecord \cup {Waiting}
    PROVE  \/ r = Waiting
           \/ r \in [stage : {"leased"}, tag : Tags]
           \/ r \in [stage : {"limited"}, tag : Tags, retry : Reset]
           \/ /\ r.stage \in {"begun", "paging", "collected"}
              /\ r.tag \in Tags /\ r.end \in 0..MaxStatuses /\ r.found \in Found
BY DEF ReadingRecord, Paging, Completed

LEMMA TagsFoundIs ==
    ASSUME NEW c, c.found \in Found, NEW i PROVE TagsFound(c, i) \in SUBSET Tags
BY DEF TagsFound, Found

\* A worker that is given a record, and what it then is at.
LEMMA ReadingSet ==
    ASSUME MastodonTypes, NEW w \in MastodonWorkers, NEW d \in ReadingRecord \cup {Waiting},
           reading' = [reading EXCEPT ![w] = d]
    PROVE  /\ reading' \in [MastodonWorkers -> ReadingRecord \cup {Waiting}]
           /\ reading'[w] = d
           /\ \A v \in MastodonWorkers : v # w => reading'[v] = reading[v]
BY DEF MastodonTypes

LEMMA BegunIs ==
    ASSUME MastodonTypes, MastodonAssumption, NEW t \in Tags
    PROVE  [stage |-> "begun", tag |-> t, start |-> last_status_id[t], end |-> last_status_id[t],
            pages |-> 0, found |-> {}, incomplete |-> FALSE] \in Paging
<1>1. last_status_id[t] \in 0..MaxStatuses /\ {} \in Found
    BY DEF MastodonTypes, MastodonTypeOK, Found
<1> QED
    BY <1>1 DEF Paging

LEMMA ReadingTypesNext ==
    ASSUME MastodonAssumption, MastodonTypes, Instance, ReadingsAreWhole, MastodonNext
    PROVE  reading' \in [MastodonWorkers -> ReadingRecord \cup {Waiting}]
<1>1. ASSUME NEW w \in MastodonWorkers, NEW t \in Tags, MastodonClaim(w, t)
      PROVE  reading' \in [MastodonWorkers -> ReadingRecord \cup {Waiting}]
    <2>1. [stage |-> "leased", tag |-> t] \in ReadingRecord
        BY DEF ReadingRecord
    <2> QED
        BY <1>1, <2>1, ReadingSet DEF MastodonClaim
<1>2. ASSUME NEW w \in MastodonWorkers, MastodonBegin(w)
      PROVE  reading' \in [MastodonWorkers -> ReadingRecord \cup {Waiting}]
    <2>1. reading[w].tag \in Tags
        BY <1>2, Reading, ReadingIs DEF MastodonBegin
    <2> DEFINE t == reading[w].tag
               begun == [stage |-> "begun", tag |-> t, start |-> last_status_id[t],
                         end |-> last_status_id[t], pages |-> 0, found |-> {},
                         incomplete |-> FALSE]
    <2>2. begun \in Paging
        BY <2>1, BegunIs
    <2>3. reading' = [reading EXCEPT ![w] = begun]
        BY <1>2 DEF MastodonBegin
    <2> HIDE DEF begun
    <2> QED
        BY <2>2, <2>3, ReadingSet DEF ReadingRecord
<1>3. ASSUME NEW w \in MastodonWorkers, MastodonPreflight(w) \/ MastodonPage(w)
      PROVE  reading' \in [MastodonWorkers -> ReadingRecord \cup {Waiting}]
    <2>1. reading'[w] \in Paging \cup Completed /\ reading' = [reading EXCEPT ![w] = reading'[w]]
        BY <1>3, PreflightRecord, PageRecord
    <2> QED
        BY <2>1, ReadingSet DEF ReadingRecord
<1>4. ASSUME NEW w \in MastodonWorkers, MastodonLimited(w)
      PROVE  reading' \in [MastodonWorkers -> ReadingRecord \cup {Waiting}]
    <2>1. reading[w].tag \in Tags
        BY <1>4, Reading, ReadingIs DEF MastodonLimited
    <2>2. PICK until \in Retries : reading' = [reading EXCEPT ![w] =
              [stage |-> "limited", tag |-> reading[w].tag, retry |-> until]]
        BY <1>4 DEF MastodonLimited
    <2>3. until \in Reset
        BY DEF Retries, Reset, MastodonTypes, MastodonTypeOK, MastodonAssumption
    <2>4. [stage |-> "limited", tag |-> reading[w].tag, retry |-> until] \in ReadingRecord
        BY <2>1, <2>3 DEF ReadingRecord
    <2> QED
        BY <2>2, <2>4, ReadingSet
<1>5. ASSUME NEW w \in MastodonWorkers,
             MastodonDefer(w) \/ MastodonFinalize(w) \/ MastodonRecord(w) \/ MastodonGiveUp(w)
      PROVE  reading' \in [MastodonWorkers -> ReadingRecord \cup {Waiting}]
    <2>1. reading' = [reading EXCEPT ![w] = Waiting]
        BY <1>5 DEF MastodonDefer, MastodonFinalize, MastodonRecord, MastodonGiveUp
    <2> QED
        BY <2>1, ReadingSet
<1>6. CASE UNCHANGED reading
    BY <1>6 DEF MastodonTypes
<1> QED
    BY <1>1, <1>2, <1>3, <1>4, <1>5, <1>6 DEF MastodonNext, LeaseRunsOut, Appear, Edit,
       MastodonTick

LEMMA ReleasedTypes ==
    ASSUME MastodonTypes, NEW t \in Tags, Released(t)
    PROVE  leased' \in [Tags -> MastodonWorkers \cup {NoWorker}] /\ gate' \in Tags \cup {NoTag}
BY DEF MastodonTypes, MastodonTypeOK, Released

\* What a worker other than an idle one knows of its tag.
LEMMA TagIs ==
    ASSUME MastodonTypes, NEW w \in MastodonWorkers, reading[w] # Waiting
    PROVE  reading[w].tag \in Tags /\ reading[w] \in ReadingRecord
BY ReadingIs DEF MastodonTypes

LEMMA BusyIs ==
    ASSUME NEW w, reading[w].stage # "idle" PROVE reading[w] # Waiting
BY DEF Waiting

LEMMA LeaseTypesNext ==
    ASSUME MastodonAssumption, MastodonTypes, MastodonNext
    PROVE  leased' \in [Tags -> MastodonWorkers \cup {NoWorker}] /\ gate' \in Tags \cup {NoTag}
<1>0. leased \in [Tags -> MastodonWorkers \cup {NoWorker}] /\ gate \in Tags \cup {NoTag}
    BY DEF MastodonTypes, MastodonTypeOK
<1>1. ASSUME NEW w \in MastodonWorkers, NEW t \in Tags, MastodonClaim(w, t)
      PROVE  leased' \in [Tags -> MastodonWorkers \cup {NoWorker}] /\ gate' \in Tags \cup {NoTag}
    BY <1>0, <1>1 DEF MastodonClaim
<1>2. ASSUME NEW w \in MastodonWorkers, MastodonBegin(w)
      PROVE  leased' \in [Tags -> MastodonWorkers \cup {NoWorker}] /\ gate' \in Tags \cup {NoTag}
    BY <1>0, <1>2, TagIs, BusyIs DEF MastodonBegin
<1>3. ASSUME NEW w \in MastodonWorkers,
             MastodonDefer(w) \/ MastodonFinalize(w) \/ MastodonRecord(w)
      PROVE  leased' \in [Tags -> MastodonWorkers \cup {NoWorker}] /\ gate' \in Tags \cup {NoTag}
    <2>1. reading[w].tag \in Tags
        BY <1>3, TagIs, BusyIs DEF MastodonDefer, MastodonFinalize, MastodonRecord
    <2>2. Released(reading[w].tag)
        BY <1>3 DEF MastodonDefer, MastodonFinalize, MastodonRecord
    <2> QED
        BY <2>1, <2>2, ReleasedTypes
<1>4. ASSUME NEW w \in MastodonWorkers, MastodonGiveUp(w)
      PROVE  leased' \in [Tags -> MastodonWorkers \cup {NoWorker}] /\ gate' \in Tags \cup {NoTag}
    <2>1. reading[w].tag \in Tags
        BY <1>4, TagIs DEF MastodonGiveUp
    <2>2. Released(reading[w].tag) \/ UNCHANGED <<leased, gate>>
        BY <1>4 DEF MastodonGiveUp
    <2> QED
        BY <1>0, <2>1, <2>2, ReleasedTypes
<1>5. ASSUME NEW t \in Tags, LeaseRunsOut(t)
      PROVE  leased' \in [Tags -> MastodonWorkers \cup {NoWorker}] /\ gate' \in Tags \cup {NoTag}
    BY <1>5, ReleasedTypes DEF LeaseRunsOut
<1>6. CASE UNCHANGED <<leased, gate>>
    BY <1>0, <1>6
<1> QED
    BY <1>1, <1>2, <1>3, <1>4, <1>5, <1>6 DEF MastodonNext, MastodonPreflight, MastodonLimited,
       MastodonPage, Appear, Edit, MastodonTick

\* The rows that only the finalizer writes.
LEMMA StoredTypesNext ==
    ASSUME MastodonAssumption, MastodonTypes, MastodonNext
    PROVE  /\ last_status_id' \in [Tags -> 0..MaxStatuses]
           /\ baseline' \in [Tags -> 0..MaxStatuses]
           /\ observed' \in [Tags -> [Ids -> SUBSET Tags]]
           /\ matched_tags' \in [Ids -> SUBSET Tags]
<1>0. /\ last_status_id \in [Tags -> 0..MaxStatuses]
      /\ baseline \in [Tags -> 0..MaxStatuses]
      /\ observed \in [Tags -> [Ids -> SUBSET Tags]]
      /\ matched_tags \in [Ids -> SUBSET Tags]
    BY DEF MastodonTypes, MastodonTypeOK
<1>1. ASSUME NEW w \in MastodonWorkers, MastodonFinalize(w)
      PROVE  /\ last_status_id' \in [Tags -> 0..MaxStatuses]
             /\ baseline' \in [Tags -> 0..MaxStatuses]
             /\ observed' \in [Tags -> [Ids -> SUBSET Tags]]
             /\ matched_tags' \in [Ids -> SUBSET Tags]
    <2> DEFINE c == reading[w]
    <2>1. c.tag \in Tags /\ c.end \in 0..MaxStatuses /\ c.found \in Found
        BY <1>1, SliceIs DEF MastodonFinalize
    <2>2. \A i \in Ids : TagsFound(c, i) \in SUBSET Tags
        BY <2>1, TagsFoundIs
    <2>3. last_status_id' \in [Tags -> 0..MaxStatuses]
        BY <1>0, <1>1, <2>1 DEF MastodonFinalize
    <2>4. baseline' \in [Tags -> 0..MaxStatuses]
        BY <1>0, <1>1, <2>1 DEF MastodonFinalize
    <2>5. observed' \in [Tags -> [Ids -> SUBSET Tags]]
        <3> DEFINE row == [i \in Ids |-> IF TagsFound(c, i) = {} THEN observed[c.tag][i]
                                         ELSE TagsFound(c, i)]
        <3>1. row \in [Ids -> SUBSET Tags]
            BY <1>0, <2>1, <2>2
        <3>2. observed' = [observed EXCEPT ![c.tag] = row]
            BY <1>1 DEF MastodonFinalize
        <3> HIDE DEF row
        <3> QED
            BY <1>0, <3>1, <3>2
    <2>6. matched_tags' \in [Ids -> SUBSET Tags]
        <3>1. \A i \in Ids : Merged(matched_tags[i], TagsFound(c, i)) \in SUBSET Tags
            BY <1>0, <2>2 DEF Merged
        <3>2. matched_tags' = [i \in Ids |-> IF TagsFound(c, i) = {} THEN matched_tags[i]
                                             ELSE Merged(matched_tags[i], TagsFound(c, i))]
            BY <1>1 DEF MastodonFinalize
        <3> QED
            BY <1>0, <3>1, <3>2
    <2> QED
        BY <2>3, <2>4, <2>5, <2>6
<1>2. CASE UNCHANGED <<last_status_id, baseline, observed, matched_tags>>
    BY <1>0, <1>2
<1> QED
    BY <1>1, <1>2 DEF MastodonNext, MastodonClaim, MastodonBegin, MastodonDefer,
       MastodonPreflight, MastodonLimited, MastodonPage, MastodonRecord, MastodonGiveUp,
       LeaseRunsOut, Appear, Edit, MastodonTick, mastodonRows

LEMMA LaterIs ==
    ASSUME NEW a \in Reset, NEW b \in Reset
    PROVE  Max({a, b}) \in Reset /\ a <= Max({a, b}) /\ b <= Max({a, b})
<1>1. a \in Int /\ b \in Int
    BY DEF Reset
<1> QED
    BY <1>1, GreaterOfTwo

LEMMA ClockTypesNext ==
    ASSUME MastodonAssumption, MastodonTypes, MastodonNext
    PROVE  /\ today' \in 0..MastodonEnd /\ {cooldown', asked'} \subseteq Reset
           /\ available' \in [Tags -> Reset] /\ attempts' \in [Tags -> Nat]
<1>0. /\ today \in 0..MastodonEnd /\ cooldown \in Reset /\ asked \in Reset
      /\ available \in [Tags -> Reset] /\ attempts \in [Tags -> Nat]
      /\ today \in Reset /\ today + 1 \in Reset /\ MastodonEnd \in Nat
    BY DEF MastodonTypes, MastodonTypeOK, MastodonAssumption, Reset
<1>1. ASSUME NEW w \in MastodonWorkers, NEW t \in Tags, MastodonClaim(w, t)
      PROVE  /\ attempts' \in [Tags -> Nat]
             /\ UNCHANGED <<today, cooldown, asked, available>>
    BY <1>0, <1>1 DEF MastodonClaim, mastodonRows
<1>2. ASSUME NEW w \in MastodonWorkers, MastodonDefer(w)
      PROVE  /\ available' \in [Tags -> Reset]
             /\ UNCHANGED <<today, cooldown, asked, attempts>>
    <2>1. Max({cooldown, today + 1}) \in Reset
        BY <1>0, LaterIs
    <2> QED
        BY <1>0, <1>2, <2>1 DEF MastodonDefer, mastodonRows
<1>3. ASSUME NEW w \in MastodonWorkers, MastodonFinalize(w)
      PROVE  cooldown' \in Reset /\ UNCHANGED <<today, available, attempts, asked>>
    <2>1. reading[w].reset \in Reset /\ Max({cooldown, today}) \in Reset
        BY <1>0, <1>3, SliceIs, LaterIs DEF MastodonFinalize
    <2> QED
        BY <1>3, <2>1 DEF MastodonFinalize
<1>4. ASSUME NEW w \in MastodonWorkers, MastodonRecord(w)
      PROVE  /\ cooldown' \in Reset /\ asked' \in Reset /\ available' \in [Tags -> Reset]
             /\ UNCHANGED <<today, attempts>>
    <2>1. reading[w].retry \in Reset
        BY <1>4, Reading, ReadingIs DEF MastodonRecord
    <2>2. Max({cooldown, reading[w].retry}) \in Reset /\ Max({asked, reading[w].retry}) \in Reset
        BY <1>0, <2>1, LaterIs
    <2> QED
        BY <1>0, <1>4, <2>1, <2>2 DEF MastodonRecord
<1>5. ASSUME MastodonTick
      PROVE  today' \in 0..MastodonEnd /\ UNCHANGED <<cooldown, asked, available, attempts>>
    BY <1>0, <1>5 DEF MastodonTick, mastodonRows
<1>6. CASE UNCHANGED <<today, cooldown, asked, available, attempts>>
    BY <1>0, <1>6
<1> QED
    BY <1>0, <1>1, <1>2, <1>3, <1>4, <1>5, <1>6 DEF MastodonNext, MastodonBegin,
       MastodonPreflight, MastodonLimited, MastodonPage, MastodonGiveUp, LeaseRunsOut, Appear,
       Edit, mastodonRows

LEMMA MastodonTypesNext ==
    ASSUME MastodonAssumption, MastodonTypes, Instance, ReadingsAreWhole, MastodonNext
    PROVE  MastodonTypes'
<1>1. reading' \in [MastodonWorkers -> ReadingRecord \cup {Waiting}]
    BY ReadingTypesNext
<1>2. \A w \in MastodonWorkers :
          \/ reading'[w] = Waiting
          \/ reading'[w] \in [stage : {"leased"}, tag : Tags]
          \/ reading'[w] \in [stage : {"limited"}, tag : Tags, retry : Reset]
          \/ /\ reading'[w].stage \in {"begun", "paging", "collected"}
             /\ reading'[w].tag \in Tags /\ reading'[w].end \in 0..MaxStatuses
             /\ reading'[w].found \in Found
    BY <1>1, ReadingShape
<1>3. timeline' \in Seq(Shown)
    BY TimelineGrowsNext DEF TimelineGrows
<1>4. leased' \in [Tags -> MastodonWorkers \cup {NoWorker}] /\ gate' \in Tags \cup {NoTag}
    BY LeaseTypesNext
<1> QED
    BY <1>1, <1>2, <1>3, <1>4, StoredTypesNext, ClockTypesNext DEF MastodonTypes, MastodonTypeOK

LEMMA InstanceNext ==
    ASSUME MastodonAssumption, MastodonTypes, Instance, ReadingsAreWhole, MastodonNext
    PROVE  Instance'
<1>1. TimelineGrows
    BY TimelineGrowsNext
<1>2. /\ Len(timeline) \in Nat /\ Len(timeline') \in Nat
      /\ last_status_id \in [Tags -> 0..MaxStatuses]
    BY <1>1 DEF MastodonTypes, MastodonTypeOK, TimelineGrows
<1>3. ASSUME NEW t \in Tags PROVE last_status_id'[t] <= Len(timeline')
    <2>1. ASSUME NEW w \in MastodonWorkers, MastodonFinalize(w)
          PROVE  last_status_id'[t] <= Len(timeline)
        <3>1. reading[w].end \in Nat /\ reading[w].tag \in Tags /\ reading[w].end <= Len(timeline)
            BY <2>1, SliceIs DEF MastodonFinalize, ReadingsAreWhole, FoundUpTo, FoundIn
        <3> QED
            BY <1>2, <2>1, <3>1 DEF MastodonFinalize, Instance
    <2>2. ASSUME UNCHANGED last_status_id PROVE last_status_id'[t] <= Len(timeline)
        BY <2>2 DEF Instance
    <2>3. last_status_id'[t] <= Len(timeline)
        BY <2>1, <2>2 DEF MastodonNext, MastodonClaim, MastodonBegin,
           MastodonDefer, MastodonPreflight, MastodonLimited, MastodonPage, MastodonRecord,
           MastodonGiveUp, LeaseRunsOut, Appear, Edit, MastodonTick, mastodonRows
    <2>4. last_status_id'[t] \in Int
        BY StoredTypesNext
    <2> QED
        BY <1>1, <1>2, <2>3, <2>4 DEF TimelineGrows
<1> QED
    BY <1>1, <1>3 DEF TimelineGrows, Instance

(* The gate is granted in the cool, and kept while nothing warms it up.    *)
LEMMA CooledNext ==
    ASSUME MastodonAssumption, MastodonTypes, Cooled, MastodonNext PROVE Cooled'
<1>0. /\ today \in Nat /\ cooldown \in Reset /\ asked \in Reset /\ today \in Reset
      /\ asked <= cooldown /\ Reset \subseteq Nat /\ NoTag \notin Tags
    BY DEF MastodonTypes, MastodonTypeOK, MastodonAssumption, Reset, Cooled
<1>1. ASSUME NEW w \in MastodonWorkers, MastodonFinalize(w) PROVE Cooled'
    <2>1. reading[w].tag \in Tags /\ reading[w].reset \in Nat
        BY <1>0, <1>1, SliceIs DEF MastodonFinalize
    <2>2. gate' = NoTag /\ cooldown <= today /\ asked' = asked
        BY <1>0, <1>1, <2>1 DEF MastodonFinalize, Fenced_, Released, Cooled
    <2>3. reading[w].reset > 0 => reading[w].reset > today
        BY <1>1 DEF MastodonFinalize, Acceptable
    <2>4. /\ Max({cooldown, today}) \in Nat
          /\ cooldown' = IF reading[w].reset > 0 THEN reading[w].reset ELSE Max({cooldown, today})
        BY <1>0, <1>1, LaterIs DEF MastodonFinalize
    <2>5. cooldown <= cooldown'
        BY <1>0, <2>1, <2>2, <2>3, <2>4, LaterIs
    <2>6. cooldown' \in Nat
        BY <2>1, <2>4
    <2> QED
        BY <1>0, <2>2, <2>5, <2>6 DEF Cooled
<1>2. ASSUME NEW w \in MastodonWorkers, MastodonRecord(w) PROVE Cooled'
    <2>1. reading[w].retry \in Reset /\ reading[w].tag \in Tags
        BY <1>2, Reading, ReadingIs DEF MastodonRecord
    <2>2. gate' = NoTag
        BY <1>2 DEF MastodonRecord, Fenced_, Released
    <2>3. cooldown' = Max({cooldown, reading[w].retry}) /\ asked' = Max({asked, reading[w].retry})
        BY <1>2 DEF MastodonRecord
    <2>4. cooldown <= cooldown' /\ reading[w].retry <= cooldown' /\ cooldown' \in Nat
        BY <1>0, <2>1, <2>3, LaterIs
    <2>5. asked' \in {asked, reading[w].retry}
        <3>1. asked \in Int /\ reading[w].retry \in Int
            BY <1>0, <2>1 DEF Reset
        <3>2. Max({asked, reading[w].retry}) \in {asked, reading[w].retry}
            BY <3>1, GreaterOfTwo
        <3> QED
            BY <2>3, <3>2
    <2> QED
        BY <1>0, <2>1, <2>2, <2>4, <2>5 DEF Cooled
<1>3. ASSUME NEW w \in MastodonWorkers, MastodonBegin(w) PROVE Cooled'
    BY <1>0, <1>3 DEF MastodonBegin, Grantable, mastodonRows, Cooled
<1>4. CASE UNCHANGED <<cooldown, asked>> /\ today' \in {today, today + 1} /\ gate' \in {gate, NoTag}
    BY <1>0, <1>4 DEF Cooled
<1> QED
    BY <1>1, <1>2, <1>3, <1>4 DEF MastodonNext, MastodonClaim, MastodonDefer,
       MastodonPreflight, MastodonLimited, MastodonPage, MastodonGiveUp, LeaseRunsOut, Released,
       Appear, Edit, MastodonTick, mastodonRows

(* What a slice has found stays what there is to find.                     *)
LEMMA FoundStays ==
    ASSUME TimelineGrows, Len(timeline) \in Nat, NEW c, c.start \in Nat, c.end \in Nat,
           FoundUpTo(c)
    PROVE  FoundIn(c, timeline')
<1>1. c.end <= Len(timeline) /\ Len(timeline) <= Len(timeline') /\ Len(timeline') \in Nat
    BY DEF TimelineGrows, FoundUpTo, FoundIn
<1>2. ASSUME c.start > 0, NEW i \in c.start + 1..c.end, timeline'[i].form = "sound",
             c.tag \in timeline'[i].kept
      PROVE  \E f \in c.found : f[1] = i /\ c.tag \in f[2]
    <2>1. i \in 1..Len(timeline)
        BY <1>1, <1>2
    <2>2. timeline[i].form = "sound" /\ c.tag \in timeline[i].kept
        BY <1>2, <2>1 DEF TimelineGrows
    <2> QED
        BY <1>2, <2>2 DEF FoundUpTo, FoundIn
<1> QED
    BY <1>1, <1>2 DEF FoundUpTo, FoundIn

\* Only a claim takes a lease, and only its holder moves the cursor of a tag.
LEMMA LeasesOnlyEnd ==
    ASSUME MastodonAssumption, MastodonTypes, MastodonNext, NEW v \in MastodonWorkers,
           NEW t \in Tags, leased'[t] = v, reading[v] # Waiting, reading'[v] = reading[v]
    PROVE  leased[t] = v /\ last_status_id'[t] = last_status_id[t]
<1>0. /\ leased \in [Tags -> MastodonWorkers \cup {NoWorker}] /\ NoWorker \notin MastodonWorkers
      /\ last_status_id \in [Tags -> 0..MaxStatuses]
    BY DEF MastodonTypes, MastodonTypeOK, MastodonAssumption
<1>1. ASSUME NEW w \in MastodonWorkers, NEW u \in Tags, MastodonClaim(w, u)
      PROVE  leased[t] = v /\ last_status_id'[t] = last_status_id[t]
    <2>1. v # w
        BY <1>1 DEF MastodonClaim
    <2> QED
        BY <1>0, <1>1, <2>1 DEF MastodonClaim, mastodonRows
<1>2. ASSUME NEW w \in MastodonWorkers, MastodonFinalize(w)
      PROVE  leased[t] = v /\ last_status_id'[t] = last_status_id[t]
    <2>1. reading[w].tag \in Tags
        BY <1>2, SliceIs DEF MastodonFinalize
    <2>2. leased'[reading[w].tag] = NoWorker
        BY <1>0, <1>2, <2>1 DEF MastodonFinalize, Released
    <2>3. t # reading[w].tag
        BY <1>0, <2>2
    <2> QED
        BY <1>0, <1>2, <2>1, <2>3 DEF MastodonFinalize, Released
<1>3. ASSUME NEW u, Released(u) PROVE leased[t] = v
    BY <1>0, <1>3 DEF Released
<1>4. CASE UNCHANGED last_status_id /\ (UNCHANGED leased \/ \E u \in Tags : Released(u))
    BY <1>3, <1>4
<1>5. ASSUME NEW w \in MastodonWorkers,
             MastodonDefer(w) \/ MastodonRecord(w) \/ MastodonGiveUp(w)
      PROVE  leased[t] = v /\ last_status_id'[t] = last_status_id[t]
    BY <1>3, <1>5 DEF MastodonDefer, MastodonRecord, MastodonGiveUp, mastodonRows
<1> QED
    BY <1>1, <1>2, <1>4, <1>5 DEF MastodonNext, MastodonBegin, MastodonPreflight,
       MastodonLimited, MastodonPage, LeaseRunsOut, Appear, Edit, MastodonTick, mastodonRows

\* A slice of a worker whose record a step leaves as it is.
LEMMA ReadingStays ==
    ASSUME MastodonAssumption, MastodonTypes, ReadingsAreWhole, MastodonNext, TimelineGrows,
           NEW v \in MastodonWorkers, reading'[v] = reading[v],
           reading[v].stage \in {"begun", "paging", "collected"}
    PROVE  LET c == reading'[v]
           IN  /\ FoundIn(c, timeline')
               /\ Holding(v)' => c.start = last_status_id'[c.tag]
               /\ c.stage # "collected" /\ c.pages = 0 => c.end = c.start
               /\ c.stage = "collected" /\ ~c.seen => c.end = c.start
<1>1. PICK c : c = reading[v]
    OBVIOUS
<1>2. c.tag \in Tags /\ c.start \in Nat /\ c.end \in Nat /\ Len(timeline) \in Nat
    BY <1>1, SliceIs DEF MastodonTypes, MastodonTypeOK
<1>3. /\ FoundUpTo(c)
      /\ c.stage # "collected" /\ c.pages = 0 => c.end = c.start
      /\ c.stage = "collected" /\ ~c.seen => c.end = c.start
    BY <1>1 DEF ReadingsAreWhole
<1>4. FoundIn(c, timeline')
    BY <1>2, <1>3, FoundStays
<1>5. reading'[v] = c
    BY <1>1
<1>6. ASSUME Holding(v)' PROVE c.start = last_status_id'[c.tag]
    <2>1. leased'[c.tag] = v
        BY <1>5, <1>6 DEF Holding
    <2>2. leased[c.tag] = v /\ last_status_id'[c.tag] = last_status_id[c.tag]
        BY <1>1, <1>2, <2>1, LeasesOnlyEnd, BusyIs
    <2> QED
        BY <1>1, <2>2 DEF ReadingsAreWhole, Holding
<1>7. FoundIn(reading'[v], timeline')
    BY <1>4, <1>5
<1> QED
    BY <1>3, <1>5, <1>6, <1>7

LEMMA ReadingsAreWholeNext ==
    ASSUME MastodonAssumption, MastodonTypes, Instance, ReadingsAreWhole, MastodonNext
    PROVE  ReadingsAreWhole'
<1>0. /\ TimelineGrows /\ reading' \in [MastodonWorkers -> ReadingRecord \cup {Waiting}]
      /\ reading \in [MastodonWorkers -> ReadingRecord \cup {Waiting}]
      /\ Len(timeline) \in Nat
    BY TimelineGrowsNext, ReadingTypesNext DEF MastodonTypes, MastodonTypeOK
<1> SUFFICES ASSUME NEW v \in MastodonWorkers,
                    reading'[v].stage \in {"begun", "paging", "collected"}
             PROVE  LET c == reading'[v]
                    IN  /\ FoundIn(c, timeline')
                        /\ Holding(v)' => c.start = last_status_id'[c.tag]
                        /\ c.stage # "collected" /\ c.pages = 0 => c.end = c.start
                        /\ c.stage = "collected" /\ ~c.seen => c.end = c.start
    BY DEF ReadingsAreWhole, FoundUpTo
<1>1. CASE reading'[v] = reading[v]
    <2>1. reading[v].stage \in {"begun", "paging", "collected"}
        BY <1>1
    <2> QED
        BY <1>0, <1>1, <2>1, ReadingStays
<1>2. ASSUME MastodonBegin(v)
      PROVE  LET c == reading'[v]
             IN  /\ FoundIn(c, timeline')
                 /\ Holding(v)' => c.start = last_status_id'[c.tag]
                 /\ c.stage # "collected" /\ c.pages = 0 => c.end = c.start
                 /\ c.stage = "collected" /\ ~c.seen => c.end = c.start
    <2>1. PICK t : t = reading[v].tag
        OBVIOUS
    <2>2. t \in Tags /\ last_status_id[t] \in Nat /\ last_status_id[t] <= Len(timeline)
        BY <1>2, <2>1, TagIs, BusyIs DEF MastodonBegin, MastodonTypes, MastodonTypeOK, Instance
    <2>3. UNCHANGED <<timeline, last_status_id>>
        BY <1>2 DEF MastodonBegin, mastodonRows
    <2>4. reading'[v] = [stage |-> "begun", tag |-> t, start |-> last_status_id[t],
                         end |-> last_status_id[t], pages |-> 0, found |-> {},
                         incomplete |-> FALSE]
        BY <1>0, <1>2, <2>1 DEF MastodonBegin
    <2>5. PICK c : c = reading'[v]
        OBVIOUS
    <2>6. /\ c.stage = "begun" /\ c.tag = t /\ c.start = last_status_id[t]
          /\ c.end = last_status_id[t] /\ c.found = {}
        BY <2>4, <2>5
    <2>7. FoundIn(c, timeline')
        BY <1>0, <2>2, <2>3, <2>6 DEF FoundUpTo, FoundIn
    <2>8. FoundIn(reading'[v], timeline')
        BY <2>5, <2>7
    <2> QED
        BY <2>3, <2>5, <2>6, <2>8
<1>3. ASSUME MastodonPreflight(v) \/ MastodonPage(v)
      PROVE  LET c == reading'[v]
             IN  /\ FoundIn(c, timeline')
                 /\ Holding(v)' => c.start = last_status_id'[c.tag]
                 /\ c.stage # "collected" /\ c.pages = 0 => c.end = c.start
                 /\ c.stage = "collected" /\ ~c.seen => c.end = c.start
    <2>1. PICK c : c = reading'[v]
        OBVIOUS
    <2>2. /\ c.tag = reading[v].tag /\ c.start = reading[v].start /\ FoundUpTo(c)
          /\ c.stage # "collected" /\ c.pages = 0 => c.end = c.start
          /\ c.stage = "collected" /\ ~c.seen => c.end = c.start
        BY <1>3, <2>1, PreflightRecord, PageRecord
    <2>3. UNCHANGED <<timeline, last_status_id, leased>>
        BY <1>3 DEF MastodonPreflight, MastodonPage, mastodonRows
    <2>4. reading[v].stage \in {"begun", "paging"}
        BY <1>3 DEF MastodonPreflight, MastodonPage
    <2>5. Holding(v) => c.start = last_status_id[c.tag]
        BY <2>2, <2>4 DEF ReadingsAreWhole
    <2>6. Holding(v)' => Holding(v)
        BY <2>1, <2>2, <2>3 DEF Holding
    <2>7. FoundIn(c, timeline')
        BY <2>2, <2>3 DEF FoundUpTo, FoundIn
    <2>8. FoundIn(reading'[v], timeline')
        BY <2>1, <2>7
    <2> QED
        BY <2>1, <2>2, <2>3, <2>5, <2>6, <2>8
<1>4. ASSUME NEW w \in MastodonWorkers,
             \/ \E t \in Tags : MastodonClaim(w, t)
             \/ MastodonDefer(w) \/ MastodonLimited(w) \/ MastodonFinalize(w)
             \/ MastodonRecord(w) \/ MastodonGiveUp(w)
      PROVE  reading'[v] = reading[v]
    <2>1. reading'[w].stage \notin {"begun", "paging", "collected"}
        BY <1>0, <1>4, WaitingIs DEF MastodonClaim, MastodonDefer, MastodonLimited,
           MastodonFinalize, MastodonRecord, MastodonGiveUp
    <2>2. w # v
        BY <2>1
    <2> QED
        BY <1>0, <1>4, <2>2 DEF MastodonClaim, MastodonDefer, MastodonLimited,
           MastodonFinalize, MastodonRecord, MastodonGiveUp
<1>5. ASSUME NEW w \in MastodonWorkers, w # v, MastodonBegin(w)
      PROVE  reading'[v] = reading[v]
    BY <1>0, <1>5 DEF MastodonBegin
<1>6. ASSUME NEW w \in MastodonWorkers, w # v, MastodonPreflight(w) \/ MastodonPage(w)
      PROVE  reading'[v] = reading[v]
    <2>1. reading' = [reading EXCEPT ![w] = reading'[w]]
        BY <1>6, PreflightRecord, PageRecord
    <2> QED
        BY <1>0, <1>6, <2>1
<1>7. ASSUME UNCHANGED reading PROVE reading'[v] = reading[v]
    BY <1>7
<1> QED
    BY <1>1, <1>2, <1>3, <1>4, <1>5, <1>6, <1>7 DEF MastodonNext, LeaseRunsOut, Appear, Edit,
       MastodonTick

\* What the finalizer finds when it accepts the slice of the gate's owner.
LEMMA AcceptedSlice ==
    ASSUME MastodonAssumption, MastodonTypes, Instance, ReadingsAreWhole,
           NEW w \in MastodonWorkers, MastodonFinalize(w)
    PROVE  LET c == reading[w]
           IN  /\ c.tag \in Tags /\ c.start \in Nat /\ c.end \in 0..MaxStatuses
               /\ c.found \in Found /\ c.start = last_status_id[c.tag] /\ FoundUpTo(c)
               /\ \A f \in c.found : observed[c.tag][f[1]] \in {{}, f[2]}
               /\ last_status_id' = [last_status_id EXCEPT ![c.tag] = c.end]
               /\ baseline' = IF c.start = 0 /\ c.end > 0
                              THEN [baseline EXCEPT ![c.tag] = c.end] ELSE baseline
               /\ timeline' = timeline
               /\ \A t \in Tags : t # c.tag => observed'[t] = observed[t]
               /\ \A i \in Ids :
                     observed'[c.tag][i] = IF TagsFound(c, i) = {} THEN observed[c.tag][i]
                                           ELSE TagsFound(c, i)
               /\ \A i \in Ids :
                     matched_tags'[i] = IF TagsFound(c, i) = {} THEN matched_tags[i]
                                        ELSE matched_tags[i] \cup TagsFound(c, i)
<1>1. /\ reading[w].tag \in Tags /\ reading[w].start \in Nat /\ reading[w].end \in 0..MaxStatuses
      /\ reading[w].found \in Found /\ FoundUpTo(reading[w])
    BY SliceIs DEF MastodonFinalize, ReadingsAreWhole
<1>2. /\ reading[w].start = last_status_id[reading[w].tag]
      /\ \A f \in reading[w].found : observed[reading[w].tag][f[1]] \in {{}, f[2]}
    BY DEF MastodonFinalize, Acceptable
<1>3. /\ last_status_id' = [last_status_id EXCEPT ![reading[w].tag] = reading[w].end]
      /\ baseline' = IF reading[w].start = 0 /\ reading[w].end > 0
                     THEN [baseline EXCEPT ![reading[w].tag] = reading[w].end] ELSE baseline
      /\ timeline' = timeline
    BY DEF MastodonFinalize
<1>4. observed \in [Tags -> [Ids -> SUBSET Tags]]
    BY DEF MastodonTypes, MastodonTypeOK
<1>5. observed' = [observed EXCEPT ![reading[w].tag] =
          [i \in Ids |-> IF TagsFound(reading[w], i) = {} THEN observed[reading[w].tag][i]
                         ELSE TagsFound(reading[w], i)]]
    BY DEF MastodonFinalize
<1>6. /\ \A t \in Tags : t # reading[w].tag => observed'[t] = observed[t]
      /\ \A i \in Ids :
            observed'[reading[w].tag][i] =
                IF TagsFound(reading[w], i) = {} THEN observed[reading[w].tag][i]
                ELSE TagsFound(reading[w], i)
    BY <1>1, <1>4, <1>5
<1>7. \A i \in Ids :
          matched_tags'[i] = IF TagsFound(reading[w], i) = {} THEN matched_tags[i]
                             ELSE matched_tags[i] \cup TagsFound(reading[w], i)
    BY DEF MastodonFinalize, Merged
<1> QED
    BY <1>1, <1>2, <1>3, <1>6, <1>7

LEMMA ReadToCursorNext ==
    ASSUME MastodonAssumption, MastodonTypes, Instance, ReadingsAreWhole, ReadToCursor,
           MastodonNext
    PROVE  ReadToCursor'
<1>0. /\ last_status_id \in [Tags -> 0..MaxStatuses] /\ baseline \in [Tags -> 0..MaxStatuses]
      /\ Len(timeline) \in Nat /\ MaxStatuses \in Nat
    BY DEF MastodonTypes, MastodonTypeOK, MastodonAssumption
<1>1. ASSUME NEW w \in MastodonWorkers, MastodonFinalize(w),
             NEW t \in Tags, NEW i \in baseline'[t] + 1..last_status_id'[t],
             timeline'[i].form = "sound", t \in timeline'[i].kept
      PROVE  observed'[t][i] # {}
    <2> DEFINE c == reading[w]
    <2>1. /\ c.tag \in Tags /\ c.start \in Nat /\ c.end \in 0..MaxStatuses
          /\ c.start = last_status_id[c.tag] /\ FoundUpTo(c) /\ timeline' = timeline
          /\ last_status_id' = [last_status_id EXCEPT ![c.tag] = c.end]
          /\ baseline' = IF c.start = 0 /\ c.end > 0
                         THEN [baseline EXCEPT ![c.tag] = c.end] ELSE baseline
          /\ \A u \in Tags : u # c.tag => observed'[u] = observed[u]
          /\ \A k \in Ids :
                observed'[c.tag][k] = IF TagsFound(c, k) = {} THEN observed[c.tag][k]
                                      ELSE TagsFound(c, k)
        BY <1>1, AcceptedSlice
    <2> HIDE DEF c
    <2>2. CASE t # c.tag
        <3>1. baseline'[t] = baseline[t] /\ last_status_id'[t] = last_status_id[t]
            BY <1>0, <2>1, <2>2
        <3> QED
            BY <1>1, <2>1, <2>2, <3>1 DEF ReadToCursor
    <2>3. CASE t = c.tag
        <3>1. last_status_id'[t] = c.end
            BY <1>0, <2>1, <2>3
        <3>2. c.start > 0
            <4>1. ASSUME c.start = 0, c.end > 0 PROVE FALSE
                <5>1. baseline'[t] = c.end
                    BY <1>0, <2>1, <2>3, <4>1
                <5> QED
                    BY <1>1, <2>1, <3>1, <5>1
            <4>2. ASSUME c.start = 0, c.end = 0 PROVE FALSE
                <5>1. baseline'[t] = baseline[t] /\ baseline[t] \in Nat
                    BY <1>0, <2>1, <2>3, <4>2
                <5> QED
                    BY <1>1, <3>1, <4>2, <5>1
            <4> QED
                BY <2>1, <4>1, <4>2
        <3>3. baseline'[t] = baseline[t] /\ baseline[t] \in Nat
            BY <1>0, <2>1, <3>2
        <3>4. i \in baseline[t] + 1..c.end /\ i \in Ids
            BY <1>0, <1>1, <2>1, <3>1, <3>3 DEF Ids
        <3>5. CASE i <= c.start
            <4>1. i \in baseline[t] + 1..last_status_id[t]
                BY <2>1, <2>3, <3>3, <3>4, <3>5
            <4>2. observed[t][i] # {}
                BY <1>1, <2>1, <4>1 DEF ReadToCursor
            <4> QED
                BY <2>1, <2>3, <3>4, <4>2
        <3>6. CASE i > c.start
            <4>1. i \in c.start + 1..c.end
                BY <2>1, <3>3, <3>4, <3>6
            <4>2. \E f \in c.found : f[1] = i /\ c.tag \in f[2]
                BY <1>1, <2>1, <2>3, <3>2, <4>1 DEF FoundUpTo, FoundIn
            <4>3. TagsFound(c, i) # {}
                BY <4>2 DEF TagsFound
            <4> QED
                BY <2>1, <2>3, <3>4, <4>3
        <3> QED
            BY <2>1, <3>3, <3>4, <3>5, <3>6
    <2> QED
        BY <2>2, <2>3
<1>2. ASSUME UNCHANGED <<last_status_id, baseline, observed>>,
             NEW t \in Tags, NEW i \in baseline'[t] + 1..last_status_id'[t],
             timeline'[i].form = "sound", t \in timeline'[i].kept
      PROVE  observed'[t][i] # {}
    <2>1. TimelineGrows
        BY TimelineGrowsNext
    <2>2. last_status_id[t] <= Len(timeline)
        BY DEF Instance
    <2>3. i \in baseline[t] + 1..last_status_id[t] /\ i \in 1..Len(timeline)
        BY <1>0, <1>2, <2>2
    <2>4. timeline[i].form = "sound" /\ t \in timeline[i].kept
        BY <1>2, <2>1, <2>3 DEF TimelineGrows
    <2> QED
        BY <1>2, <2>3, <2>4 DEF ReadToCursor
<1>3. (\E w \in MastodonWorkers : MastodonFinalize(w))
          \/ UNCHANGED <<last_status_id, baseline, observed>>
    BY DEF MastodonNext, MastodonClaim, MastodonBegin, MastodonDefer, MastodonPreflight,
       MastodonLimited, MastodonPage, MastodonRecord, MastodonGiveUp, LeaseRunsOut, Appear,
       Edit, MastodonTick, mastodonRows
<1> QED
    BY <1>1, <1>2, <1>3 DEF ReadToCursor

(* An observation stays as it was first stored, so a candidate only gains. *)
LEMMA CandidateMergesTagsNext ==
    ASSUME MastodonAssumption, MastodonTypes, Instance, ReadingsAreWhole, CandidateMergesTags,
           MastodonNext
    PROVE  CandidateMergesTags'
<1>1. ASSUME NEW w \in MastodonWorkers, MastodonFinalize(w), NEW i \in Ids
      PROVE  matched_tags'[i] = UNION {observed'[t][i] : t \in Tags}
    <2> DEFINE c == reading[w]
    <2>1. /\ c.tag \in Tags
          /\ \A f \in c.found : observed[c.tag][f[1]] \in {{}, f[2]}
          /\ \A t \in Tags : t # c.tag => observed'[t] = observed[t]
          /\ observed'[c.tag][i] = IF TagsFound(c, i) = {} THEN observed[c.tag][i]
                                   ELSE TagsFound(c, i)
          /\ matched_tags'[i] = IF TagsFound(c, i) = {} THEN matched_tags[i]
                                ELSE matched_tags[i] \cup TagsFound(c, i)
        BY <1>1, AcceptedSlice
    <2>2. matched_tags[i] = UNION {observed[t][i] : t \in Tags}
        BY DEF CandidateMergesTags
    <2>3. TagsFound(c, i) # {} => observed[c.tag][i] \subseteq TagsFound(c, i)
        <3>1. ASSUME NEW x, x \in TagsFound(c, i), NEW y \in observed[c.tag][i]
              PROVE  y \in TagsFound(c, i)
            <4>1. PICK f \in c.found : f[1] = i /\ x \in f[2]
                BY <3>1 DEF TagsFound
            <4>2. observed[c.tag][i] = f[2]
                BY <2>1, <3>1, <4>1
            <4> QED
                BY <3>1, <4>1, <4>2 DEF TagsFound
        <3> QED
            BY <3>1
    <2> HIDE DEF c
    <2>4. CASE TagsFound(c, i) = {}
        <3>1. \A t \in Tags : observed'[t][i] = observed[t][i]
            BY <2>1, <2>4
        <3> QED
            BY <2>1, <2>2, <2>4, <3>1
    <2>5. CASE TagsFound(c, i) # {}
        <3>1. \A x : x \in matched_tags'[i] => \E t \in Tags : x \in observed'[t][i]
            <4>1. ASSUME NEW x, x \in matched_tags[i]
                  PROVE  \E t \in Tags : x \in observed'[t][i]
                BY <2>1, <2>2, <2>3, <2>5, <4>1
            <4>2. ASSUME NEW x, x \in TagsFound(c, i)
                  PROVE  \E t \in Tags : x \in observed'[t][i]
                BY <2>1, <2>5, <4>2
            <4> QED
                BY <2>1, <2>5, <4>1, <4>2
        <3>2. ASSUME NEW t \in Tags, NEW x \in observed'[t][i] PROVE x \in matched_tags'[i]
            <4>1. CASE t = c.tag
                BY <2>1, <2>5, <3>2, <4>1
            <4>2. CASE t # c.tag
                BY <2>1, <2>2, <2>5, <3>2, <4>2
            <4> QED
                BY <4>1, <4>2
        <3> QED
            BY <3>1, <3>2
    <2> QED
        BY <2>4, <2>5
<1>2. (\E w \in MastodonWorkers : MastodonFinalize(w)) \/ UNCHANGED <<observed, matched_tags>>
    BY DEF MastodonNext, MastodonClaim, MastodonBegin, MastodonDefer, MastodonPreflight,
       MastodonLimited, MastodonPage, MastodonRecord, MastodonGiveUp, LeaseRunsOut, Appear,
       Edit, MastodonTick, mastodonRows
<1> QED
    BY <1>1, <1>2 DEF CandidateMergesTags

LEMMA MastodonNextInv ==
    ASSUME MastodonAssumption, MastodonIInv, [MastodonNext]_mastodonVars PROVE MastodonIInv'
<1>1. CASE MastodonNext
    BY <1>1, MastodonTypesNext, InstanceNext, CooledNext, ReadingsAreWholeNext,
       ReadToCursorNext, CandidateMergesTagsNext DEF MastodonIInv
<1>2. CASE UNCHANGED mastodonVars
    <2>1. MastodonTypes' /\ Instance' /\ Cooled'
        BY <1>2 DEF mastodonVars, MastodonIInv, MastodonTypes, MastodonTypeOK, Instance, Cooled
    <2>2. ReadingsAreWhole'
        BY <1>2 DEF mastodonVars, MastodonIInv, ReadingsAreWhole, FoundUpTo, Holding
    <2>3. ReadToCursor'
        BY <1>2 DEF mastodonVars, MastodonIInv, ReadToCursor
    <2>4. CandidateMergesTags'
        BY <1>2 DEF mastodonVars, MastodonIInv, CandidateMergesTags
    <2> QED
        BY <2>1, <2>2, <2>3, <2>4 DEF MastodonIInv
<1> QED
    BY <1>1, <1>2

LEMMA MastodonAlways == MastodonSpec => []MastodonIInv
BY MastodonInitInv, MastodonNextInv, MastodonAssumption, PTL DEF MastodonSpec

LEMMA RefusedForItsIds ==
    ASSUME MastodonAssumption, MastodonTypes, Instance, ReadingsAreWhole
    PROVE  RefusedOnlyForItsIds
<1> SUFFICES ASSUME NEW w \in MastodonWorkers, reading[w].stage = "collected", Fenced_(w),
                    ~Acceptable(reading[w])
             PROVE  \/ reading[w].reset > 0 /\ reading[w].reset <= today
                    \/ reading[w].seen /\ reading[w].end = 0
                    \/ \E i \in reading[w].start + 1..MaxStatuses :
                          observed[reading[w].tag][i] # {}
    BY DEF RefusedOnlyForItsIds
<1>1. PICK c : c = reading[w]
    OBVIOUS
<1>2. /\ c.tag \in Tags /\ c.start \in Nat /\ c.end \in Nat /\ c.found \in Found
      /\ c.seen \in BOOLEAN /\ c.reset \in Nat /\ today \in Nat /\ MaxStatuses \in Nat
    <2>1. /\ c.tag \in Tags /\ c.start \in 0..MaxStatuses /\ c.end \in 0..MaxStatuses
          /\ c.found \in Found /\ c.seen \in BOOLEAN /\ c.reset \in Reset
        BY <1>1, SliceIs
    <2>2. today \in Nat /\ MaxStatuses \in Nat
        BY DEF MastodonTypes, MastodonTypeOK, MastodonAssumption
    <2> QED
        BY <2>1, <2>2 DEF Reset
<1>3. c.start = last_status_id[c.tag] /\ FoundUpTo(c) /\ (~c.seen => c.end = c.start)
    BY <1>1 DEF ReadingsAreWhole, Fenced_
<1>4. ~Acceptable(c)
    BY <1>1
<1>5. CASE ~(c.reset > 0 => c.reset > today)
    BY <1>1, <1>2, <1>5
<1>6. CASE ~(IF c.seen THEN c.end > 0 ELSE c.end = c.start)
    <2>1. CASE c.seen = TRUE
        BY <1>1, <1>2, <1>6, <2>1
    <2>2. CASE c.seen = FALSE
        BY <1>3, <1>6, <2>2
    <2> QED
        BY <1>2, <2>1, <2>2
<1>7. ASSUME NEW f \in c.found, observed[c.tag][f[1]] \notin {{}, f[2]}
      PROVE  \E i \in c.start + 1..MaxStatuses : observed[c.tag][i] # {}
    <2>1. f[1] \in Ids /\ c.start < f[1]
        BY <1>2, <1>3 DEF Found, FoundUpTo, FoundIn
    <2>2. f[1] \in c.start + 1..MaxStatuses
        BY <1>2, <2>1 DEF Ids
    <2> QED
        BY <1>7, <2>2
<1> QED
    BY <1>1, <1>3, <1>4, <1>5, <1>6, <1>7 DEF Acceptable

(* Every state of the Mastodon pipeline has observed, for each tag, the    *)
(* well formed statuses up to its cursor that always had the tag, holds    *)
(* candidates that merge what the tag jobs stored, and refuses the slice   *)
(* of a current lease only for its reset or its ids, whatever number of    *)
(* tags, workers, statuses and pages.                                      *)
THEOREM TagsAreRead == MastodonSpec => []MastodonInv
<1>1. ASSUME MastodonIInv PROVE MastodonInv
    BY <1>1, RefusedForItsIds, MastodonAssumption DEF MastodonIInv, MastodonTypes, MastodonInv
<1> QED
    BY <1>1, MastodonAlways, PTL

(* No tag's job is granted the request gate before the latest instant a    *)
(* 429 asked the worker to wait for.                                       *)
THEOREM CooldownIsKept == MastodonSpec => BackedOff
<1>1. ASSUME MastodonIInv, MastodonNext, gate' # gate, gate' # NoTag PROVE today >= asked
    <2>1. MastodonTypes /\ asked <= cooldown /\ asked \in Int /\ cooldown \in Int /\ today \in Int
        BY <1>1 DEF MastodonIInv, Cooled, MastodonTypes, MastodonTypeOK, Reset
    <2>2. PICK w \in MastodonWorkers : MastodonBegin(w)
        BY <1>1 DEF MastodonNext, MastodonClaim, MastodonDefer, MastodonPreflight,
           MastodonLimited, MastodonPage, MastodonFinalize, MastodonRecord, MastodonGiveUp,
           LeaseRunsOut, Released, Appear, Edit, MastodonTick
    <2> QED
        BY <2>1, <2>2 DEF MastodonBegin, Grantable
<1>2. ASSUME MastodonIInv, [MastodonNext]_mastodonVars
      PROVE  [gate' # gate /\ gate' # NoTag => today >= asked]_mastodonVars
    BY <1>1, <1>2
<1> QED
    BY <1>2, MastodonAlways, PTL DEF MastodonSpec, BackedOff
===============================================================================
