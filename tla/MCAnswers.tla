------------------------------ MODULE MCAnswers ------------------------------
(***************************************************************************)
(* Slots, requests, reviews and model answers, in one run: a behaviour is  *)
(* one part's, and the others stay in their initial states.  (They share   *)
(* nothing but the queue, whose place is taken by what each of them keeps  *)
(* of a job.)                                                              *)
(***************************************************************************)
EXTENDS ScheduleSlots, YouTubeRequest, AuthorizedOpening, EvidencePipeline, AIBudget, TLC

VARIABLE part

scheduleVars == vars

\* The processes of a part: schedulers, workers or callers.
CONSTANTS w1, w2

\* Two overlapping schedulers, an older one that still enqueues, and a
\* source family, over the first minutes of one hour.
CONSTANTS catalog, numbered

MCOrder == <<catalog, numbered>>
Every(minutes) == [minute |-> minutes, hour |-> 0..23, day_of_month |-> 1..31,
                   month |-> 1..12, day_of_week |-> 0..6]
MCCron == [e \in {catalog, numbered} |-> Every({0, 2})]
MCCivil == [m \in 0..LastMinute |->
               [minute |-> m, hour |-> 0, day |-> 1, month |-> 1, weekday |-> 4]]
MCInterval == (catalog :> 0) @@ (numbered :> 2)
MCWindow == (catalog :> 2) @@ (numbered :> 0)
MCCheck == (catalog :> 1) @@ (numbered :> 1)
MCMaxAge == (catalog :> 2) @@ (numbered :> 4)
MCLegacyKeys == {<<catalog, 0>>}
--------------------------------------------------------------------------------
MCItems ==
    {[id |-> "v", whole |-> TRUE, published |-> p] : p \in {"past", "ahead", "early"}}
        \cup {[id |-> "x", whole |-> FALSE, published |-> "past"]}
--------------------------------------------------------------------------------
CONSTANTS k1, k2, submits, reviews, reviews_too, does_both

Offer(k, e, packs, eligible) ==
    [key |-> k, evidence |-> e, source |-> 1, packs |-> packs, hits |-> 1,
     eligible |-> eligible, platform |-> "direct", file |-> "private", json |-> "exact"]
MCEnvelopes == {Offer(k1, 1, 1, TRUE), Offer(k2, 2, 1, TRUE),
                Offer(k1, 2, 2, FALSE), Offer(k1, 4, 0, TRUE)}
MCHeldBy == (submits :> {"submitter"}) @@ (reviews :> {"reviewer"})
              @@ (reviews_too :> {"reviewer"}) @@ (does_both :> {"submitter", "reviewer"})
--------------------------------------------------------------------------------
answerVars == <<scheduleVars, youtubeVars, openingVars, evidenceVars, budgetVars, part>>

AnswerInit ==
    /\ Init /\ YouTubeInit /\ OpeningInit /\ EvidenceInit /\ BudgetInit
    /\ part \in {"schedule", "youtube", "opening", "evidence", "budget"}

AnswerNext ==
    /\ UNCHANGED part
    /\ \/ part = "schedule" /\ Next
            /\ UNCHANGED <<youtubeVars, openingVars, evidenceVars, budgetVars>>
       \/ part = "youtube" /\ YouTubeNext
            /\ UNCHANGED <<scheduleVars, openingVars, evidenceVars, budgetVars>>
       \/ part = "opening" /\ OpeningNext
            /\ UNCHANGED <<scheduleVars, youtubeVars, evidenceVars, budgetVars>>
       \/ part = "evidence" /\ EvidenceNext
            /\ UNCHANGED <<scheduleVars, youtubeVars, openingVars, budgetVars>>
       \/ part = "budget" /\ BudgetNext
            /\ UNCHANGED <<scheduleVars, youtubeVars, openingVars, evidenceVars>>

AnswerSpec == AnswerInit /\ [][AnswerNext]_answerVars

\* A part's processes are interchangeable, and so are the plain reviewers.
AnswerSymmetry == Permutations({w1, w2}) \cup Permutations({reviews, reviews_too})
==============================================================================
