----------------------------- MODULE ReportedVolume -----------------------------
(***************************************************************************)
(* Quantities that public reports claim.  Two manifests feed one table:    *)
(* the research ledger's, with one address per report, and the social      *)
(* one, with the posts whose title or excerpt names a number of packs.  A  *)
(* row is counted as soon as it is imported; a bounded check may upgrade   *)
(* it to verified, and disagreeing facts take it out for good.             *)
(*                                                                         *)
(* Checks run in batches.  The processes of a host share one worker id, so *)
(* the lock of a row says only that some batch is to check it and until    *)
(* when.                                                                   *)
(***************************************************************************)
EXTENDS Integers, Sequences, FiniteSets, FiniteSetsExt, SequencesExt

CONSTANTS
    Reports,      \* reports of the research ledger
    Addresses,    \* their addresses, numbered as they sort
    VideoTimes, Skeets, \* posts, newest first (YouTube, Bluesky)
    Texts,        \* what a post may say
    Packs,        \* what a report may say
    Checkers,     \* check processes
    BatchLimit, ManifestLimit,
    LockFor,      \* 5 minutes
    CheckAttempts,
    VolumeEnd, Manifests    \* bounds: last instant, manifests imported of each kind

Posts == {VideoTimes[n] : n \in DOMAIN VideoTimes} \cup {Skeets[n] : n \in DOMAIN Skeets}

ASSUME VolumeAssumption ==
    /\ \A feed \in {VideoTimes, Skeets} :
          feed \in Seq(Nat) /\ \A i, j \in DOMAIN feed : feed[i] = feed[j] => i = j
    /\ Addresses \subseteq Nat /\ Posts \cap Addresses = {}
    /\ IsFiniteSet(Addresses) /\ IsFiniteSet(Checkers)
    /\ {BatchLimit, ManifestLimit, LockFor, CheckAttempts} \subseteq Nat \ {0}
    /\ VolumeEnd \in Nat /\ Packs \subseteq Nat \ {0}
    /\ Manifests \subseteq [{"ledger", "social"} -> Nat]

VARIABLES
    clock,
    aliases,    \* addresses the ledger knows of a report
    says,       \* packs a report names
    text,       \* what a post says now
    row,        \* the table of candidates
    batch,      \* what a check process still has to check
    reading,    \* its verdict on the first of them
    imports,    \* manifests still to be imported
    offered,    \* history: posts that named a number when the last social manifest was made,
    taken,      \* and those that got into it
    reads       \* history: how often a page was read

volumeVars == <<clock, aliases, says, text, row, batch, reading, imports, offered, taken,
                reads>>

URLs_ == Addresses \cup Posts
NoRow == [state |-> "absent"]

VolumeTypeOK ==
    /\ clock \in 0..VolumeEnd
    /\ \A u \in URLs_ : row[u] # NoRow =>
          /\ row[u].state \in {"reported", "checking", "verified", "conflicting"}
          /\ row[u].attempts \in 0..CheckAttempts
          /\ row[u].until > 0 <=> row[u].state = "checking"
          /\ u \in Posts => row[u].state \in {"reported", "conflicting"}
    /\ \A w \in Checkers : Len(batch[w]) <= BatchLimit
    /\ \A r \in Reports : aliases[r] \subseteq Addresses
    /\ \A w \in Checkers : reading[w] \in {"none", "verified", "retry"}

VolumeInit ==
    /\ clock = 0
    /\ aliases = [r \in Reports |-> {}] /\ says \in [Reports -> Packs]
    /\ text \in [Posts -> Texts]
    /\ row = [u \in URLs_ |-> NoRow]
    /\ batch = [w \in Checkers |-> <<>>] /\ reading = [w \in Checkers |-> "none"]
    /\ imports \in Manifests
    /\ offered = <<{}, {}>> /\ taken = {}
    /\ reads = [u \in URLs_ |-> 0]
-------------------------------------------------------------------------------
\* Bodies with one plausible mistake each; no action uses them.
DueForgets(u) ==
    /\ u \notin Posts /\ row[u] # NoRow
    /\ row[u].state = "reported" \/ (row[u].state = "checking" /\ row[u].until < clock)
-------------------------------------------------------------------------------
\* extract_pack_count: the number next to a word for packs, at most 48
\* characters away; parts of a decimal do not count.
Distance(number, said) == Min({IF number.at > v THEN number.at - v ELSE v - number.at :
                                 v \in said.units})

ExtractPackCount(said) ==
    LET near == {n \in said.numbers : ~n.decimal /\ said.units # {} /\ Distance(n, said) <= 48}
        best == {n \in near : \A m \in near :
                    <<Distance(n, said), n.at>> = <<Distance(m, said), m.at>>
                    \/ Distance(n, said) < Distance(m, said)
                    \/ (Distance(n, said) = Distance(m, said) /\ n.at < m.at)}
    IN  IF ~said.pokemon \/ near = {} THEN 0 ELSE (CHOOSE n \in best : TRUE).value

\* The places of a feed whose posts name a number, and those posts.
Naming(feed) == {n \in DOMAIN feed : ExtractPackCount(text[feed[n]]) > 0}
Offered(feed) == {feed[n] : n \in Naming(feed)}

\* build_manifest: the newest of each source in turn, up to the limit.
Turn(named, n) == Cardinality({m \in named : m <= n})
Fairly(feeds) ==
    LET named(b) == Naming(feeds[b])
        ahead(b, n) ==                    \* posts selected before it
            Turn(named(b), n) - 1 +
            Min({IF b = 1 THEN Turn(named(b), n) - 1 ELSE Turn(named(b), n),
                 Cardinality(named(3 - b))})
    IN  UNION {{feeds[b][n] : n \in {m \in named(b) : ahead(b, m) < ManifestLimit}} :
                 b \in {1, 2}}

\* _candidate: what a row says of a post or of a report; a report is
\* represented by the first of its addresses, and named by all of them.
PostFacts(p) == [group |-> {p}, packs |-> ExtractPackCount(text[p]), precision |-> "title_claim"]
ReportFacts(r) == [group |-> aliases[r], packs |-> says[r], precision |-> "exact_reported"]

SocialManifest == [p \in Fairly(<<VideoTimes, Skeets>>) |-> PostFacts(p)]
LedgerManifest ==
    [a \in {Min(aliases[r]) : r \in {x \in Reports : aliases[x] # {}}} |->
       ReportFacts(CHOOSE r \in Reports : a \in aliases[r])]

\* A row leaves its check, or is never checked again.
RowUnlocked(r, state) == [r EXCEPT !.state = state, !.until = 0]

\* import_global_volume_intake_v1: a new address is a new row; facts that
\* differ from those of the first import are a conflict.
Imported(manifest) ==
    [u \in URLs_ |->
       IF u \notin DOMAIN manifest THEN row[u]
       ELSE IF row[u] = NoRow
       THEN [state |-> "reported", attempts |-> 0, until |-> 0, checked |-> 0, facts |-> manifest[u]]
       ELSE IF row[u].facts = manifest[u] THEN row[u] ELSE RowUnlocked(row[u], "conflicting")]

ImportLedger ==
    /\ imports["ledger"] > 0
    /\ imports' = [imports EXCEPT !["ledger"] = @ - 1]
    /\ row' = Imported(LedgerManifest)
    /\ UNCHANGED <<clock, aliases, says, text, batch, reading, offered, taken, reads>>

\* sync_social_volume
ImportSocial ==
    /\ imports["social"] > 0
    /\ imports' = [imports EXCEPT !["social"] = @ - 1]
    /\ row' = Imported(SocialManifest)
    /\ offered' = <<Offered(VideoTimes), Offered(Skeets)>>
    /\ taken' = DOMAIN SocialManifest
    /\ UNCHANGED <<clock, aliases, says, text, batch, reading, reads>>

\* The research finds another address of a report; a post is edited.  (Both
\* matter only while another manifest is to come.)
FindAddress(r, a) ==
    /\ imports["ledger"] > 0 /\ \A s \in Reports : a \notin aliases[s]
    /\ aliases' = [aliases EXCEPT ![r] = @ \cup {a}]
    /\ UNCHANGED <<clock, says, text, row, batch, reading, imports, offered, taken, reads>>

EditPost(p, said) ==
    /\ text[p] # said /\ imports["social"] > 0
    /\ text' = [text EXCEPT ![p] = said]
    /\ UNCHANGED <<clock, aliases, says, row, batch, reading, imports, offered, taken, reads>>
-------------------------------------------------------------------------------
\* claim_global_volume_candidates_v1 may take a row.
DueForCheck(u) ==
    /\ u \notin Posts /\ row[u] # NoRow /\ row[u].attempts < CheckAttempts
    /\ row[u].state = "reported" \/ (row[u].state = "checking" /\ row[u].until < clock)

\* claim_candidates: a batch is locked as a whole, those checked longest ago
\* first, for five minutes from now.
ClaimBatch(w) ==
    LET due == {u \in URLs_ : DueForCheck(u)}
    IN  /\ batch[w] = <<>> /\ due # {}
        /\ \E S \in kSubset(Min({BatchLimit, Cardinality(due)}), due) :
              /\ \A u \in S, v \in due \ S : row[u].checked <= row[v].checked
              /\ row' = [u \in URLs_ |-> IF u \in S
                            THEN [row[u] EXCEPT !.state = "checking", !.attempts = @ + 1,
                                                !.until = clock + LockFor] ELSE row[u]]
              /\ \E order \in SetToSeqs(S) :
                    /\ \A i, j \in DOMAIN order : i < j => order[i] < order[j]
                    /\ batch' = [batch EXCEPT ![w] = order]
        /\ UNCHANGED <<clock, aliases, says, text, reading, imports, offered, taken, reads>>

\* verify_candidate: robots, then the page; whatever is wrong with either
\* (denied, redirected, not found, another count) is to be tried again.
VerifyCandidate(w) ==
    /\ batch[w] # <<>> /\ reading[w] = "none"
    /\ \E verdict \in {"verified", "retry"} : reading' = [reading EXCEPT ![w] = verdict]
    /\ reads' = [reads EXCEPT ![Head(batch[w])] = @ + 1]
    /\ UNCHANGED <<clock, aliases, says, text, row, batch, imports, offered, taken>>

\* The row is still to be checked by the batch, as far as its lock tells.
Locked(u) == row[u].state = "checking" /\ row[u].until >= clock

\* finalize_candidate: the verdict is recorded and the batch goes on; a lock
\* that ran out raises and ends the process, and with it the batch.
FinalizeCandidate(w) ==
    LET u == Head(batch[w])
    IN  /\ reading[w] # "none"
        /\ reading' = [reading EXCEPT ![w] = "none"]
        /\ IF Locked(u)
           THEN /\ row' = [row EXCEPT ![u] = [RowUnlocked(@,
                             IF reading[w] = "verified" THEN "verified" ELSE "reported")
                             EXCEPT !.checked = clock + 1]]
                /\ batch' = [batch EXCEPT ![w] = Tail(@)]
           ELSE batch' = [batch EXCEPT ![w] = <<>>] /\ UNCHANGED row
        /\ UNCHANGED <<clock, aliases, says, text, imports, offered, taken, reads>>

\* The process ends: its host gives it two minutes, or anything raises.
BatchAborted(w) ==
    /\ batch[w] # <<>>
    /\ batch' = [batch EXCEPT ![w] = <<>>]
    /\ reading' = [reading EXCEPT ![w] = "none"]
    /\ UNCHANGED <<clock, aliases, says, text, row, imports, offered, taken, reads>>

VolumeTick ==
    /\ clock < VolumeEnd
    /\ clock' = clock + 1
    /\ UNCHANGED <<aliases, says, text, row, batch, reading, imports, offered, taken, reads>>

VolumeNext ==
    \/ ImportLedger
    \/ ImportSocial
    \/ \E r \in Reports, a \in Addresses : FindAddress(r, a)
    \/ \E p \in Posts, said \in Texts : EditPost(p, said)
    \/ \E w \in Checkers :
          \/ ClaimBatch(w)
          \/ VerifyCandidate(w)
          \/ FinalizeCandidate(w)
          \/ BatchAborted(w)
    \/ VolumeTick

VolumeSpec == VolumeInit /\ [][VolumeNext]_volumeVars
-------------------------------------------------------------------------------

(* A page is read no more often than it may be tried, whatever batches     *)
(* overlap, run out of time or die; the page of a post is never read.      *)
ReadsAreBounded ==
    \A u \in URLs_ : reads[u] <= IF u \in Posts THEN 0 ELSE CheckAttempts

(* Neither source of posts can crowd out the other one.                    *)
FairShare ==
    \A s \in {1, 2} :
        Cardinality(taken \cap offered[s]) >=
            Min({Cardinality(offered[s]), ManifestLimit \div 2})

(* What the intake keeps to: the tries of a page and the share of a feed.  *)
VolumeInv == VolumeTypeOK /\ ReadsAreBounded /\ FairShare
================================================================================
