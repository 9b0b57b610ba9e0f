----------------------------- MODULE SourceFamilies -----------------------------
(***************************************************************************)
(* Two publishers whose openings are found and read without a migration    *)
(* per article: "pokesup" (source_families.py) and "kozaru"                *)
(* (numbered_families.py).  A cycle acquires the publisher, reads robots   *)
(* and one target (the daily listing or the candidate checked longest      *)
(* ago), stages a result, and the finalizer alone decides what is counted. *)
(*                                                                         *)
(* A cycle is one lease of one job, and has a number of its own.  The      *)
(* publishers differ in where they pace (a run row or the control row), in *)
(* who releases the acquisition, and in what a refusal does.               *)
(***************************************************************************)
EXTENDS Integers, Sequences, FiniteSets

CONSTANTS
    Families,    \* the publishers of an instance
    URLs,        \* canonical articles, numbered as their addresses sort
    Earlier,     \* what earlier cycles may have listed and counted, by publisher
    Contents,    \* what the listing may hold
    Retractable, \* bound: articles the owner may retract
    Fixed,       \* those that a reviewed contract covers already ("pokesup")
    Pages,       \* what an article may show, a set for each publisher
    PackCount,   \* packs of a complete opening
    Collectors,  \* worker processes
    Pace,        \* 30 seconds
    AcquireFor,  \* 5 minutes, also the default deferral
    CycleLease,
    ServerPause, \* a Retry-After, at least an hour
    Daily,       \* a day
    MaxCycles, FamilyEnd    \* bounds: leases issued (by publisher), last instant

ASSUME FamilyAssumption ==
    /\ Families \subseteq {"pokesup", "kozaru"}
    /\ URLs \subseteq Nat \ {0} /\ IsFiniteSet(URLs)
    /\ Fixed \subseteq URLs /\ Retractable \subseteq URLs
    /\ {PackCount, Pace, AcquireFor, CycleLease, ServerPause, Daily} \subseteq Nat \ {0}
    /\ Contents \subseteq SUBSET URLs
    /\ \A f \in Families : MaxCycles[f] \in Nat
    /\ \A f \in Families : \A e \in Earlier[f] :
          /\ e.counted \subseteq e.listed /\ e.listed \subseteq URLs /\ Cardinality(e.counted) < 2
          /\ e.counted # {} => e.shown # {}
          /\ e.counted # {} /\ f = "kozaru" => IsFiniteSet(e.shown) /\ Cardinality(e.shown) = PackCount
    /\ FamilyEnd \in Nat /\ FamilyEnd >= Daily + 2

VARIABLES
    family, minute,
    leased,      \* end of a cycle's lease, 0 when it is over
    cycle,       \* cycles issued
    collector,   \* what a worker process is at
    acquired,    \* the publisher's gate: the cycle that owns it, and until when
    run,         \* staging row of a cycle
    asked,       \* when a request to the publisher was last authorized
    access,      \* the kill switch
    discovered,  \* when the listing was last read, 0 for never
    candidate,   \* state of an article
    checked,     \* when it was, 0 for never
    tombstone,   \* articles that are not to come back
    admission,   \* facts of an article since its first admission: its identities
    owner,       \* the article an identity is reserved for
    sent,        \* history: the numbered publisher's last request
    announced,   \* history: the instant it asked a cycle to wait for, as it answered
    lost,        \* history: cycles that ended before the database knew of that
    latest,      \* history: the identities an article showed when it was read last
    first,       \* history: the first article whose valid evidence showed an identity
    retracted    \* history: articles the owner retracted

familyVars == <<family, minute, leased, cycle, collector, acquired, run, asked, access,
                discovered, candidate, checked, tombstone, admission, owner,
                sent, announced, lost, latest, first, retracted>>
ledger == <<discovered, candidate, checked, tombstone, admission, owner, latest, first>>
waits == <<announced, lost>>

Cycles == 1..MaxCycles[family]
Listing == 0    \* as a target, beside articles
Nothing == [kind |-> "none"]
Quarantine == [kind |-> "quarantine"]
NoRun == [target |-> -1, requests |-> 0, result |-> Nothing]
NoCollector == [step |-> "idle"]
Needed(target) == IF family = "pokesup" /\ target # Listing THEN 3 ELSE 2

FamilyTypeOK ==
    /\ family \in Families /\ minute \in (Daily + 2)..FamilyEnd /\ cycle \in 0..MaxCycles[family]
    /\ access \in BOOLEAN /\ discovered \in 0..minute /\ asked \in 0..minute
    /\ acquired.cycle \in 0..cycle /\ acquired.until \in Nat
    /\ \A c \in Cycles : leased[c] \in Nat
    /\ \A c \in Cycles : run[c].target = -1 \/
          /\ run[c].target \in URLs \cup {Listing}
          /\ run[c].requests \in 0..Needed(run[c].target)
    /\ \A w \in Collectors : collector[w].step \in
          {"idle", "claimed", "reading", "sending", "deferring", "staging", "staged"}
    /\ sent.cycle \in 0..cycle /\ sent.at \in 0..minute /\ sent.under \in Nat
    /\ announced \in [Cycles -> Nat] /\ lost \subseteq Cycles
    /\ candidate \in [URLs -> {"absent", "pending", "admitted", "quarantined",
                               "duplicate", "retracted"}]
    /\ checked \in [URLs -> 0..minute]
    /\ tombstone \subseteq URLs /\ retracted \subseteq URLs
    /\ \A u \in URLs : candidate[u] = "admitted" => admission[u] # {}

FamilyInit ==
    /\ family \in Families /\ minute = Daily + 2 /\ cycle = 0 /\ access = TRUE
    /\ leased = [c \in Cycles |-> 0]
    /\ collector = [w \in Collectors |-> NoCollector]
    /\ acquired = [cycle |-> 0, until |-> 0]
    /\ run = [c \in Cycles |-> NoRun]
    /\ asked = 0 /\ sent = [cycle |-> 0, at |-> 0, under |-> 0]
    /\ announced = [c \in Cycles |-> 0] /\ lost = {}
    /\ \E e \in Earlier[family] :
          /\ discovered = IF e.listed = {} THEN 0 ELSE minute
          /\ candidate = [u \in URLs |-> IF u \in e.counted THEN "admitted"
                                        ELSE IF u \in e.listed THEN "pending" ELSE "absent"]
          /\ checked = [u \in URLs |-> IF u \in e.counted THEN 1 ELSE 0]
          /\ admission = [u \in URLs |-> IF u \in e.counted THEN e.shown ELSE {}]
          /\ latest = admission
          /\ owner = [p \in IF e.counted = {} THEN {} ELSE e.shown |-> CHOOSE u \in e.counted : TRUE]
          /\ first = owner
    /\ tombstone = {} /\ retracted = {}
-------------------------------------------------------------------------------
\* A cycle's own lease, and its hold on the publisher.
Leased(c) == leased[c] > minute
Acquires(c) == acquired.cycle = c /\ acquired.until > minute

\* OpeningHTML: the labels below the opening's heading, unless in a script,
\* a template or the like.
LabelsOf(page) ==
    LET shown == SelectSeq(page.elements, LAMBDA e : e.below /\ ~e.ignored)
    IN  [n \in DOMAIN shown |-> shown[n].label]

\* verify: the packs are labelled one by one in the reviewed order, the
\* resources are those of the layout, and at most one video is embedded.
Verified(page) ==
    IF LabelsOf(page) = [n \in 1..PackCount |-> n] /\ page.layout /\ Len(page.videos) <= 1
    THEN {page.post} \cup {page.videos[n] : n \in DOMAIN page.videos} ELSE {}

\* _Captions: the numbered figures of the article's body, hidden ones left out.
CaptionsOf(page) == SelectSeq(page, LAMBDA f : f.label > 0 /\ ~f.hidden)

\* parse_numbered_opening: 1..PackCount in order, each figure with one
\* resource, and none of them twice.
Numbered(page) ==
    LET figures == CaptionsOf(page)
        images == {figures[n].images[1] : n \in DOMAIN figures}
    IN  IF /\ [n \in DOMAIN figures |-> figures[n].label] = [n \in 1..PackCount |-> n]
           /\ \A n \in DOMAIN figures : Len(figures[n].images) = 1
           /\ Cardinality(images) = PackCount
        THEN images ELSE {}

\* What an article is recognised by, or nothing.
Read(page) ==
    LET packs == IF family = "pokesup" THEN Verified(page) ELSE Numbered(page)
    IN  IF packs = {} THEN Quarantine ELSE [kind |-> "evidence", packs |-> packs]

\* discover, discover_numbered_candidates: some articles, or a listing that is
\* malformed or has too many.
Listed == [kind : {"urls"}, urls : Contents] \cup {Quarantine}

Due(u) ==
    /\ candidate[u] \in {"pending", "admitted", "quarantined"}
    /\ checked[u] = 0 \/ checked[u] + Daily < minute

\* The article to check next: the one checked longest ago, then by address.
Oldest == {u \in URLs : Due(u) /\ \A v \in URLs \ {u} : Due(v) =>
              checked[u] < checked[v] \/ (checked[u] = checked[v] /\ u < v)}

Targets ==
    IF discovered = 0 \/ discovered + Daily < minute THEN {Listing}
    ELSE IF Oldest = {} /\ family = "pokesup" THEN {Listing} ELSE Oldest
-------------------------------------------------------------------------------
\* A worker leases a cycle.  enqueue_numbered_family_v1 keeps one outstanding.
FamilyClaim(w) ==
    /\ collector[w] = NoCollector
    /\ cycle < MaxCycles[family]
    /\ family = "kozaru" => \A c \in Cycles : ~Leased(c)
    /\ cycle' = cycle + 1
    /\ leased' = [leased EXCEPT ![cycle'] = minute + CycleLease]
    /\ collector' = [collector EXCEPT ![w] = [step |-> "claimed", cycle |-> cycle']]
    /\ UNCHANGED <<family, minute, acquired, run, asked, access, ledger, sent, waits, retracted>>

FamilyHeartbeat(w) ==
    LET c == collector[w].cycle
    IN  /\ collector[w] # NoCollector
        /\ Leased(c) /\ leased[c] < minute + CycleLease
        /\ leased' = [leased EXCEPT ![c] = minute + CycleLease]
        /\ acquired' = IF family = "pokesup" /\ acquired.cycle = c
                       THEN [acquired EXCEPT !.until = minute + CycleLease] ELSE acquired
        /\ UNCHANGED <<family, minute, cycle, collector, run, asked, access, ledger,
                       sent, waits, retracted>>

\* The process leaves the cycle, whose lease the database ends if it is live.
\* The run row of a cycle is of no use to another one: it is deleted here.
Leave(w) ==
    /\ collector' = [collector EXCEPT ![w] = NoCollector]
    /\ leased' = [leased EXCEPT ![collector[w].cycle] = 0]
    /\ run' = [run EXCEPT ![collector[w].cycle] = NoRun]

\* begin_source_family_v1, begin_numbered_family_v1: one acquisition of the
\* publisher for five minutes.  Refused, the cycle is deferred (JobDeferred).
FamilyBegin(w) ==
    LET c == collector[w].cycle
    IN  /\ collector[w].step = "claimed"
        /\ IF Leased(c) /\ access /\ acquired.until <= minute /\ Targets # {}
           THEN /\ acquired' = [cycle |-> c, until |-> minute + AcquireFor]
                /\ \E t \in Targets :
                      run' = [run EXCEPT ![c] = [@ EXCEPT !.target = t]]
                /\ collector' = [collector EXCEPT ![w] =
                                   [step |-> "reading", cycle |-> c, from |-> 0]]
                /\ UNCHANGED leased
           ELSE Leave(w) /\ UNCHANGED acquired
        /\ UNCHANGED <<family, minute, cycle, asked, access, ledger, sent, waits, retracted>>

\* authorize_..._request_v1: the next request of the cycle may be sent.  The
\* run row of "pokesup" paces within a cycle, the control row of "kozaru" across.
Authorized(c) ==
    /\ Leased(c) /\ access /\ Acquires(c)
    /\ run[c].result = Nothing
    /\ run[c].requests < Needed(run[c].target)
    /\ (family = "pokesup" /\ run[c].requests = 0) \/ asked = 0 \/ asked + Pace <= minute

\* What the handler does next with the answer to its last request: it sleeps
\* before another one.
Onwards(c, answer) ==
    IF answer = "page"
    THEN IF run[c].requests < Needed(run[c].target)
         THEN {[step |-> "reading", cycle |-> c, from |-> minute + Pace]}
         ELSE [step : {"staging"}, cycle : {c},
               result : IF run[c].target = Listing THEN Listed
                        ELSE {Read(p) : p \in Pages[family]}]
    ELSE IF answer = "refused" \/ family = "pokesup"
    THEN {[step |-> "staging", cycle |-> c, result |-> Quarantine]}
    ELSE {[step |-> "deferring", cycle |-> c,
           until |-> minute + IF answer = "server" THEN ServerPause ELSE AcquireFor]}

\* fetch: each request is authorized first.
FamilyAuthorize(w) ==
    LET c == collector[w].cycle
    IN  /\ collector[w].step = "reading" /\ collector[w].from <= minute
        /\ IF Authorized(c)
           THEN /\ run' = [run EXCEPT ![c].requests = @ + 1]
                /\ asked' = minute
                /\ collector' = [collector EXCEPT ![w] =
                                   [step |-> "sending", cycle |-> c, under |-> minute]]
           ELSE /\ \E next \in Onwards(c, "lost") : collector' = [collector EXCEPT ![w] = next]
                /\ UNCHANGED <<run, asked>>
        /\ UNCHANGED <<family, minute, leased, cycle, acquired, access, ledger,
                       sent, waits, retracted>>

\* client.get, whenever the process comes to it: nothing is checked again.  An
\* answer is used, refused (not found, robots, a redirect), a server's "later",
\* or never comes.
FamilySend(w) ==
    LET c == collector[w].cycle
    IN  /\ collector[w].step = "sending"
        /\ \E answer \in {"page", "refused", "server", "lost"} :
              \E next \in Onwards(c, answer) :
                 /\ collector' = [collector EXCEPT ![w] = next]
                 /\ announced' = IF family = "kozaru" /\ answer = "server"
                                 THEN [announced EXCEPT ![c] = next.until] ELSE announced
        /\ sent' = IF family = "kozaru"
                   THEN [cycle |-> c, at |-> minute, under |-> collector[w].under] ELSE sent
        /\ UNCHANGED <<family, minute, leased, cycle, acquired, run, asked, access, ledger,
                       lost, retracted>>

\* An instant the publisher asked a cycle for, and the database never hears of.
Losing(c) == IF announced[c] > 0 THEN lost \cup {c} ELSE lost

\* (A plausible mistake: the cycle is paused, the publisher is not.)
DeferOnlyPauses(c, t) == acquired

\* defer_numbered_family_v1: a server's wait is kept for every later cycle.
Deferred_(c, t) ==
    IF Leased(c) /\ t > minute /\ acquired.cycle = c
    THEN [acquired EXCEPT !.until = IF t > @ THEN t ELSE @] ELSE acquired

FamilyDefer(w) ==
    LET c == collector[w].cycle
        t == collector[w].until
    IN  /\ collector[w].step = "deferring"
        /\ acquired' = Deferred_(c, t)
        /\ lost' = IF Leased(c) /\ acquired.cycle = c THEN lost ELSE Losing(c)
        /\ Leave(w)
        /\ UNCHANGED <<family, minute, cycle, asked, access, ledger, sent, announced, retracted>>

\* stage_..._v1: once, under the lease and the gate, and only what the
\* requests of the cycle can have shown.  Otherwise it raises, and the cycle
\* fails: fail_job_v2 releases the gate that "pokesup" shares with the queue.
Stageable(c, result) ==
    /\ Leased(c) /\ access /\ Acquires(c)
    /\ run[c].result = Nothing
    /\ result.kind = "urls" => run[c].target = Listing
    /\ result.kind # "quarantine" => run[c].requests = Needed(run[c].target)
    /\ family = "kozaru" => run[c].requests > 0

FamilyStage(w) ==
    LET c == collector[w].cycle
    IN  /\ collector[w].step = "staging"
        /\ IF Stageable(c, collector[w].result)
           THEN /\ run' = [run EXCEPT ![c].result = collector[w].result]
                /\ collector' = [collector EXCEPT ![w] = [step |-> "staged", cycle |-> c]]
                /\ UNCHANGED <<leased, acquired>>
           ELSE /\ Leave(w)
                /\ acquired' = IF family = "pokesup" /\ Leased(c) /\ acquired.cycle = c
                               THEN [cycle |-> 0, until |-> 0] ELSE acquired
        /\ UNCHANGED <<family, minute, cycle, asked, access, ledger, sent, waits, retracted>>
-------------------------------------------------------------------------------
\* Bodies with one plausible mistake each; no action uses them.
ClashesCounted(u, packs) ==
    \E p \in packs \cap DOMAIN owner : owner[p] # u /\ candidate[owner[p]] = "admitted"

\* An identity of the article is reserved for another one.
Clashes(u, packs) == \E p \in packs \cap DOMAIN owner : owner[p] # u

\* The facts of an article are those of its first admission.
Contradicts(u, packs) == admission[u] \notin {{}, packs}

\* What the finalizer makes of an article.
Outcome(u, result) ==
    IF family = "pokesup" /\ u \in tombstone THEN "retracted"
    ELSE IF family = "kozaru" /\ candidate[u] \in {"duplicate", "retracted"} THEN candidate[u]
    ELSE IF family = "pokesup" /\ ~access THEN "pending"
    ELSE IF family = "pokesup" /\ u \in Fixed THEN "duplicate"
    ELSE IF result.kind # "evidence" \/ Contradicts(u, result.packs) THEN "quarantined"
    ELSE IF Clashes(u, result.packs) THEN "duplicate" ELSE "admitted"

\* Identities are kept for the first article; "kozaru" keeps those of a valid
\* partial repost as well.
Reserved(u, packs, outcome) ==
    IF outcome = "admitted" \/ (family = "kozaru" /\ outcome = "duplicate")
    THEN [p \in DOMAIN owner \cup packs |-> IF p \in DOMAIN owner THEN owner[p] ELSE u]
    ELSE owner

\* The listing: new articles become candidates; what a reviewed contract
\* covers is marked a duplicate for good.  "kozaru" does not read a listing
\* that was malformed again before the next day.
ReadListing(result) ==
    /\ candidate' = [u \in URLs |->
          IF result.kind = "urls" /\ u \in result.urls
          THEN IF family = "pokesup" /\ u \in Fixed THEN "duplicate"
               ELSE IF candidate[u] = "absent" THEN "pending" ELSE candidate[u]
          ELSE candidate[u]]
    /\ tombstone' = IF family = "pokesup" /\ result.kind = "urls"
                    THEN tombstone \cup (result.urls \cap Fixed) ELSE tombstone
    /\ discovered' = IF family = "kozaru" \/ result.kind = "urls" THEN minute ELSE discovered
    /\ UNCHANGED <<checked, admission, owner, latest, first>>

ReadArticle(u, result) ==
    LET outcome == Outcome(u, result)
        final == family = "kozaru" /\ candidate[u] \in {"duplicate", "retracted"}
        packs == IF result.kind = "evidence" THEN result.packs ELSE {}
    IN  /\ candidate' = [candidate EXCEPT ![u] = outcome]
        /\ checked' = IF final THEN checked ELSE [checked EXCEPT ![u] = minute]
        /\ admission' = IF outcome = "admitted" /\ admission[u] = {}
                        THEN [admission EXCEPT ![u] = packs] ELSE admission
        /\ latest' = [latest EXCEPT ![u] = packs]
        /\ IF final THEN UNCHANGED <<owner, first>>
           ELSE /\ owner' = Reserved(u, packs, outcome)
                /\ first' = IF outcome \notin {"admitted", "duplicate"} THEN first
                            ELSE [p \in DOMAIN first \cup packs |->
                                    IF p \in DOMAIN first THEN first[p] ELSE u]
        /\ UNCHANGED <<discovered, tombstone>>

\* finalize_source_family_v1, finalize_numbered_family_v1: publish what was
\* staged and end the cycle.  Without the lease or the gate nothing happens,
\* and the process treats its lease as lost.
FamilyFinalize(w) ==
    LET c == collector[w].cycle
        r == run[c]
    IN  /\ collector[w].step = "staged"
        /\ collector' = [collector EXCEPT ![w] = NoCollector]
        /\ IF Leased(c) /\ Acquires(c) /\ (family = "kozaru" => access)
           THEN /\ leased' = [leased EXCEPT ![c] = 0]
                /\ IF r.target # Listing THEN ReadArticle(r.target, r.result)
                   ELSE IF access THEN ReadListing(r.result) ELSE UNCHANGED ledger
           ELSE UNCHANGED <<leased, ledger>>
        /\ run' = [run EXCEPT ![c] = NoRun]
        /\ UNCHANGED <<family, minute, cycle, acquired, asked, access, sent, waits, retracted>>

\* The owner retracts an article, whatever its state and whoever reads it.
FamilyRetract(u) ==
    /\ u \in Retractable \ retracted
    /\ retracted' = retracted \cup {u}
    /\ tombstone' = IF family = "pokesup" THEN tombstone \cup {u} ELSE tombstone
    /\ candidate' = IF family = "pokesup" /\ candidate[u] = "absent" THEN candidate
                    ELSE [candidate EXCEPT ![u] = "retracted"]
    /\ UNCHANGED <<family, minute, leased, cycle, collector, acquired, run, asked, access,
                   discovered, checked, admission, owner, latest, first, sent, waits>>

\* The kill switch.  (It may be turned on again later; no instance does.)
FamilySwitch ==
    /\ access
    /\ access' = FALSE
    /\ UNCHANGED <<family, minute, leased, cycle, collector, acquired, run, asked, ledger,
                   sent, waits, retracted>>

FamilyCrash(w) ==
    /\ collector[w] # NoCollector
    /\ collector' = [collector EXCEPT ![w] = NoCollector]
    /\ run' = [run EXCEPT ![collector[w].cycle] = NoRun]
    /\ lost' = Losing(collector[w].cycle)
    /\ UNCHANGED <<family, minute, leased, cycle, acquired, asked, access, ledger,
                   sent, announced, retracted>>

FamilyTick ==
    /\ minute < FamilyEnd
    /\ minute' = minute + 1
    /\ UNCHANGED <<family, leased, cycle, collector, acquired, run, asked, access, ledger,
                   sent, waits, retracted>>

FamilyNext ==
    \/ \E w \in Collectors :
          \/ FamilyClaim(w)
          \/ FamilyHeartbeat(w)
          \/ FamilyBegin(w)
          \/ FamilyAuthorize(w)
          \/ FamilySend(w)
          \/ FamilyDefer(w)
          \/ FamilyStage(w)
          \/ FamilyFinalize(w)
          \/ FamilyCrash(w)
    \/ \E u \in URLs : FamilyRetract(u)
    \/ FamilySwitch
    \/ FamilyTick

FamilySpec == FamilyInit /\ [][FamilyNext]_familyVars
-------------------------------------------------------------------------------
(* The packs that count as observed are as many as there are distinct ones *)
(* among the resources of the counted articles: no pack is counted twice,  *)
(* however articles repost, overlap, change or race.  (An opening of       *)
(* "pokesup" is recognised by its post and its video instead.)             *)
Counted == {u \in URLs : candidate[u] = "admitted" /\ u \notin tombstone}

NoPackTwice ==
    LET seen == UNION {admission[u] : u \in Counted}
    IN  /\ \A u, v \in Counted : u # v => admission[u] \cap admission[v] = {}
        /\ family = "kozaru" => Cardinality(seen) = PackCount * Cardinality(Counted)

(* A numbered article is counted only while every pack of it was shown by  *)
(* it first: a repost of a repost does not get in with the part that the   *)
(* first repost added.                                                     *)
FirstShownCounts ==
    family = "kozaru" =>
        \A u \in Counted : \A p \in admission[u] : first[p] = u

(* What the owner retracts is never counted again, although a cycle may    *)
(* have read it before and finalize afterwards.                            *)
RetractedStaysOut == retracted \cap Counted = {}

(* An article is counted by what its page showed when it was read last: a  *)
(* page that was edited since its admission is not.                        *)
CountedAsLastRead == \A u \in Counted : latest[u] = admission[u]

\* A wait that its cycle may still tell the database, or may not any longer.
Untold(c) ==
    \E w \in Collectors : /\ collector[w].step = "deferring" /\ collector[w].cycle = c
                         /\ ~Acquires(c)

(* The numbered publisher is sent nothing within the pace of the last       *)
(* authorization that was used, nor before an instant it asked any cycle of *)
(* any worker to wait for.  Two things are excepted.  A process that is     *)
(* held up between authorization and request until its acquisition is over  *)
(* sends nevertheless.  And an instant the publisher asked for is lost when *)
(* the process ends, or its cycle no longer has lease and acquisition, by   *)
(* the time the database is to be told.                                     *)
PublisherPaced ==
    [][sent' # sent /\ Acquires(sent'.cycle) =>
          /\ sent.cycle = 0 \/ sent'.at >= sent.under + Pace
          /\ \A c \in Cycles \ lost : Untold(c) \/ sent'.at >= announced[c]]_familyVars

(* The observed packs of a family are right in every state: distinct, first *)
(* shown by what counts them, not retracted, and as last read.             *)
FamilyInv ==
    FamilyTypeOK /\ NoPackTwice /\ FirstShownCounts /\ RetractedStaysOut /\ CountedAsLastRead
================================================================================
