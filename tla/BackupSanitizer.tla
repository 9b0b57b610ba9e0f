-------------------------- MODULE BackupSanitizer --------------------------
(***************************************************************************)
(* The retention sanitizer between pg_dump and gzip                        *)
(* (deploy/lib/sanitize_plain_backup.py), as operators on a plain dump.    *)
(*                                                                         *)
(* A dump is a sequence of lines.  A line is abstracted to what the        *)
(* sanitizer tells apart: a COPY header, a row of a COPY block, the end of *)
(* a block, a statement about some table (`whole' when it ends on its own  *)
(* line), the close of a longer statement, or the two ends of a quoted     *)
(* body.  `fit' stands for every comparison of a line with its reviewed    *)
(* text: columns, constraints, and each field of a retained row.           *)
(*                                                                         *)
(* The first pass reads the whole dump and refuses it at the first         *)
(* deviation; only then does the second pass write.                        *)
(***************************************************************************)
EXTENDS Naturals, FiniteSets, Sequences, SequencesExt

CONSTANTS Relays,          \* the reviewed Nostr relay sources
          TagKeys,         \* the reviewed Mastodon tags
          Profiles,        \* sequence of sets: the reviewed public-study sources
          CoverageSources, \* the study sources kept in the coverage ledger
          Awaited,         \* per profile, coverage sources not yet collected
          StudyShape,      \* per profile, the product check of the study ledger
          CoverageShape,   \* per profile, that of the coverage ledger
          SeedSources      \* the reviewed independent sources of the bridge

ASSUME ProfilesAssumption ==
    /\ \A p \in 1..Len(Profiles) : /\ Profiles[p] # {}
                                   /\ Awaited[p] \subseteq Profiles[p] \cap CoverageSources
    /\ \A p, q \in 1..Len(Profiles) : Profiles[p] = Profiles[q] => p = q

StudySources == UNION {Profiles[p] : p \in 1..Len(Profiles)}

Groups == {"youtube", "studies", "bluesky", "nostr", "mastodon", "bridge"}

BridgeTables == {"independent_sources", "authorized_source_bindings",
                 "input_admissions"}

\* The retention-control tables each optional group owns.
GroupTables(g) ==
    CASE g = "youtube"  -> {"youtube_discoveries"}
      [] g = "studies"  -> {"study_observations", "study_coverage"}
      [] g = "bluesky"  -> {"bluesky_checkpoints"}
      [] g = "nostr"    -> {"nostr_checkpoints"}
      [] g = "mastodon" -> {"mastodon_checkpoints", "mastodon_cooldowns"}
      [] g = "bridge"   -> BridgeTables

ControlTables == {"source_policies"} \cup UNION {GroupTables(g) : g \in Groups}

\* Three ledgers that carry their whole reviewed schema with them, whether
\* or not the database preflight knows of them.
BundleTables == [
    family   |-> {"source_family_control", "source_family_clock",
                  "source_family_admissions"},
    numbered |-> {"numbered_family_control", "numbered_family_admissions"},
    intake   |-> {"research_intake_control", "research_references"}]

Bundles == DOMAIN BundleTables
Bundled == UNION {BundleTables[b] : b \in Bundles}

\* A reviewed schema, complete or with the owner statements left out; the
\* source-family one in its fixed or its variable layout, never mixed.
WithOrWithoutOwner(S) == {S, S \cup {"owner"}}

BundleSchemas == [
    family   |-> WithOrWithoutOwner({"tables", "fixed"})
                     \cup WithOrWithoutOwner({"tables", "variable"}),
    numbered |-> WithOrWithoutOwner({"tables"}),
    intake   |-> WithOrWithoutOwner({"tables"})]

ActivityTables == {"bluesky_candidates", "nostr_candidates", "mastodon_candidates"}
TransientTables == {"source_family_runs", "numbered_family_runs",
                    "source_request_gates"} \cup ActivityTables
TargetTables == ControlTables \cup Bundled \cup TransientTables

\* Constraints and indexes the bridge tables carry, by name.
BridgeKeys == [
    independent_sources        |-> {"primary", "domain"},
    authorized_source_bindings |-> {"primary", "identity", "source"},
    input_admissions           |-> {"primary", "fingerprint", "observation", "binding"}]

BridgeIndexes == [
    independent_sources        |-> {},
    authorized_source_bindings |-> {"window"},
    input_admissions           |-> {"study", "observation"}]

Nothing == "none"

\* The elements of a set in some fixed order.
Listed(S) == FoldSet(LAMBDA x, q : Append(q, x), <<>>, S)
NoLine == [k |-> Nothing]

\* A preflight the sanitizer accepts to start from: the groups present in
\* the live database, and the id of each group's source policy.
PreflightSources(present) ==
    {s \in {"youtube", "bluesky", "mastodon"} : s \in present}
        \cup (IF "nostr" \in present THEN Relays ELSE {})

Coherent(pf) ==
    /\ DOMAIN pf.id = PreflightSources(pf.present)
    /\ \A r, s \in Relays \cap DOMAIN pf.id : pf.id[r] = pf.id[s] => r = s
    /\ {"studies", "bluesky"} \cap pf.present # {} => "youtube" \in pf.present

(***************************************************************************)
(* The first pass.  `facts' are the structures seen so far, `rows' the     *)
(* control rows, in dump order; `ok' becomes FALSE for good.               *)
(***************************************************************************)
ScanStart == [block |-> Nothing, quoted |-> FALSE, pending |-> NoLine,
              facts |-> {}, rows |-> <<>>, ok |-> TRUE]

RowsOf(s, t) == SelectSeq(s.rows, LAMBDA r : r.of = t)
RowSet(s, t) == ToSet(RowsOf(s, t))

\* The dump may state each structure once; what it stated is `facts'.
Fact(l) ==
    IF l.verb \in {"key", "index", "ddl"} THEN <<l.verb, l.of, l.shape>>
                                          ELSE <<l.verb, l.of>>

Noted(s, l) == [s EXCEPT !.facts = @ \cup {Fact(l)}, !.ok = @ /\ Fact(l) \notin s.facts]

Refusing(s) == [s EXCEPT !.ok = FALSE]
Required(s, ok) == IF ok THEN s ELSE Refusing(s)

\* A COPY header opens a block unless it names data that must not be there,
\* drifts from the reviewed columns, or opens the same table again.
CopyHeader(l) == [verb |-> "copy", of |-> l.of]

StartBlock(s, l) ==
    LET opened == [s EXCEPT !.block = l.of]
        sound  == /\ l.qualified \/ l.of \notin TargetTables
                  /\ l.of \notin TransientTables
    IN  IF l.of \in ControlTables \cup Bundled
        THEN Required(Noted(opened, CopyHeader(l)), sound /\ l.fit)
        ELSE Required(opened, sound)

\* No earlier row of the table has its key, or any of its unique values.
Fresh(s, r) == \A q \in RowSet(s, r.of) : q.key # r.key /\ q.also \cap r.also = {}

Alone(s, r) == RowsOf(s, r.of) = <<>>

BlueskyCheckpointFits(pf, s, r) == /\ Alone(s, r)
                                   /\ "bluesky" \in pf.present
                                   /\ r.owner = pf.id["bluesky"]

NostrCheckpointFits(pf, s, r) == /\ "nostr" \in pf.present
                                 /\ r.key \in Relays
                                 /\ Fresh(s, r)
                                 /\ r.owner = pf.id[r.key]

MastodonCheckpointFits(pf, s, r) == /\ "mastodon" \in pf.present
                                    /\ r.key \in TagKeys
                                    /\ Fresh(s, r)
                                    /\ r.owner = pf.id["mastodon"]

MastodonCooldownFits(pf, s, r) == /\ "mastodon" \in pf.present
                                  /\ Alone(s, r)
                                  /\ r.owner = pf.id["mastodon"]

BridgeSourceFits(pf, s, r) == "bridge" \in pf.present /\ Fresh(s, r)
BridgeBindingFits(pf, s, r) == "bridge" \in pf.present /\ Fresh(s, r)
BridgeAdmissionFits(pf, s, r) == "bridge" \in pf.present /\ Fresh(s, r)

StudyFits(s, r) == r.key \in StudySources \ CoverageSources /\ Fresh(s, r)
CoverageFits(s, r) == r.key \in StudySources \cap CoverageSources /\ Fresh(s, r)

FamilyFits(s, r) ==
    r.of \in {"source_family_control", "source_family_clock"} => Alone(s, r)
NumberedFits(s, r) == r.of = "numbered_family_control" => Alone(s, r)
IntakeFits(s, r) ==
    IF r.of = "research_intake_control" THEN Alone(s, r) ELSE Fresh(s, r)

YouTubeFits(pf, r) == "youtube" \in pf.present /\ r.owner = pf.id["youtube"]

ControlRowFits(pf, s, r) ==
    /\ r.fit
    /\ CASE r.of = "source_policies"            -> r.key # "public_study_unknown"
         [] r.of = "youtube_discoveries"        -> YouTubeFits(pf, r)
         [] r.of = "study_observations"         -> StudyFits(s, r)
         [] r.of = "study_coverage"             -> CoverageFits(s, r)
         [] r.of = "bluesky_checkpoints"        -> BlueskyCheckpointFits(pf, s, r)
         [] r.of = "nostr_checkpoints"          -> NostrCheckpointFits(pf, s, r)
         [] r.of = "mastodon_checkpoints"       -> MastodonCheckpointFits(pf, s, r)
         [] r.of = "mastodon_cooldowns"         -> MastodonCooldownFits(pf, s, r)
         [] r.of = "independent_sources"        -> BridgeSourceFits(pf, s, r)
         [] r.of = "authorized_source_bindings" -> BridgeBindingFits(pf, s, r)
         [] r.of = "input_admissions"           -> BridgeAdmissionFits(pf, s, r)
         [] r.of \in BundleTables.family        -> FamilyFits(s, r)
         [] r.of \in BundleTables.numbered      -> NumberedFits(s, r)
         [] r.of \in BundleTables.intake        -> IntakeFits(s, r)

\* Inside a block every line is data.  Rows of tables nobody reviews pass as
\* they are; a line that is no row of the block's table has the wrong fields.
InspectRow(pf, s, l) ==
    IF s.block \notin ControlTables \cup Bundled THEN s
    ELSE IF l.k = "row" /\ l.of = s.block
         THEN Required([s EXCEPT !.rows = Append(@, l)], ControlRowFits(pf, s, l))
         ELSE Refusing(s)

\* A statement about a reviewed relation must be one of the reviewed ones.
\* The others are only kept from smuggling data in, or running code.
Broad(pf) == {"youtube", "mastodon"} \cap pf.present # {}

GatesCreateFits(pf, l) == l.shape = IF Broad(pf) THEN "broad" ELSE "narrow"

StatementFits(pf, l) ==
    CASE l.verb = "insert" -> l.of \notin TargetTables
      [] l.verb = "do"     -> FALSE
      [] l.verb = "policy" -> l.of \notin {"source_request_gates"} \cup BridgeTables
      [] l.verb = "create" /\ l.of = "source_request_gates" ->
             l.fit /\ GatesCreateFits(pf, l)
      [] l.verb = "key" /\ l.of \in BridgeTables -> l.fit /\ l.shape \in BridgeKeys[l.of]
      [] l.verb = "index" /\ l.of \in BridgeTables ->
             l.fit /\ l.shape \in BridgeIndexes[l.of]
      [] OTHER -> l.fit

Reviewed(l) ==
    \/ l.verb = "create" /\ l.of \in {"youtube_discoveries", "source_request_gates",
                                      "study_observations", "study_coverage"}
                                        \cup BridgeTables
    \/ l.verb \in {"key", "force", "enable"}
          /\ l.of \in {"source_request_gates"} \cup BridgeTables
    \/ l.verb = "index" /\ l.of \in BridgeTables
    \/ l.verb = "ddl" /\ l.of \in Bundles

FinishStatement(pf, s, l) ==
    LET read   == [s EXCEPT !.pending = NoLine]
        shaped == IF l.verb = "create" /\ l.of \in {"study_observations", "study_coverage"}
                  THEN [read EXCEPT !.facts = @ \cup {<<"shape", l.of, l.shape>>}]
                  ELSE read
    IN  Required(IF Reviewed(l) THEN Noted(shaped, l) ELSE shaped, StatementFits(pf, l))

\* A longer statement is read up to its close; anything else in it is drift.
ContinueStatement(pf, s, l) ==
    IF l.k = "close" THEN FinishStatement(pf, s, s.pending)
                     ELSE [s EXCEPT !.pending.fit = FALSE]

ScanLine(pf, s, l) ==
    IF ~s.ok THEN s
    ELSE IF s.block # Nothing
         THEN IF l.k = "end" THEN [s EXCEPT !.block = Nothing] ELSE InspectRow(pf, s, l)
    ELSE IF s.quoted THEN [s EXCEPT !.quoted = l.k # "quote"]
    ELSE IF s.pending # NoLine THEN ContinueStatement(pf, s, l)
    ELSE CASE l.k = "copy"  -> StartBlock(s, l)
           [] l.k = "quote" -> [s EXCEPT !.quoted = TRUE]
           [] l.k = "stmt"  -> IF l.whole THEN FinishStatement(pf, s, l)
                                          ELSE [s EXCEPT !.pending = l]
           [] OTHER         -> s

(***************************************************************************)
(* What the whole dump must contain before a byte of it is written.        *)
(***************************************************************************)
Stated(s, verb, t) == {f[3] : f \in {g \in s.facts : g[1] = verb /\ g[2] = t}}

BundleComplete(s, b) ==
    LET tables == {t \in BundleTables[b] : <<"copy", t>> \in s.facts}
        schema == Stated(s, "ddl", b)
    IN  tables \cup schema # {} =>
            /\ tables = BundleTables[b]
            /\ schema \in BundleSchemas[b]
            /\ \A t \in tables : t \in {"source_family_control", "source_family_clock",
                                        "numbered_family_control", "research_intake_control"}
                   => Len(RowsOf(s, t)) = 1
            /\ b = "family" =>
                   \A r \in RowSet(s, "source_family_admissions") :
                       r.ref = "variable" => "variable" \in schema

\* The blocks and definitions present are those of the preflighted groups.
BlocksComplete(pf, s) ==
    \A g \in Groups : \A t \in GroupTables(g) :
        /\ (g \in pf.present) <=> (<<"copy", t>> \in s.facts)
        /\ g \in {"youtube", "studies"} =>
               ((g \in pf.present) <=> (<<"create", t>> \in s.facts))

BridgeComplete(pf, s) ==
    LET there == "bridge" \in pf.present
        bindings == RowSet(s, "authorized_source_bindings")
    IN  /\ \A t \in BridgeTables :
               /\ \A verb \in {"create", "force", "enable"} : there <=> (<<verb, t>> \in s.facts)
               /\ Stated(s, "key", t)   = IF there THEN BridgeKeys[t] ELSE {}
               /\ Stated(s, "index", t) = IF there THEN BridgeIndexes[t] ELSE {}
        /\ there => {r.key : r \in RowSet(s, "independent_sources")} = SeedSources
        /\ \A r \in bindings :
               r.ref \in {q.key : q \in RowSet(s, "independent_sources")}
        /\ \A r \in RowSet(s, "input_admissions") :
               r.ref # "study" => r.ref \in {q.key : q \in bindings}

PolicyIds(s, key) ==
    LET rows == SelectSeq(RowsOf(s, "source_policies"), LAMBDA r : r.key = key)
    IN  [i \in 1..Len(rows) |-> rows[i].owner]

\* One idle gate table, one catalog policy, and exactly the preflighted
\* policies and checkpoints of the continuous feeds.
FeedsComplete(pf, s) ==
    /\ \A verb \in {"create", "force", "enable"} :
           <<verb, "source_request_gates">> \in s.facts
    /\ Stated(s, "key", "source_request_gates") = {"primary"}
    /\ Len(PolicyIds(s, "tcgdex")) = 1
    /\ \A key \in {"bluesky", "mastodon"} \cup Relays :
           PolicyIds(s, key) = IF key \in DOMAIN pf.id THEN <<pf.id[key]>> ELSE <<>>
    /\ "bluesky" \in pf.present => Len(RowsOf(s, "bluesky_checkpoints")) = 1
    /\ "nostr" \in pf.present =>
           {r.key : r \in RowSet(s, "nostr_checkpoints")} = Relays
    /\ "mastodon" \in pf.present =>
           /\ {r.key : r \in RowSet(s, "mastodon_checkpoints")} = TagKeys
           /\ Len(RowsOf(s, "mastodon_cooldowns")) = 1

\* The profiles whose sources are exactly the study policies of the dump,
\* each once.
MatchingProfiles(s) ==
    {p \in 1..Len(Profiles) :
        \A src \in StudySources :
            Len(PolicyIds(s, src)) = IF src \in Profiles[p] THEN 1 ELSE 0}

Profile(s) == CHOOSE p \in MatchingProfiles(s) : TRUE

StudiesComplete(pf, s) ==
    LET p == Profile(s)
        covered == {r.key : r \in RowSet(s, "study_coverage")}
    IN  IF "studies" \notin pf.present
        THEN \A src \in StudySources : PolicyIds(s, src) = <<>>
        ELSE /\ MatchingProfiles(s) # {}
             /\ <<"shape", "study_observations", StudyShape[p]>> \in s.facts
             /\ <<"shape", "study_coverage", CoverageShape[p]>> \in s.facts
             /\ covered \in {Profiles[p] \cap CoverageSources,
                             (Profiles[p] \cap CoverageSources) \ Awaited[p]}
             /\ \A src, other \in Profiles[p] :
                    PolicyIds(s, src) = PolicyIds(s, other) => src = other
             /\ \A r \in RowSet(s, "study_observations") \cup RowSet(s, "study_coverage") :
                    PolicyIds(s, r.key) = <<r.owner>>

YouTubeComplete(pf, s) ==
    PolicyIds(s, "youtube") = IF "youtube" \in pf.present THEN <<pf.id["youtube"]>>
                                                          ELSE <<>>

CompleteCopy(pf, s) ==
    /\ \A b \in Bundles : BundleComplete(s, b)
    /\ <<"copy", "source_policies">> \in s.facts
    /\ BlocksComplete(pf, s)
    /\ BridgeComplete(pf, s)
    /\ FeedsComplete(pf, s)
    /\ StudiesComplete(pf, s)
    /\ YouTubeComplete(pf, s)

\* A dump is read in one pass; the halves only keep TLC's recursion short.
ScanLines(pf, s, lines) ==
    LET scanned[i \in 0..Len(lines)] ==
            IF i = 0 THEN s ELSE ScanLine(pf, scanned[i - 1], lines[i])
    IN  IF s.ok THEN scanned[Len(lines)] ELSE s

Halves(dump) == LET half == Len(dump) \div 2
                IN  <<SubSeq(dump, 1, half), SubSeq(dump, half + 1, Len(dump))>>

Scan(pf, dump) ==
    LET last == ScanLines(pf, ScanLines(pf, ScanStart, Halves(dump)[1]), Halves(dump)[2])
    IN  Required(last, last.block = Nothing /\ ~last.quoted /\ last.pending = NoLine
                           /\ CompleteCopy(pf, last))

(***************************************************************************)
(* The second pass.  It knows no quoting and no statements: only blocks,   *)
(* and the one line that forces row security on the gates.                 *)
(***************************************************************************)

Gates(pf, s) ==
    {"tcgdex"} \cup ({"youtube", "bluesky", "mastodon"} \cap pf.present)
        \cup (IF "nostr" \in pf.present THEN Relays ELSE {})
        \cup (IF "studies" \in pf.present THEN Profiles[Profile(s)] ELSE {})

Gate(key) == [k |-> "gate", key |-> key]

SeedBlock(pf, s) ==
    LET keys == Listed(Gates(pf, s))
    IN  [i \in 1..Len(keys) |-> Gate(keys[i])]

EmitStart == [block |-> Nothing, seeded |-> FALSE, out |-> <<>>]

\* Controls are restored switched off whatever the snapshot says.
ControlsAndClock == {"source_family_control", "source_family_clock",
                     "numbered_family_control", "research_intake_control"}
Controls == {"source_family_control", "numbered_family_control",
             "research_intake_control"}
Inert(l) == [l EXCEPT !.on = FALSE]

WritesRow(e, l) ==
    CASE e.block \in Controls              -> Append(e.out, Inert(l))
      [] e.block = "youtube_discoveries"   -> e.out
      [] OTHER                             -> Append(e.out, l)

SeedPoint(l) == /\ l.k = "stmt" /\ l.verb = "enable"
                /\ l.of = "source_request_gates" /\ l.whole

EmitLine(pf, s, e, l) ==
    IF e.block # Nothing
    THEN IF l.k = "end" THEN [e EXCEPT !.block = Nothing, !.out = Append(@, l)]
                        ELSE [e EXCEPT !.out = WritesRow(e, l)]
    ELSE LET seeds == IF SeedPoint(l) THEN SeedBlock(pf, s) ELSE <<>>
         IN  [block  |-> IF l.k = "copy" THEN l.of ELSE Nothing,
              seeded |-> e.seeded \/ SeedPoint(l),
              out    |-> Append(e.out \o seeds, l)]

EmitLines(pf, s, e, lines) ==
    LET emitted[i \in 0..Len(lines)] ==
            IF i = 0 THEN e ELSE EmitLine(pf, s, emitted[i - 1], lines[i])
    IN  IF e.seeded \in BOOLEAN THEN emitted[Len(lines)] ELSE e

Emit(pf, s, dump) ==
    EmitLines(pf, s, EmitLines(pf, s, EmitStart, Halves(dump)[1]), Halves(dump)[2])

\* Nothing is written unless the scan accepted the whole dump.
Sanitized(pf, dump) ==
    LET s == Scan(pf, dump)
        e == Emit(pf, s, dump)
    IN  IF s.ok /\ Coherent(pf)
        THEN [ok |-> e.block = Nothing /\ e.seeded, out |-> e.out]
        ELSE [ok |-> FALSE, out |-> <<>>]
=============================================================================
