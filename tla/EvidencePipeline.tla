--------------------------- MODULE EvidencePipeline ---------------------------
(***************************************************************************)
(* From one source text to an evidence decision (validation/pipeline.py,      *)
(* decisions.py, prechecks.py, catalog.py): an extraction, deterministic      *)
(* checks and the catalog, an independent validation, and at most one        *)
(* escalation when the two disagree.  Any call may find the budget paused.   *)
(*                                                                         *)
(* The models may answer anything their schemas allow.  An answer is its     *)
(* set name, its product, its tier and its verdict; `sound` is high           *)
(* confidence without a conflict code or a contradicted or weak field check,  *)
(* `fits` that its cards agree with the catalog, and `eligible` that every    *)
(* other condition of the rates holds.                                      *)
(***************************************************************************)
CONSTANTS
    SetNames,       \* names an answer may give its set
    Catalogued,     \* those the catalog matches, each to a set of its own
    NoSet,          \* no set name
    Products        \* product types: a subset of {"box", "other"}

VARIABLES
    stage,          \* the call that is due, or "decided"
    answers,        \* [extraction, validation, escalation -> answer or NoAnswer]
    evidence        \* the decision

evidenceVars == <<stage, answers, evidence>>

NoAnswer == [made |-> FALSE]
Names == SetNames \cup {NoSet}
RateTiers == {"A", "B"}
Tiers == {"A", "B", "C", "D"}

Extractions ==
    [made : {TRUE}, set : Names, product : Products, tier : Tiers, sound : BOOLEAN]
Validations ==
    {v \in [made : {TRUE}, set : Names, product : Products, tier : Tiers,
            verdict : {"accept", "activity_only", "reject"},
            sound : BOOLEAN, fits : BOOLEAN, eligible : BOOLEAN] :
        v.eligible => v.verdict = "accept"}

Undecided == [status |-> "none", source |-> "none", rates |-> FALSE]
Rejected == [status |-> "rejected", source |-> "none", rates |-> FALSE]
Paused == [status |-> "paused", source |-> "none", rates |-> FALSE]
Activity(source) == [status |-> "activity_only", source |-> source, rates |-> FALSE]
AcceptedFrom(source) == [status |-> "accepted", source |-> source, rates |-> TRUE]

EvidenceInit ==
    /\ stage = "extract"
    /\ answers = [extraction |-> NoAnswer, validation |-> NoAnswer, escalation |-> NoAnswer]
    /\ evidence = Undecided

Ext == answers.extraction
Decides(decision) == stage' = "decided" /\ evidence' = decision
Continues(next) == stage' = next /\ UNCHANGED evidence

----------------------------------------------------------------------------
(* The facts that are compared, and the verdict a tier should get.          *)
Facts(a) == <<a.set, a.product, a.tier>>
SameFacts(a, b) == Facts(a) = Facts(b)
ExpectedVerdict(tier) == IF tier \in RateTiers THEN "accept" ELSE "activity_only"
VerdictAgrees(e, v) ==
    IF e.tier \in RateTiers THEN v.verdict = "accept" ELSE v.verdict \in {"accept", "activity_only"}

(* An answer that was chosen is judged on its own, with the extraction's     *)
(* tier.                                                                    *)
Resolved(e, v, source) ==
    IF v.verdict = "reject" THEN Rejected
    ELSE IF v.verdict = "activity_only" THEN Activity(source)
    ELSE IF v.product # "box" THEN Rejected
    ELSE IF e.tier \in RateTiers /\ v.tier \in RateTiers /\ v.eligible THEN AcceptedFrom(source)
    ELSE Activity(source)

(* resolve_evidence, before and after the escalation.                       *)
HardlyRejected(e, v) == e.product # "box" \/ ~e.sound \/ ~v.sound
BothD(e, v) == e.tier = "D" /\ v.tier = "D" /\ v.verdict # "reject"
Agreed(e, v) == SameFacts(e, v) /\ VerdictAgrees(e, v)

ConfirmsValidatorLoosely(v, x) == v.verdict = x.verdict
ConfirmsValidator(v, x) == SameFacts(v, x) /\ v.verdict = x.verdict

Escalated(e, v, x) ==
    IF /\ x.sound
       /\ \/ SameFacts(e, x) /\ x.verdict = ExpectedVerdict(e.tier)
          \/ ConfirmsValidator(v, x)
    THEN Resolved(e, x, "escalation") ELSE Rejected

----------------------------------------------------------------------------
(* A tier that may count needs a set; the catalog must know it then.        *)
PassesPrechecks(e) ==
    e.product = "box" /\ (e.tier \in RateTiers => e.set # NoSet)

(* The set the catalog matched, from the extraction's name only.            *)
MatchedSet(e) == IF e.set \in Catalogued THEN e.set ELSE NoSet
CatalogFails(e) == e.set \notin Catalogued \cup {NoSet}
Fits(e, v) == MatchedSet(e) = NoSet \/ v.fits

Extract(e) ==
    /\ stage = "extract"
    /\ answers' = [answers EXCEPT !.extraction = e]
    /\ IF ~PassesPrechecks(e) \/ (CatalogFails(e) /\ e.tier \in RateTiers)
       THEN Decides(Rejected) ELSE Continues("validate")

(* The set id of a validation is copied from the matched set.               *)
Validate(v) ==
    /\ stage = "validate"
    /\ answers' = [answers EXCEPT !.validation = v]
    /\ IF ~Fits(Ext, v) \/ HardlyRejected(Ext, v) THEN Decides(Rejected)
       ELSE IF BothD(Ext, v) THEN Decides(Activity("validation"))
       ELSE IF Agreed(Ext, v) THEN Decides(Resolved(Ext, v, "validation"))
       ELSE Continues("escalate")

(* Without a configured escalation the disagreement is final.               *)
Unescalated ==
    /\ stage = "escalate"
    /\ Decides(Rejected)
    /\ UNCHANGED answers

Escalate(x) ==
    /\ stage = "escalate"
    /\ answers' = [answers EXCEPT !.escalation = x]
    /\ Decides(IF Fits(Ext, x) THEN Escalated(Ext, answers.validation, x) ELSE Rejected)

(* A paused call ends this attempt; the job starts again with the           *)
(* extraction.                                                              *)
PauseFor ==
    /\ stage \in {"extract", "validate", "escalate"}
    /\ Decides(Paused)
    /\ UNCHANGED answers

TryAgain ==
    /\ evidence = Paused
    /\ stage' = "extract" /\ evidence' = Undecided
    /\ answers' = [extraction |-> NoAnswer, validation |-> NoAnswer, escalation |-> NoAnswer]

EvidenceNext ==
    \/ \E e \in Extractions : Extract(e)
    \/ \E v \in Validations : Validate(v) \/ Escalate(v)
    \/ Unescalated \/ PauseFor \/ TryAgain

EvidenceSpec == EvidenceInit /\ [][EvidenceNext]_evidenceVars

----------------------------------------------------------------------------
(* A decision that selects an answer was made, from an answer that was.     *)
EvidenceTypeOK ==
    /\ stage \in {"extract", "validate", "escalate", "decided"}
    /\ evidence = Undecided <=> stage # "decided"
    /\ evidence.source # "none" => answers[evidence.source].made
    /\ answers.escalation.made => answers.validation.made

Selected == answers[evidence.source]
Consulted == {a \in {answers.validation, answers.escalation} : a.made}

(* What counts towards the rates was seen alike, product included, by two of *)
(* the three answers, in a tier that may count for the extraction as well;   *)
(* nobody consulted was unsure, and the validators that carried the vote     *)
(* accepted it.                                                             *)
RatesRestOnTwo ==
    evidence.rates =>
        /\ Ext.tier \in RateTiers /\ Selected.tier \in RateTiers
        /\ \A a \in Consulted \cup {Ext} : a.sound
        /\ \/ Facts(Ext) = Facts(Selected)
           \/ \A v \in Consulted : Facts(v) = Facts(Selected) /\ v.verdict = "accept"

(* A paused budget, a misfit with the catalog or an unresolved disagreement  *)
(* never leaves an answer behind that counts.                               *)
FailsClosed ==
    evidence.source # "none" =>
        /\ MatchedSet(Ext) # NoSet => \A a \in Consulted : a.fits
        /\ CatalogFails(Ext) => ~evidence.rates

(* The observation is filed under the set its selected facts name.           *)
FiledUnderObservedSet == evidence.rates => Selected.set = MatchedSet(Ext)

(* An answer counts only with a second one behind it, or not at all.        *)
EvidenceInv == EvidenceTypeOK /\ RatesRestOnTwo /\ FailsClosed
================================================================================
