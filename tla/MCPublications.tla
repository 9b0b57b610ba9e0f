---------------------------- MODULE MCPublications ----------------------------
(***************************************************************************)
(* What public pages tell, in one run: a behaviour is one pipeline's, and  *)
(* the others stay in an initial state.  (They share nothing but the       *)
(* queue, whose place is taken by the lease that each of them models.)     *)
(***************************************************************************)
EXTENDS SourceFamilies, ReportedVolume, PublicStudies, StudyText, TLC

VARIABLE part

\* The processes of a part: collectors, checkers or study workers.
CONSTANTS w1, w2

Figure(n, i) == [label |-> n, images |-> <<i>>, hidden |-> FALSE]
Hidden(n, i) == [Figure(n, i) EXCEPT !.hidden = TRUE]
Pair(i, j) == <<Figure(1, i), Figure(2, j)>>
Caption(n, s) == [label |-> n, below |-> s, ignored |-> FALSE]
MCPages ==
    [f \in Families |->
       IF f = "kozaru"
       THEN {Pair(1, 2), Pair(2, 3), Pair(3, 4), Pair(1, 1),
             <<Figure(2, 1), Figure(1, 2)>>, <<Figure(1, 1), Hidden(2, 2)>>}
       ELSE {[elements |-> <<Caption(1, TRUE), Caption(2, s)>>, layout |-> TRUE,
              post |-> p, videos |-> v] : p \in {1, 2}, v \in {<<>>, <<3>>}, s \in BOOLEAN}]
MCContents == {{1, 2, 3}}
Start(listed, counted, shown) == [listed |-> listed, counted |-> counted, shown |-> shown]
MCEarlier ==
    [f \in Families |->
       IF f = "kozaru" THEN {Start({1, 2, 3}, {}, {}), Start({1, 2}, {1}, {1, 2})}
       ELSE {Start({}, {}, {}), Start({1, 2}, {1}, {1})}]
MCMaxCycles == [f \in Families |-> IF f = "kozaru" THEN 3 ELSE 2]
IdleFamilies == family = "pokesup" /\ discovered = 0
--------------------------------------------------------------------------------
CONSTANT r1

Said(n, decimal) ==
    [pokemon |-> TRUE, units |-> {10}, numbers |-> {[value |-> n, at |-> 5, decimal |-> decimal]}]
MCTexts == {Said(10, FALSE), Said(5, FALSE), Said(10, TRUE)}
MCVideos == <<11, 12>>
MCSkeets == <<13>>
MCManifests == {[ledger |-> 2, social |-> 0], [ledger |-> 0, social |-> 2]}
IdleVolume == imports.social = 0 /\ text = [p \in Posts |-> Said(10, FALSE)]
--------------------------------------------------------------------------------
CONSTANTS study1, study2, video, us, gb, site1, site2

MCCountry == [s \in Studies |-> us]
MCDomain == [s \in Studies |-> IF s = study1 THEN site1 ELSE site2]
MCStudyPacks == [s \in Studies |-> IF s = study1 THEN 2 ELSE 1]
MCObservedOn == [s \in Studies |-> 0]
--------------------------------------------------------------------------------
publicationVars == <<familyVars, volumeVars, studyVars, textVars, part>>

PublicationInit ==
    /\ FamilyInit /\ VolumeInit /\ StudyInit /\ TextInit
    /\ part \in {"families", "volume", "studies", "text"}
    /\ part # "families" => IdleFamilies
    /\ part # "volume" => IdleVolume

PublicationNext ==
    /\ UNCHANGED part
    /\ \/ part = "families" /\ FamilyNext
            /\ UNCHANGED <<volumeVars, studyVars, textVars>>
       \/ part = "volume" /\ VolumeNext
            /\ UNCHANGED <<familyVars, studyVars, textVars>>
       \/ part = "studies" /\ StudyNext
            /\ UNCHANGED <<familyVars, volumeVars, textVars>>
       \/ part = "text" /\ TextNext
            /\ UNCHANGED <<familyVars, volumeVars, studyVars>>

PublicationSpec == PublicationInit /\ [][PublicationNext]_publicationVars

\* The processes of a part are interchangeable.
PublicationSymmetry == Permutations({w1, w2})
================================================================================
