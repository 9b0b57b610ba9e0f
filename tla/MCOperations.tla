------------------------------ MODULE MCOperations ------------------------------
(***************************************************************************)
(* What keeps the system running, in one run: a behaviour is one part's,   *)
(* and the others stay in their initial states.  (Nothing is shared: the   *)
(* parts are separate programs, or run in separate processes.)             *)
(***************************************************************************)
EXTENDS TLC, BackupRun, BrowserProfile, AdapterSlot, MigrationText,
        MigrationRunner, MemoryRepository

VARIABLE part
--------------------------------------------------------------------------------
\* Three study profiles, the second and third with a coverage source awaiting
\* its first collection, and a migration history that adds every optional group.
MCProfiles == <<{"s1", "c1"}, {"s1", "c1", "c2"}, {"s1", "c1", "c2", "c3"}>>
MCAwaited  == <<{}, {"c2"}, {"c3"}>>
MCStudyShape    == <<1, 2, 2>>
MCCoverageShape == <<1, 1, 2>>
MCSchema(groups, ledgers, profile) ==
    [groups |-> groups, ledgers |-> ledgers, profile |-> profile]
MCSchemas ==
    <<MCSchema({}, "none", 1),
      MCSchema({"youtube"}, "none", 1),
      MCSchema({"youtube", "studies"}, "none", 1),
      MCSchema({"youtube", "studies", "bluesky"}, "fixed", 2),
      MCSchema({"youtube", "studies", "bluesky", "nostr", "mastodon"}, "variable", 2),
      MCSchema({"youtube", "studies", "bluesky", "nostr", "mastodon", "bridge"},
               "variable", 3)>>
--------------------------------------------------------------------------------
\* The processes that act in a part: managers, commands, releases or workers.
CONSTANTS p1, p2, pid1, pid2
MCCheckouts == {{1, 2, 3}, {1, 2, 4}, {1, 2, 3, 4}, {1, 2, 3, 4, 5}}
MCDeletes == <<0, 1, 0, 1, 1>>
MCReviewed == <<0, 0, 0, 1, 0>>
\* A dollar quote's delimiter, and the same characters after an identifier's.
MCGlued == "x$a$" :> "$a$"
--------------------------------------------------------------------------------
\* Two jobs that a schedule slot competes for.
CONSTANTS j1, j2, slot
MCKindOf == [j \in Jobs |-> "aggregate"]
MCKeyOf == [j \in Jobs |-> slot]
MCPriorityOf == [j \in Jobs |-> 0]
\* min(3600, 30 * 2^(attempt - 1)) seconds, scaled to ticks.
MCBackoff == [n \in 1..MaxAttempts |-> n]
--------------------------------------------------------------------------------
operationVars == <<backupVars, profileVars, slotVars, scriptVars, migrationVars, memoryVars, part>>

OperationInit ==
    /\ BackupInit /\ ProfileInit /\ SlotInit /\ ScriptInit /\ MigrationInit /\ MemoryInit
    /\ part \in {"backup", "profile", "adapters", "script", "migration", "memory"}
    /\ part = "profile" \/ pidfds

OperationNext ==
    /\ UNCHANGED part
    /\ \/ part = "backup" /\ BackupNext
            /\ UNCHANGED <<profileVars, slotVars, scriptVars, migrationVars, memoryVars>>
       \/ part = "profile" /\ ProfileNext
            /\ UNCHANGED <<backupVars, slotVars, scriptVars, migrationVars, memoryVars>>
       \/ part = "adapters" /\ SlotNext
            /\ UNCHANGED <<backupVars, profileVars, scriptVars, migrationVars, memoryVars>>
       \/ part = "script" /\ ScriptNext
            /\ UNCHANGED <<backupVars, profileVars, slotVars, migrationVars, memoryVars>>
       \/ part = "migration" /\ MigrationNext
            /\ UNCHANGED <<backupVars, profileVars, slotVars, scriptVars, memoryVars>>
       \/ part = "memory" /\ MemoryNext
            /\ UNCHANGED <<backupVars, profileVars, slotVars, scriptVars, migrationVars>>

OperationSpec == OperationInit /\ [][OperationNext]_operationVars

\* Within a part its processes, pids and jobs are interchangeable.
OperationSymmetry ==
    Permutations({p1, p2}) \cup Permutations({pid1, pid2}) \cup Permutations({j1, j2})
================================================================================
