------------------------------ MODULE StoreBoot ------------------------------
(***************************************************************************)
(* Opening the store: SQLitePersistenceStore.open and the composition      *)
(* around it, from the empty file over the first boot and configuration    *)
(* upgrades to the restored owners.                                        *)
(*                                                                         *)
(* The connection is in autocommit mode, so every statement of the schema  *)
(* script is durable by itself; only the upgrade and the checkpoints are   *)
(* transactions.  A death, a DatabaseError or an exception of a factory    *)
(* can follow any statement.  Files are also damaged from outside: the     *)
(* checks of the open exist for that.                                      *)
(*                                                                         *)
(* What a life knows is abstracted to how many changes it saved.           *)
(***************************************************************************)
EXTENDS Integers, FiniteSets, Sequences

CONSTANTS
    Versions,       \* configuration versions of the programs that exist
    NoVersion,
    UpgradesFrom,   \* version -> upgrade_from_configuration_versions
    KeepLatest,     \* retention_policy.checkpoint_generations
    MaxSequence,    \* bound: checkpoint sequence numbers
    MaxOpens,       \* bound: opens
    MaxDamage       \* bound: damages from outside

ASSUME VersionAssumption ==
    /\ UpgradesFrom \in [Versions -> SUBSET Versions]
    /\ NoVersion \notin Versions
ASSUME KeepLatestAssumption == KeepLatest \in Nat \ {0}
ASSUME BootBounds == MaxSequence \in Nat /\ MaxOpens \in Nat /\ MaxDamage \in Nat

VARIABLES
    script,         \* how many statements of _create_schema are executed
    identity,       \* table identity: its configuration version, or NoVersion
    rows,           \* table checkpoints: sequence -> row
    marker,         \* has_committed_checkpoint = '1'
    control,        \* the protection control row exists
    program,        \* version of the running program
    pc,             \* its next step
    newSchema,      \* new_schema: this open created the tables
    content,        \* what the owners hold
    born,           \* history: subject IDs given out
    committed,      \* history: content of the last committed checkpoint
    opens,          \* history: opens so far
    damage          \* history: damages so far

store == <<script, identity, rows, marker, control>>
process == <<program, pc, newSchema, content>>
history == <<born, committed, opens, damage>>
vars == <<store, process, history>>

\* The statements of the script: four tables, the schema version, the marker.
Tables == 4
WithVersion == 5
Complete == 6

Rows == [version : Versions, content : Nat, intact : BOOLEAN]

TypeOK ==
    /\ script \in 0..Complete
    /\ identity \in IF pc \in {"snapshot", "equip", "up"} THEN Versions
                   ELSE Versions \cup {NoVersion}
    /\ DOMAIN rows \subseteq 1..MaxSequence
    /\ rows \in [DOMAIN rows -> Rows]
    /\ marker \in BOOLEAN
    /\ control \in BOOLEAN
    /\ program \in Versions \cup {NoVersion}
    /\ pc \in {"down", "tables", "create", "version", "identity", "snapshot", "equip",
               "up", "refused"}
    /\ newSchema \in BOOLEAN
    /\ content \in Nat
    /\ born \in Nat
    /\ committed \in Nat
    /\ opens \in 0..MaxOpens
    /\ damage \in 0..MaxDamage

NewestSequence == CHOOSE n \in DOMAIN rows \cup {0} : \A m \in DOMAIN rows : n >= m
NewestRow == rows[NewestSequence]
Empty == DOMAIN rows = {}

-----------------------------------------------------------------------------

Init ==
    /\ script = 0
    /\ identity = NoVersion
    /\ rows = <<>>
    /\ marker = FALSE
    /\ control = FALSE
    /\ program = NoVersion
    /\ pc = "down"
    /\ newSchema = FALSE
    /\ content = 0
    /\ born = 0
    /\ committed = 0
    /\ opens = 0
    /\ damage = 0

\* One statement or check of the open is done.
GoOn(step) ==
    /\ pc' = step
    /\ UNCHANGED <<program, history>>

\* The open raises and the store is closed.
Refuse ==
    /\ pc' = "refused"
    /\ UNCHANGED <<store, program, newSchema, content, history>>

Open(v) ==
    /\ pc = "down"
    /\ opens < MaxOpens
    /\ opens' = opens + 1
    /\ program' = v
    /\ pc' = "tables"
    /\ UNCHANGED <<store, newSchema, content, born, committed, damage>>

\* No table: a new database.  All of _REQUIRED_TABLES: an existing one.
InspectTables ==
    /\ pc = "tables"
    /\ newSchema' = (script = 0)
    /\ \/ script = 0 /\ GoOn("create")
       \/ script >= Tables /\ GoOn("version")
    /\ UNCHANGED <<store, content>>

RefuseTables == pc = "tables" /\ script \in 1..(Tables - 1) /\ Refuse

\* One statement of _create_schema.
CreateStatement ==
    /\ pc = "create"
    /\ script' = script + 1
    /\ GoOn(IF script' = Complete THEN "version" ELSE "create")
    /\ UNCHANGED <<identity, rows, marker, control, newSchema, content>>

CheckSchemaVersion ==
    /\ pc = "version"
    /\ script >= WithVersion
    /\ GoOn("identity")
    /\ UNCHANGED <<store, newSchema, content>>

RefuseSchemaVersion == pc = "version" /\ script < WithVersion /\ Refuse

-----------------------------------------------------------------------------
(* The life identity *)

\* Faulty variant of MayCreateIdentity: also in a database that has a schema.
MayCreateIdentityAlways == TRUE

\* allow_create
MayCreateIdentity == newSchema

FirstVersion == program

CreateIdentity ==
    /\ pc = "identity"
    /\ identity = NoVersion
    /\ MayCreateIdentity
    /\ identity' = FirstVersion
    /\ born' = born + 1
    /\ pc' = "snapshot"
    /\ UNCHANGED <<script, rows, marker, control, program, newSchema, content,
                   committed, opens, damage>>

KeepIdentity ==
    /\ pc = "identity"
    /\ identity = program
    /\ GoOn("snapshot")
    /\ UNCHANGED <<store, newSchema, content>>

\* Faulty variant of Readable: an empty table is always a new life.
ReadableUnmarked == ~Empty => NewestRow.intact /\ NewestRow.version = identity

\* _read_latest_snapshot: the newest row is whole and of this identity, or no
\* checkpoint was ever committed.
Readable ==
    IF Empty THEN script = Complete /\ ~marker
    ELSE NewestRow.intact /\ NewestRow.version = identity

\* Faulty variant of UpgradedRows: the checkpoint is not rewritten.
UpgradedRowsKept == rows

\* A copy of the newest checkpoint under the new version.
UpgradedRows ==
    IF Empty THEN rows
    ELSE LET next == NewestSequence + 1
         IN  [n \in DOMAIN rows \cup {next} |->
                 IF n = next THEN [NewestRow EXCEPT !.version = program] ELSE rows[n]]

\* _upgrade_configuration: identity and checkpoint in one transaction.
Upgrade ==
    /\ pc = "identity"
    /\ identity \in UpgradesFrom[program] \ {program}
    /\ Readable
    /\ NewestSequence < MaxSequence
    /\ identity' = program
    /\ rows' = UpgradedRows
    /\ GoOn("snapshot")
    /\ UNCHANGED <<script, marker, control, newSchema, content>>

Supported == identity \in UpgradesFrom[program] \cup {program}

RefuseIdentity ==
    /\ pc = "identity"
    /\ \/ identity = NoVersion /\ ~MayCreateIdentity
       \/ identity # NoVersion /\ ~Supported
       \/ identity \in UpgradesFrom[program] \ {program} /\ ~Readable
    /\ Refuse

-----------------------------------------------------------------------------
(* The newest checkpoint, the further tables, and the owners *)

\* The session row is inserted, and the owners take what was saved.
ReadSnapshot ==
    /\ pc = "snapshot"
    /\ Readable
    /\ content' = IF Empty THEN 0 ELSE NewestRow.content
    /\ GoOn("equip")
    /\ UNCHANGED <<store, newSchema>>

RefuseSnapshot == pc = "snapshot" /\ ~Readable /\ Refuse

\* initialize_protection_storage, initialize_capability_storage and
\* initialize_intelligence_storage: what exists already is kept.
Equip ==
    /\ pc = "equip"
    /\ control' = TRUE
    /\ GoOn("up")
    /\ UNCHANGED <<script, identity, rows, marker, newSchema, content>>

-----------------------------------------------------------------------------
(* The running life *)

\* A lifecycle changes what the owners hold, and is saved.
Commit ==
    /\ pc = "up"
    /\ NewestSequence < MaxSequence
    /\ content' = content + 1
    /\ rows' = [n \in DOMAIN rows \cup {NewestSequence + 1} |->
                   IF n = NewestSequence + 1
                   THEN [version |-> program, content |-> content', intact |-> TRUE]
                   ELSE rows[n]]
    /\ marker' = TRUE
    /\ committed' = content'
    /\ UNCHANGED <<script, identity, control, program, pc, newSchema, born, opens, damage>>

\* prune_checkpoints
Prune ==
    /\ pc = "up"
    /\ rows' = [n \in {k \in DOMAIN rows :
                          Cardinality({m \in DOMAIN rows : m > k}) < KeepLatest} |-> rows[n]]
    /\ UNCHANGED <<script, identity, marker, control, process, history>>

\* The process ends: a shutdown, a death, or a failed or refused open.
Stop ==
    /\ pc # "down"
    /\ pc' = "down"
    /\ program' = NoVersion
    /\ newSchema' = FALSE
    /\ content' = 0
    /\ UNCHANGED <<store, history>>

\* A stopped database loses its checkpoints or its identity, or a checkpoint no
\* longer matches its checksum.
Damage ==
    /\ pc = "down"
    /\ damage < MaxDamage
    /\ damage' = damage + 1
    /\ \/ ~Empty /\ rows' = <<>> /\ UNCHANGED identity
       \/ identity' = NoVersion /\ UNCHANGED rows
       \/ \E n \in DOMAIN rows :
             rows' = [rows EXCEPT ![n].intact = FALSE] /\ UNCHANGED identity
    /\ UNCHANGED <<script, marker, control, process, born, committed, opens>>

Next ==
    \/ \E v \in Versions : Open(v)
    \/ InspectTables \/ RefuseTables \/ CreateStatement
    \/ CheckSchemaVersion \/ RefuseSchemaVersion
    \/ CreateIdentity \/ KeepIdentity \/ Upgrade \/ RefuseIdentity
    \/ ReadSnapshot \/ RefuseSnapshot \/ Equip
    \/ Commit \/ Prune \/ Stop \/ Damage

Spec == Init /\ [][Next]_vars

-----------------------------------------------------------------------------
(* Properties *)

\* A database is one life for ever: whatever boot was interrupted and whatever
\* was lost, no second subject ID is given out (_read_or_create_identity).
OneSubject == born <= 1

\* A life that runs holds what was last committed, also after upgrades,
\* prunings and damage: it never starts as an empty new life or on an older
\* generation (docs/03_design/012 section 5).
ResumesWhatWasCommitted == pc = "up" => content = committed /\ identity = program

\* The identity and the newest checkpoint are always of the same configuration.
VersionsAgree == identity # NoVersion /\ ~Empty => NewestRow.version = identity

\* Once a life is born and its file is undamaged, every program that supports
\* its version opens it, whatever open or upgrade was cut off before.
BornMeansOpenable == pc = "refused" /\ identity # NoVersion /\ damage = 0 => ~Supported
=============================================================================
