--------------------------- MODULE LifeContinuity ---------------------------
(***************************************************************************)
(* One life across many processes: the stage-16 system driving its         *)
(* lifecycles over the SQLite store.                                       *)
(*                                                                         *)
(* The durable part is the table of checkpoints, the "has committed        *)
(* checkpoint" marker, the table of sessions and the protection mode.      *)
(* The volatile part is the runtime, the State organ, the information the  *)
(* owners (Core, Memory, Relationship) hold in memory and the call that is *)
(* being served.  The program is single threaded, so at most one call is   *)
(* in progress; it is cut into the steps between which a crash or an       *)
(* exception leaves different things behind.                               *)
(*                                                                         *)
(* What a lifecycle writes is abstracted to facts: a text input leaves     *)
(* four (the lifecycle record, the turns of the exchange, its retention    *)
(* candidates, and the long-term memory decision), a new dialogue context  *)
(* and a capability result leave one each.  A new context also replaces    *)
(* the one before it: the turns of the old context leave the memory, and   *)
(* what remains of them is the ID of their context among the retired ones. *)
(***************************************************************************)
EXTENDS Integers, FiniteSets, Sequences

CONSTANTS
    Inputs,         \* raw text inputs, by input ID
    Contexts,       \* requests for a new dialogue context
    Keys,           \* read-capability uses, by idempotency key
    KeepLatest,     \* retention_policy.checkpoint_generations
    MaxSessions,    \* bound: process starts
    MaxSequence,    \* bound: checkpoint sequence numbers
    NoCall          \* the idle value of call

ASSUME KeepLatestAssumption == KeepLatest \in Nat \ {0}
ASSUME BoundAssumption == MaxSessions \in Nat /\ MaxSequence \in Nat
ASSUME CallAssumption ==
    /\ NoCall \notin Inputs \cup Contexts \cup Keys
    /\ "time" \notin Inputs \cup Contexts \cup Keys
    /\ NoCall # "time"
    /\ Inputs \cap Contexts = {} /\ Inputs \cap Keys = {} /\ Contexts \cap Keys = {}

VARIABLES
    checkpoints,    \* table checkpoints: sequence -> facts in the payload
    marked,         \* metadata has_committed_checkpoint
    sessions,       \* table sessions: the status column, in rowid order
    mode,           \* protection_control.mode
    up,             \* a process holds the store open
    runtime,        \* Stage2Runtime._status
    startup,        \* Stage7System._startup_opportunity is pending
    state,          \* State._operating_state
    restored,       \* Stage7State._restored_for_restart
    healthy,        \* Stage7TextInputRunner._persistence_healthy
    material,       \* facts the owners hold in memory
    seen,           \* Sensation._seen_input_ids
    call,           \* the request being served
    pc,             \* its next step
    raised,         \* an exception has left the system call
    answered,       \* history: requests whose outcome was returned
    failedSave,     \* history: in this session a durable write failed after a text
                    \* input had changed the owners' information
    lastSaved,      \* history: sequence of the last committed checkpoint
    endings         \* history: how each session ended

durable == <<checkpoints, marked, sessions, mode>>
process == <<up, runtime, startup, state, restored, healthy, material, seen>>
control == <<call, pc, raised>>
history == <<answered, failedSave, lastSaved, endings>>
vars == <<durable, process, control, history>>

Parts == {"record", "turns", "candidates", "memory"}
Turns == Inputs \X {"turns"}
Facts == (Inputs \X (Parts \cup {"retired"})) \cup Contexts \cup Keys
Requests == Inputs \cup Contexts \cup Keys

FactsOf(request) ==
    IF request \in Inputs THEN {request} \X Parts
    ELSE IF request \in Contexts \cup Keys THEN {request} ELSE {}

\* What remains of the turns of a context that was replaced: its retired ID.
Remains(fact) == <<fact[1], "retired">>

\* The active context gives way: persistence_snapshot saves the turns of the
\* active context only, and the IDs of the retired ones.
PutAway(facts) == (facts \ Turns) \cup {Remains(fact) : fact \in facts \cap Turns}

Statuses == {"not_started", "active", "waiting", "stopped"}

TypeOK ==
    /\ DOMAIN checkpoints \subseteq 1..lastSaved
    /\ checkpoints \in [DOMAIN checkpoints -> SUBSET Facts]
    /\ marked \in BOOLEAN
    /\ sessions \in Seq({"running", "normal"})
    /\ mode \in {"normal", "protected"}
    /\ up \in BOOLEAN
    /\ runtime \in Statuses
    /\ startup \in BOOLEAN
    /\ state \in Statuses
    /\ restored \in BOOLEAN
    /\ healthy \in BOOLEAN
    /\ material \subseteq Facts
    /\ seen \subseteq Inputs
    /\ call \in Requests \cup {"time", NoCall}
    /\ pc \in {"idle", "observe", "tick_save", "tick_prune", "accept", "record",
               "exchange", "remember", "recontext", "capability", "save", "prune"}
    /\ raised \in BOOLEAN
    /\ answered \subseteq Requests
    /\ failedSave \in BOOLEAN
    /\ lastSaved \in Nat
    /\ endings \in Seq({"open", "quit", "unwound", "unsaved", "died"})

-----------------------------------------------------------------------------
(* The store *)

\* SELECT COALESCE(MAX(sequence), 0) FROM checkpoints
LatestSequence ==
    CHOOSE n \in DOMAIN checkpoints \cup {0} : \A m \in DOMAIN checkpoints : n >= m

\* What _read_latest_snapshot hands to the owners.
LatestFacts == IF DOMAIN checkpoints = {} THEN {} ELSE checkpoints[LatestSequence]

\* Faulty variant of Kept: keeps the oldest generations.
KeptOldest(keep) ==
    {n \in DOMAIN checkpoints :
        Cardinality({m \in DOMAIN checkpoints : m < n}) < keep}

\* The generations prune_checkpoints(keep_latest = keep) retains.
Kept(keep) ==
    {n \in DOMAIN checkpoints :
        Cardinality({m \in DOMAIN checkpoints : m > n}) < keep}

\* prune_checkpoints; a failure of it is swallowed.
Prune ==
    \/ checkpoints' = [n \in Kept(KeepLatest) |-> checkpoints[n]]
    \/ UNCHANGED checkpoints

\* commit_snapshot: one transaction inserts the row and sets the marker.
InsertCheckpoint ==
    LET n == LatestSequence + 1
    IN  /\ checkpoints' = [m \in DOMAIN checkpoints \cup {n} |->
                              IF m = n THEN material ELSE checkpoints[m]]
        /\ marked' = TRUE
        /\ lastSaved' = n

-----------------------------------------------------------------------------
(* How a call ends *)

Return ==
    /\ pc' = "idle"
    /\ call' = NoCall
    /\ UNCHANGED raised

Raise ==
    /\ pc' = "idle"
    /\ call' = NoCall
    /\ raised' = TRUE

-----------------------------------------------------------------------------
(* Opening the store and composing the system *)

Init ==
    /\ checkpoints = <<>>
    /\ marked = FALSE
    /\ sessions = <<>>
    /\ mode = "normal"
    /\ up = FALSE
    /\ runtime = "not_started"
    /\ startup = FALSE
    /\ state = "not_started"
    /\ restored = FALSE
    /\ healthy = TRUE
    /\ material = {}
    /\ seen = {}
    /\ call = NoCall
    /\ pc = "idle"
    /\ raised = FALSE
    /\ answered = {}
    /\ failedSave = FALSE
    /\ lastSaved = 0
    /\ endings = <<>>

\* SQLitePersistenceStore.open, then restore_owned_* into fresh owners.
Open ==
    /\ ~up
    /\ Len(sessions) < MaxSessions
    /\ up' = TRUE
    /\ sessions' = Append(sessions, "running")
    /\ endings' = Append(endings, "open")
    /\ runtime' = "not_started"
    /\ startup' = FALSE
    /\ state' = IF marked THEN "waiting" ELSE "not_started"
    /\ restored' = marked
    /\ healthy' = TRUE
    /\ material' = LatestFacts
    /\ seen' = {}
    /\ failedSave' = FALSE
    /\ call' = NoCall
    /\ pc' = "idle"
    /\ raised' = FALSE
    /\ UNCHANGED <<checkpoints, marked, mode, answered, lastSaved>>

-----------------------------------------------------------------------------
(* Entry points.  A call is taken only by an idle process; the checks are  *)
(* those at the head of run_time_cycle, receive_text,                      *)
(* start_new_dialogue_context and use_read_capability.                     *)

Idle == up /\ pc = "idle" /\ ~raised

\* The startup opportunity is still to be run.
StartupDue == runtime = "not_started" \/ startup

\* Faulty variants of MayServe: an entry point without one of its checks.
MayServeUnhealthy(request) ==
    /\ mode = "normal"
    /\ StartupDue \/ runtime = "waiting"
MayServeProtected(request) ==
    /\ healthy
    /\ StartupDue \/ runtime = "waiting"

MayServe(request) ==
    /\ mode = "normal"
    /\ healthy
    /\ StartupDue \/ runtime = "waiting"

\* The step that follows the entry checks once the runtime is waiting.
FirstStep(request) ==
    CASE request \in Inputs -> "accept"
      [] request \in Contexts -> "recontext"
      [] OTHER -> "capability"

\* system.start(): takes the startup opportunity without running it.
Start ==
    /\ Idle
    /\ runtime = "not_started"
    /\ runtime' = "active"
    /\ startup' = TRUE
    /\ UNCHANGED <<durable, up, state, restored, healthy, material, seen, control, history>>

\* run_time_cycle, and the nested call of it by the other entry points when
\* the startup opportunity has not been run.  runtime.start and
\* runtime.periodic_opportunity both leave the runtime active.
BeginTimeCycle(request) ==
    /\ Idle
    /\ MayServe(request)
    /\ request = "time" \/ StartupDue
    /\ call' = request
    /\ pc' = "observe"
    /\ runtime' = "active"
    /\ startup' = FALSE
    /\ UNCHANGED <<durable, up, state, restored, healthy, material, seen, raised, history>>

\* receive_text, start_new_dialogue_context, use_read_capability.
BeginRequest(request) ==
    /\ Idle
    /\ MayServe(request)
    /\ ~StartupDue
    /\ call' = request
    /\ pc' = FirstStep(request)
    /\ UNCHANGED <<durable, process, raised, history>>

\* An entry check fails, or periodic_opportunity reports a clock
\* discontinuity: the call raises and changes nothing.
RefuseCall ==
    /\ Idle
    /\ \/ ~healthy
       \/ mode = "protected"
       \/ runtime \in {"active", "waiting"} /\ ~startup
    /\ Raise
    /\ UNCHANGED <<durable, process, history>>

\* receive_text under protection enters the text runner at once, past the
\* startup cycle: the boundary rejects the input, the runner prunes, and the
\* outcome says so.  (Its audit row may fail: RefuseCall.)
RejectUnderProtection ==
    /\ Idle
    /\ healthy
    /\ mode = "protected"
    /\ Prune
    /\ UNCHANGED <<marked, sessions, mode, process, control, history>>

-----------------------------------------------------------------------------
(* The input-free lifecycle *)

\* State observes, Judgment proposes no action, Core finalizes, State and
\* runtime wait.
Observe ==
    /\ pc = "observe"
    /\ state \in {"not_started", "waiting"}
    /\ state' = "waiting"
    /\ restored' = FALSE
    /\ runtime' = "waiting"
    /\ pc' = "tick_save"
    /\ UNCHANGED <<durable, up, startup, healthy, material, seen, call, raised, history>>

\* Faulty variant of RuntimeAfterRefusedRestart: a cleanup that waits anyway.
RuntimeWaitsAnyway == "waiting"

\* The opportunity was consumed and nothing gives it back.
RuntimeAfterRefusedRestart == "active"

\* A restored State refuses an external time before its persisted one; the
\* startup opportunity is gone and the runtime stays active.
RestartPrecedesState ==
    /\ pc = "observe"
    /\ restored
    /\ runtime' = RuntimeAfterRefusedRestart
    /\ Raise
    /\ UNCHANGED <<durable, up, startup, state, restored, healthy, material, seen, history>>

-----------------------------------------------------------------------------
(* The text lifecycle, Stage10TextInputRunner.run and its later hooks *)

\* Boundary validation, Sensation, Core.accept_event, Judgment, expression
\* and output release; the owners' records are still untouched.
Accept ==
    /\ pc = "accept"
    /\ call \notin seen
    /\ seen' = seen \cup {call}
    /\ pc' = "record"
    /\ UNCHANGED <<durable, up, runtime, startup, state, restored, healthy,
                   material, call, raised, history>>

\* The boundary rejects the input, or Sensation has seen its ID: nothing is
\* recorded, old generations are pruned, and the outcome says so.
TurnAway ==
    /\ pc = "accept"
    /\ Prune
    /\ Return
    /\ UNCHANGED <<marked, sessions, mode, process, history>>

\* An audit row cannot be written while the input is validated or the output
\* is released: the exception passes the runner without marking the store.
AuditFails ==
    /\ pc = "accept"
    /\ \/ seen' = seen
       \/ seen' = seen \cup {call}
    /\ Raise
    /\ UNCHANGED <<durable, up, runtime, startup, state, restored, healthy,
                   material, history>>

\* Core.record_completed_lifecycle.
RecordLifecycle ==
    /\ pc = "record"
    /\ material' = material \cup {<<call, "record">>}
    /\ pc' = "exchange"
    /\ UNCHANGED <<durable, up, runtime, startup, state, restored, healthy,
                   seen, call, raised, history>>

\* Relationship.record_completed_exchange and the retention candidates.
RecordExchange ==
    /\ pc = "exchange"
    /\ material' = material \cup ({call} \X {"turns", "candidates"})
    /\ pc' = "remember"
    /\ UNCHANGED <<durable, up, runtime, startup, state, restored, healthy,
                   seen, call, raised, history>>

\* The input was received before the last update of the dialogue context.
ExchangePrecedesContext ==
    /\ pc = "exchange"
    /\ Raise
    /\ UNCHANGED <<durable, process, history>>

\* Faulty variant of AfterRemember: the outcome is returned unsaved.
AfterRememberUnsaved == "prune"

\* The step after _record_long_term_memory.
AfterRemember == "save"

\* _record_long_term_memory.
Remember ==
    /\ pc = "remember"
    /\ material' = material \cup {<<call, "memory">>}
    /\ pc' = AfterRemember
    /\ UNCHANGED <<durable, up, runtime, startup, state, restored, healthy,
                   seen, call, raised, history>>

\* The trace of the memory interpretation cannot be stored.  This write is
\* outside the try block that marks the store unhealthy.
InterpretationTraceFails ==
    /\ pc = "remember"
    /\ failedSave' = TRUE
    /\ Raise
    /\ UNCHANGED <<durable, process, answered, lastSaved, endings>>

-----------------------------------------------------------------------------
(* A new dialogue context, and a read capability *)

\* Relationship.start_new_context: an empty context replaces the active one.
StartNewContext ==
    /\ pc = "recontext"
    /\ material' = PutAway(material) \cup {call}
    /\ pc' = "save"
    /\ UNCHANGED <<durable, up, runtime, startup, state, restored, healthy,
                   seen, call, raised, history>>

\* The new context would precede the active one.
NewContextPrecedes ==
    /\ pc = "recontext"
    /\ Raise
    /\ UNCHANGED <<durable, process, history>>

\* The capability ran and its result is evidence for the active context
\* (the gate itself is module CapabilityGate).
RecordCapabilityEvidence ==
    /\ pc = "capability"
    /\ material' = material \cup {call}
    /\ pc' = "save"
    /\ UNCHANGED <<durable, up, runtime, startup, state, restored, healthy,
                   seen, call, raised, history>>

\* Rejected, duplicate, or no active context of this authority: the outcome
\* is returned without a checkpoint.
CapabilityWithoutEvidence ==
    /\ pc = "capability"
    /\ Return
    /\ UNCHANGED <<durable, process, history>>

\* A PersistenceError of the gate marks the store unhealthy.
CapabilityStoreFails ==
    /\ pc = "capability"
    /\ healthy' = FALSE
    /\ Raise
    /\ UNCHANGED <<durable, up, runtime, startup, state, restored, material, seen, history>>

-----------------------------------------------------------------------------
(* Checkpoints *)

Saving == pc \in {"tick_save", "save"}

\* Stage8SnapshotCoordinator.commit: authorize_persistence_update, then one
\* checkpoint transaction.
Commit ==
    /\ Saving
    /\ mode = "normal"
    /\ state = "waiting"
    /\ LatestSequence < MaxSequence
    /\ InsertCheckpoint
    /\ pc' = IF pc = "tick_save" THEN "tick_prune" ELSE "prune"
    /\ UNCHANGED <<sessions, mode, process, call, raised, answered, failedSave, endings>>

\* The trace row, the audit row or the checkpoint cannot be written.
CommitFails ==
    /\ Saving
    /\ healthy' = FALSE
    /\ failedSave' = (failedSave \/ call \in Inputs)
    /\ Raise
    /\ UNCHANGED <<durable, up, runtime, startup, state, restored, material, seen,
                   answered, lastSaved, endings>>

\* The lifecycle that began with the opportunity is complete: a time cycle
\* returns, a nested one goes on to the request.
EndTimeCycle ==
    /\ pc = "tick_prune"
    /\ Prune
    /\ \/ call = "time" /\ Return
       \/ call # "time" /\ pc' = FirstStep(call) /\ UNCHANGED <<call, raised>>
    /\ UNCHANGED <<marked, sessions, mode, process, history>>

\* The outcome is returned to the caller.
EndRequest ==
    /\ pc = "prune"
    /\ Prune
    /\ answered' = answered \cup {call}
    /\ Return
    /\ UNCHANGED <<marked, sessions, mode, process, failedSave, lastSaved, endings>>

\* Pruning fails with something else than a PersistenceError, after the
\* checkpoint: the call raises, and only use_read_capability takes the store
\* for unhealthy.
PruneRaises ==
    /\ pc \in {"tick_prune", "prune"}
    /\ healthy' = ~(pc = "prune" /\ call \in Keys)
    /\ Raise
    /\ UNCHANGED <<durable, up, runtime, startup, state, restored, material, seen, history>>

-----------------------------------------------------------------------------
(* Protection seen from the normal path (module ProtectionControl has it in *)
(* full): both transitions are durable and need no checkpoint.              *)

ActivateProtection ==
    /\ Idle
    /\ mode = "normal"
    /\ mode' = "protected"
    /\ UNCHANGED <<checkpoints, marked, sessions, process, control, history>>

ReleaseProtection ==
    /\ Idle
    /\ mode = "protected"
    /\ mode' = "normal"
    /\ UNCHANGED <<checkpoints, marked, sessions, process, control, history>>

-----------------------------------------------------------------------------
(* The end of a process *)

Last == Len(sessions)

\* What the process held in memory is gone.
Forget ==
    /\ material' = {} /\ seen' = {}
    /\ pc' = "idle" /\ call' = NoCall /\ raised' = FALSE

\* Faulty variant of MarksNormal: shutdown writes the marker in any case.
MarksNormalAlways == TRUE

\* Stage7System.shutdown writes the normal marker of a healthy store only.
MarksNormal == healthy

\* shutdown: stop State and runtime, mark the session, close the store.  The
\* marker may fail to be written; the store is closed all the same.
Shutdown(how) ==
    /\ up' = FALSE
    /\ IF runtime \in {"active", "waiting"}
       THEN runtime' = "stopped" /\ state' = "stopped" /\ startup' = FALSE
       ELSE UNCHANGED <<runtime, state, startup>>
    /\ \/ MarksNormal /\ sessions' = [sessions EXCEPT ![Last] = "normal"]
       \/ UNCHANGED sessions
    /\ endings' = [endings EXCEPT ![Last] = IF healthy THEN how ELSE "unsaved"]
    /\ Forget
    /\ UNCHANGED <<checkpoints, marked, mode, restored, healthy,
                   answered, failedSave, lastSaved>>

\* /quit, end of input or an explicit stop.
Quit == Idle /\ Shutdown("quit")

\* InteractiveConsole.run lets an exception through its finally clause,
\* which shuts the system down.
ConsoleUnwinds == up /\ raised /\ Shutdown("unwound")

\* A caller of the system object catches the exception and goes on.
CallerCatches ==
    /\ up
    /\ raised
    /\ raised' = FALSE
    /\ UNCHANGED <<durable, process, call, pc, history>>

\* The process dies, or abandon() closes the store without a marker.
Crash ==
    /\ up
    /\ up' = FALSE
    /\ endings' = [endings EXCEPT ![Last] = "died"]
    /\ Forget
    /\ UNCHANGED <<durable, runtime, startup, state, restored, healthy,
                   answered, failedSave, lastSaved>>

-----------------------------------------------------------------------------

Cycle ==
    \/ Observe \/ RestartPrecedesState
    \/ Accept \/ TurnAway \/ AuditFails
    \/ RecordLifecycle \/ RecordExchange \/ ExchangePrecedesContext
    \/ Remember \/ InterpretationTraceFails
    \/ StartNewContext \/ NewContextPrecedes
    \/ RecordCapabilityEvidence \/ CapabilityWithoutEvidence \/ CapabilityStoreFails
    \/ Commit \/ CommitFails \/ EndTimeCycle \/ EndRequest \/ PruneRaises

Next ==
    \/ Open \/ Start \/ RefuseCall \/ RejectUnderProtection
    \/ \E request \in Requests \cup {"time"} : BeginTimeCycle(request)
    \/ \E request \in Requests : BeginRequest(request)
    \/ Cycle
    \/ ActivateProtection \/ ReleaseProtection
    \/ Quit \/ ConsoleUnwinds \/ CallerCatches \/ Crash

Spec == Init /\ [][Next]_vars

-----------------------------------------------------------------------------
(* Properties *)

\* The store and the owners' memory, seen as a durable life.
Life == INSTANCE DurableLife WITH
    Openers <- Contexts, Passing <- Turns,
    alive <- up, working <- material, saved <- LatestFacts, delivered <- answered

\* Every step of the system is a step of DurableLife: a start works on
\* exactly the last checkpoint, a checkpoint takes all of the memory and drops
\* nothing saved but the turns a new context put away, pruning is invisible,
\* and no outcome is returned before its facts are saved.
ImplementsDurableLife == Life!Spec

\* A fact is held as it is, or as what remains of it.
Holds(facts, fact) == fact \in facts \/ (fact \in Turns /\ Remains(fact) \in facts)

\* Whatever the caller was told happened is in the newest checkpoint, whole:
\* the record, the candidates and the memory decision of every answered input,
\* every new context and every capability result; and the turns of the input
\* as long as no new context replaced theirs, of which the checkpoint then
\* holds the retired ID (Stage10TextInputRunner.run commits before it returns;
\* restarts, pruning, later failures and new contexts that were not saved
\* included).
AnswersAreDurable ==
    \A request \in answered : \A fact \in FactsOf(request) : Holds(LatestFacts, fact)

\* The retained checkpoints are always the newest ones, without a gap, and
\* once a checkpoint was committed at least one is there: what
\* _read_latest_snapshot finds after any crash is the last committed one.
NewestCheckpointsSurvive ==
    /\ marked <=> DOMAIN checkpoints # {}
    /\ LatestSequence = lastSaved
    /\ \A m \in DOMAIN checkpoints : m..lastSaved \subseteq DOMAIN checkpoints

\* A session that died or was closed with an unhealthy store is never
\* reported as a normal exit by the next open (_read_previous_exit).
AbnormalExitIsReported ==
    \A s \in 1..Last : endings[s] \in {"died", "unsaved"} => sessions[s] = "running"

\* A runtime that waits for text has a State that waits and has taken in the
\* time the life was stopped: no input is judged on a State not yet resumed.
WaitingMeansResumed ==
    up /\ runtime = "waiting" => state = "waiting" /\ ~restored

\* After a checkpoint failed, the process commits nothing more: what the
\* owners hold in memory is discarded, not saved by a later entry point.
NothingSavedOnceUnhealthy ==
    [][up /\ ~healthy => checkpoints' = checkpoints]_vars

\* While protection is active, the owners' information does not change
\* and no request is answered.
ProtectedIsQuiet ==
    [][up /\ up' /\ mode = "protected" /\ mode' = "protected" =>
        material' = material /\ answered' = answered]_vars

\* docs/03_design/023: after saving a text input failed, time events, text,
\* new contexts and capability use are refused until the restart, so that
\* unsaved changes held in memory never reach a checkpoint.
SaveFailureStopsSession ==
    [][up /\ failedSave => lastSaved' = lastSaved]_vars

\* docs/03_design/012: only /quit, end of input or an explicit stop makes a
\* session "normal".
NormalMeansQuit ==
    \A s \in 1..Last : sessions[s] = "normal" => endings[s] = "quit"
=============================================================================
