---------------------------- MODULE CapabilityGate ----------------------------
(***************************************************************************)
(* The read capability behind the external effect gate: one call of        *)
(* Stage16System.use_read_capability, cut where a crash or an exception    *)
(* leaves different things behind.                                         *)
(*                                                                         *)
(* The table capability_executions and the checkpoint are written by       *)
(* different statements at different times, and the resource is read in    *)
(* between.  The module is about what a key may still mean after any of    *)
(* them did not happen.                                                    *)
(***************************************************************************)
EXTENDS Integers, FiniteSets

CONSTANTS
    Keys,           \* idempotency keys, chosen by the caller
    Targets,        \* resources
    Authorities,    \* authority IDs a caller may name
    Grants,         \* registered permissions: pairs of authority and target
    Counterpart,    \* the counterpart of the dialogue context
    NoCall,
    MaxRequests     \* bound: calls, by the IDs Core gives their requests

ASSUME GrantAssumption == Grants \subseteq Authorities \X Targets
ASSUME CounterpartAssumption == Counterpart \in Authorities
ASSUME CallAssumption ==
    NoCall \notin [id : 1..MaxRequests, key : Keys, target : Targets, authority : Authorities]
ASSUME RequestBound == MaxRequests \in Nat

VARIABLES
    executions,     \* table capability_executions, a set of rows
    saved,          \* keys with capability evidence in the last checkpoint
    up,             \* a process runs
    healthy,        \* the persistence health of the text runner
    evidence,       \* keys with capability evidence in Memory
    call,           \* the request being served
    pc,             \* its next step
    given,          \* request IDs given out so far
    reads,          \* history: key -> how often the resource was read
    answers,        \* history: <<key, result>> of every read that answered
    told            \* history: outcomes returned, by request ID

durable == <<executions, saved>>
process == <<up, healthy, evidence>>
control == <<call, pc>>
history == <<given, reads, answers, told>>
vars == <<durable, process, control, history>>

Results == {"success", "partial_success", "failure", "unknown"}
Requests == [id : 1..MaxRequests, key : Keys, target : Targets, authority : Authorities]
Rows == [key : Keys, request : 1..MaxRequests, status : {"reserved", "completed"},
         result : Results \cup {"none"}]

TypeOK ==
    /\ executions \subseteq Rows
    /\ \A row \in executions : row.status = "reserved" <=> row.result = "none"
    /\ saved \subseteq Keys
    /\ up \in BOOLEAN
    /\ healthy \in BOOLEAN
    /\ evidence \subseteq Keys
    /\ call \in Requests \cup {NoCall}
    /\ pc \in {"idle", "authorize", "execute", "record", "receive", "save"}
    /\ given \in 0..MaxRequests
    /\ reads \in [Keys -> Nat]
    /\ answers \subseteq Keys \X Results
    /\ told \subseteq [request : 1..MaxRequests, key : Keys,
                       status : {"executed", "duplicate", "rejected"}]

RowsOf(k) == {row \in executions : row.key = k}

-----------------------------------------------------------------------------

Init ==
    /\ executions = {}
    /\ saved = {}
    /\ up = TRUE
    /\ healthy = TRUE
    /\ evidence = {}
    /\ call = NoCall
    /\ pc = "idle"
    /\ given = 0
    /\ reads = [k \in Keys |-> 0]
    /\ answers = {}
    /\ told = {}

Idle == call' = NoCall /\ pc' = "idle"

\* The call returns an outcome.
Tell(status) ==
    /\ told' = told \cup {[request |-> call.id, key |-> call.key, status |-> status]}
    /\ Idle

\* The call raises.
Raise == Idle /\ UNCHANGED told

\* Judgment proposes, Core integrates, the permission observer observes.
Begin(request) ==
    /\ up /\ pc = "idle" /\ healthy
    /\ request.id = given + 1
    /\ given' = given + 1
    /\ call' = request
    /\ pc' = "authorize"
    /\ UNCHANGED <<durable, process, reads, answers, told>>

-----------------------------------------------------------------------------
(* Stage9ExternalEffectGate.authorize *)

\* Faulty variant of Granted: a permission for any authority will do.
GrantedToAnyone == \E grant \in Grants : grant[2] = call.target

Granted == <<call.authority, call.target>> \in Grants

\* _validate finds no matching permission.
Reject ==
    /\ pc = "authorize"
    /\ ~Granted
    /\ Tell("rejected")
    /\ UNCHANGED <<durable, process, given, reads, answers>>

\* Faulty variant of Taken: a row that never completed may be claimed again.
TakenOnceCompleted(k) == \E row \in RowsOf(k) : row.status = "completed"

\* The idempotency key is the primary key of the table.
Taken(k) == RowsOf(k) # {}

Duplicate ==
    /\ pc = "authorize"
    /\ Granted
    /\ Taken(call.key)
    /\ Tell("duplicate")
    /\ UNCHANGED <<durable, process, given, reads, answers>>

\* reserve_capability_execution commits before the permit exists.
Reserve ==
    /\ pc = "authorize"
    /\ Granted
    /\ ~Taken(call.key)
    /\ executions' = executions \cup
           {[key |-> call.key, request |-> call.id, status |-> "reserved", result |-> "none"]}
    /\ pc' = "execute"
    /\ UNCHANGED <<saved, process, call, history>>

\* A PersistenceError of the gate: the store is unhealthy from now on.
StoreFails ==
    /\ pc \in {"authorize", "record"}
    /\ healthy' = FALSE
    /\ Raise
    /\ UNCHANGED <<durable, up, evidence, given, reads, answers>>

-----------------------------------------------------------------------------
(* ReadOnlyCapability.execute *)

Read == reads' = [reads EXCEPT ![call.key] = @ + 1]

\* Faulty variant of AfterRead: the result is received before it is recorded.
AfterReadUnrecorded == "receive"

\* record_result comes before Sensation and Memory.
AfterRead == "record"

Execute(result) ==
    /\ pc = "execute"
    /\ Read
    /\ answers' = answers \cup {<<call.key, result>>}
    /\ pc' = AfterRead
    /\ UNCHANGED <<durable, process, call, given, told>>

\* The reader raises, before or after it touched the resource.
ExecuteRaises ==
    /\ pc = "execute"
    /\ Read \/ UNCHANGED reads
    /\ Raise
    /\ UNCHANGED <<durable, process, given, answers>>

-----------------------------------------------------------------------------
(* The result *)

\* Faulty variant of Completed: the row stays reserved.
CompletedKeepsStatus(row, result) == [row EXCEPT !.result = result]

Completed(row, result) == [row EXCEPT !.status = "completed", !.result = result]

\* complete_capability_execution
RecordResult ==
    /\ pc = "record"
    /\ \E row \in RowsOf(call.key), result \in Results :
          /\ row.request = call.id
          /\ row.status = "reserved"
          /\ <<call.key, result>> \in answers
          /\ executions' = (executions \ {row}) \cup {Completed(row, result)}
    /\ pc' = "receive"
    /\ UNCHANGED <<saved, process, call, history>>

\* Sensation and Core receive the result; outside an active context of this
\* counterpart it becomes no evidence and the call is over.
ReceiveElsewhere ==
    /\ pc = "receive"
    /\ Tell("executed")
    /\ UNCHANGED <<durable, process, given, reads, answers>>

\* Memory.record_capability_evidence
ReceiveAsEvidence ==
    /\ pc = "receive"
    /\ call.authority = Counterpart
    /\ evidence' = evidence \cup {call.key}
    /\ pc' = "save"
    /\ UNCHANGED <<durable, up, healthy, call, history>>

Save ==
    /\ pc = "save"
    /\ saved' = evidence
    /\ Tell("executed")
    /\ UNCHANGED <<executions, process, given, reads, answers>>

\* The commit fails, or the pruning after it raises something else than a
\* PersistenceError.
SaveFails ==
    /\ pc = "save"
    /\ saved' \in {saved, evidence}
    /\ healthy' = FALSE
    /\ Raise
    /\ UNCHANGED <<executions, up, evidence, given, reads, answers>>

-----------------------------------------------------------------------------
(* Other checkpoints, and the process *)

\* A time cycle or a text input commits what Memory holds.
Checkpoint ==
    /\ up /\ pc = "idle" /\ healthy
    /\ saved' = evidence
    /\ UNCHANGED <<executions, process, control, history>>

Crash ==
    /\ up
    /\ up' = FALSE
    /\ evidence' = {}
    /\ Idle
    /\ UNCHANGED <<durable, healthy, history>>

Restart ==
    /\ ~up
    /\ up' = TRUE
    /\ healthy' = TRUE
    /\ evidence' = saved
    /\ UNCHANGED <<durable, control, history>>

Next ==
    \/ \E request \in Requests : Begin(request)
    \/ Reject \/ Duplicate \/ Reserve \/ StoreFails
    \/ \E result \in Results : Execute(result)
    \/ ExecuteRaises \/ RecordResult
    \/ ReceiveElsewhere \/ ReceiveAsEvidence \/ Save \/ SaveFails
    \/ Checkpoint \/ Crash \/ Restart

Spec == Init /\ [][Next]_vars

-----------------------------------------------------------------------------
(* Properties *)

\* The gate seen per key.  A key is pending between its reservation and the
\* end of the read.
Gate == INSTANCE AtMostOnce WITH
    claimed <- {row.key : row \in executions},
    pending <- IF pc = "execute" THEN {call.key} ELSE {},
    effects <- reads,
    observed <- answers,
    settled <- {<<row.key, row.result>> : row \in {r \in executions : r.status = "completed"}}

\* A key is read at most once, over all calls, failures and processes, and a
\* recorded result is the result of that read (docs/03_design/014 section 5).
ImplementsAtMostOnce == Gate!Spec

\* What the caller was told: an executed key is completed by that request, a
\* duplicate names a row of another request, a rejected request has no row.
OutcomesAreTrue ==
    \A t \in told :
        /\ t.status = "executed" =>
              \E row \in executions :
                  row.key = t.key /\ row.request = t.request /\ row.status = "completed"
        /\ t.status = "duplicate" =>
              \E row \in executions : row.key = t.key /\ row.request # t.request
        /\ t.status = "rejected" => \A row \in executions : row.request # t.request

\* The checkpoint never runs ahead of the execution table: evidence that
\* survives a crash belongs to a completed execution.
EvidenceIsCompleted ==
    \A k \in saved \cup evidence : \E row \in executions : row.key = k /\ row.status = "completed"

\* The resource is only read under a grant, for the request whose reservation
\* is in the table.
ReadsAreGranted ==
    [][\A k \in Keys : reads'[k] # reads[k] =>
        /\ call.key = k
        /\ <<call.authority, call.target>> \in Grants
        /\ \E row \in executions :
              row.key = k /\ row.request = call.id /\ row.status = "reserved"]_vars
=============================================================================
