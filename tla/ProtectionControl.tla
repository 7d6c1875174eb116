-------------------------- MODULE ProtectionControl --------------------------
(***************************************************************************)
(* The protection boundary of stage 8: the fixed inward operation that     *)
(* takes the system from NORMAL to PROTECTED, and the independent release  *)
(* that takes it back.                                                     *)
(*                                                                         *)
(* The control row, the reservations and the audit table are durable.  The *)
(* registries of the five issuing responsibilities (three recovery         *)
(* observers, Judgment, Core, the independent verifier) live in the        *)
(* process, as do the permits a caller holds.  The caller is free to call  *)
(* the parts in any order, to keep what they return, to hand them records  *)
(* of its own making, and to die.                                          *)
(*                                                                         *)
(* A record is abstracted to what the checks compare.  Unhealthy or        *)
(* uncertain observations are not tracked: evaluate_protection_release     *)
(* refuses them and verify answers passed = FALSE.                         *)
(*                                                                         *)
(* No name of this module is one of CapabilityGate, the other guard of the *)
(* boundary: ProtectionBoundary_proofs extends both.                       *)
(***************************************************************************)
EXTENDS Integers, FiniteSets, Sequences

CONSTANTS
    Observations,   \* observation IDs of the fixed protection observer
    Activations,    \* activation IDs; the factory never repeats one
    NoActivation,   \* the NULL activation_id
    MaxIssued,      \* bound: recovery observations of one process
    MaxEvaluations  \* bound: release evaluations of one process

ASSUME ActivationAssumption == NoActivation \notin Activations
ASSUME ProtectionBounds == MaxIssued \in Nat /\ MaxEvaluations \in Nat

VARIABLES
    mode,           \* protection_control.mode
    activation,     \* protection_control.activation_id
    version,        \* protection_control.version
    reserved,       \* protection_execution_reservations.observation_id
    completed,      \* protection_audit: the COMPLETED rows, in order
    running,        \* a process runs
    held,           \* reservations whose ID this process was given
    fixedPermits,   \* FixedProtectionPermits, by observation
    issued,         \* RegisteredRecoveryObserver._issued, all three observers
    evaluations,    \* Stage8Judgment._release_evaluations
    proposals,      \* Stage8Core._release_proposals, by their evaluation
    verified,       \* verifier._issued that passed, by activation
    releasePermits, \* ProtectionReleasePermits, by activation
    before          \* history: completed rows when the running process began

controlRow == <<mode, activation, version>>
store == <<controlRow, reserved, completed>>
registry == <<issued, evaluations, proposals, verified>>
permits == <<held, fixedPermits, releasePermits>>
protectionVars == <<store, running, registry, permits, before>>

Sources == {"body", "state", "affected_organ"}

\* under: the activation in force when the observation was made.
RecoveryObservations == [source : Sources, under : Activations \cup {NoActivation}]

\* One healthy and certain observation of each source.
Complete(evidence) ==
    /\ {o.source : o \in evidence} = Sources
    /\ \A o, p \in evidence : o.source = p.source => o = p

Evaluations ==
    [activation : Activations, evidence : {e \in SUBSET RecoveryObservations : Complete(e)}]

CompletedRows ==
    [kind : {"activation"}, activation : Activations, observation : Observations]
        \cup [kind : {"release"}, activation : Activations]

ProtectionTypeOK ==
    /\ mode \in {"normal", "protected"}
    /\ activation \in IF mode = "normal" THEN {NoActivation} ELSE Activations
    /\ version \in Nat
    /\ reserved \subseteq Observations
    /\ completed \in Seq(CompletedRows)
    /\ running \in BOOLEAN
    /\ held \subseteq Observations
    /\ fixedPermits \subseteq Observations
    /\ issued \subseteq RecoveryObservations
    /\ evaluations \subseteq Evaluations
    /\ proposals \subseteq Evaluations
    /\ verified \subseteq Activations
    /\ releasePermits \subseteq Activations
    /\ before \in 0..Len(completed)

\* Activation IDs that exist: the only ones a caller can name.
Known == {completed[n].activation : n \in DOMAIN completed}

-----------------------------------------------------------------------------

\* initialize_protection_storage inserts the control row with version 1.
ProtectionInit ==
    /\ mode = "normal"
    /\ activation = NoActivation
    /\ version = 1
    /\ reserved = {}
    /\ completed = <<>>
    /\ running = TRUE
    /\ before = 0
    /\ held = {} /\ fixedPermits = {} /\ releasePermits = {}
    /\ issued = {} /\ evaluations = {} /\ proposals = {} /\ verified = {}

-----------------------------------------------------------------------------
(* The fixed inward operation.  activate_fixed_protection calls the three   *)
(* steps in a row; any of them may be the last one that happens.            *)

\* FixedProtectionCounter.reserve: the observation ID is the primary key.
ReserveFixed(o) ==
    /\ running
    /\ o \notin reserved
    /\ reserved' = reserved \cup {o}
    /\ held' = held \cup {o}
    /\ UNCHANGED <<controlRow, completed, running, registry, fixedPermits, releasePermits, before>>

\* Faulty variant of HasReservation: a row of an earlier process will do.
ReservationRowExists(o) == o \in reserved

\* has_protection_reservation: the row exists, and the caller was given its
\* reservation ID.
HasReservation(o) == o \in reserved \cap held

\* authorize_fixed_inward_operation
AuthorizeFixed(o) ==
    /\ running
    /\ mode = "normal"
    /\ HasReservation(o)
    /\ fixedPermits' = fixedPermits \cup {o}
    /\ UNCHANGED <<store, running, registry, held, releasePermits, before>>

\* FixedInwardProtectionExecutor.execute: the transition, the version and the
\* audit row in one transaction.
ExecuteFixed(o, a) ==
    /\ running
    /\ o \in fixedPermits
    /\ HasReservation(o)
    /\ mode = "normal"
    /\ a \in Activations \ Known
    /\ mode' = "protected"
    /\ activation' = a
    /\ version' = version + 1
    /\ completed' = Append(completed,
                           [kind |-> "activation", activation |-> a, observation |-> o])
    /\ UNCHANGED <<reserved, running, registry, permits, before>>

-----------------------------------------------------------------------------
(* The evidence for a release *)

\* RegisteredRecoveryObserver.observe, a healthy and certain observation.
ObserveRecovery(source) ==
    /\ running
    /\ Cardinality(issued) < MaxIssued
    /\ issued' = issued \cup {[source |-> source, under |-> activation]}
    /\ UNCHANGED <<store, running, evaluations, proposals, verified, permits, before>>

\* Judgment.evaluate_protection_release: it compares the observations it is
\* given and takes the activation ID from its caller.
EvaluateRelease(e) ==
    /\ running
    /\ e.activation \in Known
    /\ Cardinality(evaluations) < MaxEvaluations
    /\ evaluations' = evaluations \cup {e}
    /\ UNCHANGED <<store, running, issued, proposals, verified, permits, before>>

\* Core.finalize_protection_release
FinalizeRelease(e) ==
    /\ running
    /\ e \in evaluations
    /\ proposals' = proposals \cup {e}
    /\ UNCHANGED <<store, running, issued, evaluations, verified, permits, before>>

\* The activation of the proposal is the one in force.
VerifierPasses(a) == mode = "protected" /\ activation = a

\* IndependentProtectionReleaseVerifier.verify of a proposal for activation a
\* with complete observations: neither need have been issued.
VerifyRelease(a) ==
    /\ running
    /\ a \in Known
    /\ VerifierPasses(a)
    /\ verified' = verified \cup {a}
    /\ UNCHANGED <<store, running, issued, evaluations, proposals, permits, before>>

-----------------------------------------------------------------------------
(* The release *)

\* Faulty variant of Matches: the observers are not asked.
MatchesUnissued(p) ==
    /\ mode = "protected"
    /\ p.activation = activation
    /\ p \in proposals
    /\ p.activation \in verified

\* The conjunction of authorize_release: the proposal is Core's, its evaluation
\* Judgment's, the observations are the evaluated ones and the observers', the
\* verification passed and is the verifier's, all for the activation in force.
Matches(p) ==
    /\ mode = "protected"
    /\ p.activation = activation
    /\ p.evidence \subseteq issued
    /\ p \in proposals
    /\ p.activation \in verified

\* authorize_release
AuthorizeRelease(p) ==
    /\ running
    /\ Matches(p)
    /\ releasePermits' = releasePermits \cup {p.activation}
    /\ UNCHANGED <<store, running, registry, held, fixedPermits, before>>

\* Faulty variant of InForce: the release takes whatever is in force.
AnyInForce(a) == mode = "protected"

\* WHERE mode = 'protected' AND activation_id = ?
InForce(a) == mode = "protected" /\ activation = a

\* SET mode = 'normal', activation_id = NULL
ReleasedActivation == NoActivation

\* ProtectionReleaseExecutor.execute
ExecuteRelease(a) ==
    /\ running
    /\ a \in releasePermits
    /\ InForce(a)
    /\ mode' = "normal"
    /\ activation' = ReleasedActivation
    /\ version' = version + 1
    /\ completed' = Append(completed, [kind |-> "release", activation |-> a])
    /\ UNCHANGED <<reserved, running, registry, permits, before>>

-----------------------------------------------------------------------------
(* The end of a process, and the next one *)

ProcessEnds ==
    /\ running
    /\ running' = FALSE
    /\ held' = {} /\ fixedPermits' = {} /\ releasePermits' = {}
    /\ issued' = {} /\ evaluations' = {} /\ proposals' = {} /\ verified' = {}
    /\ UNCHANGED <<store, before>>

\* The control row of the database decides the mode; the checkpoint restores
\* only the output setting (restore_owned_state).
ProcessStarts ==
    /\ ~running
    /\ running' = TRUE
    /\ before' = Len(completed)
    /\ UNCHANGED <<store, registry, permits>>

ProtectionNext ==
    \/ \E o \in Observations :
          ReserveFixed(o) \/ AuthorizeFixed(o) \/ (\E a \in Activations : ExecuteFixed(o, a))
    \/ \E source \in Sources : ObserveRecovery(source)
    \/ \E e \in Evaluations : EvaluateRelease(e)
    \/ \E e \in evaluations : FinalizeRelease(e)
    \/ \E a \in Activations : VerifyRelease(a) \/ ExecuteRelease(a)
    \/ \E p \in proposals : AuthorizeRelease(p)
    \/ ProcessEnds
    \/ ProcessStarts

ProtectionSpec == ProtectionInit /\ [][ProtectionNext]_protectionVars

-----------------------------------------------------------------------------
(* Properties *)

\* The audit table alone tells the control row: completed activations and
\* releases alternate, a release names the activation before it, no activation
\* ID comes twice, and version, mode and activation ID are those the last
\* completed row left (activate_protection_atomic, release_protection_atomic).
ControlMatchesAudit ==
    LET n == Len(completed)
    IN  /\ version = n + 1
        /\ mode = "protected" <=> n % 2 = 1
        /\ mode = "protected" => activation = completed[n].activation
        /\ \A k \in 1..n : completed[k].kind = IF k % 2 = 1 THEN "activation" ELSE "release"
        /\ \A k \in 1..n : k % 2 = 0 => completed[k].activation = completed[k - 1].activation
        /\ \A k, m \in 1..n :
              k % 2 = 1 /\ m % 2 = 1 /\ completed[k].activation = completed[m].activation => k = m

\* NORMAL returns only in the process that holds everything the release needs
\* for the activation in force: three recovered observations its observers
\* issued, the proposal Core finalised on exactly these, and a verification
\* that passed while this activation was in force.  A crash voids it all.
ReleaseIsEarned ==
    [][mode = "protected" /\ mode' = "normal" =>
        /\ activation \in verified
        /\ \E p \in proposals :
              p.activation = activation /\ Complete(p.evidence) /\ p.evidence \subseteq issued]_protectionVars

\* A reservation is not consumed: after a release the process that made it may
\* use it again.  But it ends with that process: an observation that activated
\* protection never does so again in a later process, because the row that
\* stays in the table keeps it from being reserved anew
\* (reserve_protection_execution), and its ID is known to nobody any more
\* (has_protection_reservation).
ReservationsEndWithTheProcess ==
    \A k \in 1..before, m \in (before + 1)..Len(completed) :
        completed[k].kind = "activation" /\ completed[m].kind = "activation" =>
            completed[k].observation # completed[m].observation

\* docs/03_design/013 section 5: the recovery observations of a release belong
\* to the activation it ends.
EvidenceIsOfThisActivation ==
    [][mode = "protected" /\ mode' = "normal" =>
        \E p \in proposals :
            /\ p.activation = activation
            /\ p.evidence \subseteq issued
            /\ \A o \in p.evidence : o.under = activation]_protectionVars

\* docs/03_design/013 section 1: a reservation is for one execution.
OneExecutionPerReservation ==
    \A k, m \in DOMAIN completed :
        /\ completed[k].kind = "activation" /\ completed[m].kind = "activation"
        /\ completed[k].observation = completed[m].observation
        => k = m
=============================================================================
