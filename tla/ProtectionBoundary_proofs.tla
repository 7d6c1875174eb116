---------------------- MODULE ProtectionBoundary_proofs ----------------------
(***************************************************************************)
(* The two guards of the protection boundary, which share no name.         *)
(*                                                                         *)
(* Protection holds for any number of observations and activations.  The   *)
(* audit table tells the control row (AuditInv); a release permit stands   *)
(* for evidence that is still in the registries of the process (PermitInv).*)
(*                                                                         *)
(* The capability gate reads a resource at most once per key, for any      *)
(* keys, grants and calls.  TableInv says that a key has one row; CallInv  *)
(* ties the call in progress to its row, so that only the request that     *)
(* inserted a row reads, and completes it; EvidenceInv ties Memory and the *)
(* checkpoint to completed rows.                                           *)
(***************************************************************************)
EXTENDS ProtectionControl, CapabilityGate, SequenceTheorems, TLAPS

(* Protection *)

\* What a release permit for activation a was given for.
Earned(a) ==
    /\ a \in verified
    /\ \E p \in proposals : p.activation = a /\ Complete(p.evidence) /\ p.evidence \subseteq issued

PermitInv ==
    /\ fixedPermits \subseteq reserved \cap held
    /\ \A a \in releasePermits : Earned(a)

AuditInv == ControlMatchesAudit

\* The row of an activation is backed by a reservation, and nobody knows the
\* reservations of earlier processes.
ReservationInv ==
    /\ ~running => held = {}
    /\ \A k \in 1..Len(completed) :
          completed[k].kind = "activation" => completed[k].observation \in reserved
    /\ \A k \in 1..before :
          completed[k].kind = "activation" => completed[k].observation \notin held
    /\ ReservationsEndWithTheProcess

ProtectionInv == ProtectionTypeOK /\ AuditInv /\ PermitInv /\ ReservationInv

-----------------------------------------------------------------------------

LEMMA ProtectionInitially == ProtectionInit => ProtectionInv
<1> SUFFICES ASSUME ProtectionInit PROVE ProtectionInv
  OBVIOUS
<1>1. completed \in Seq(CompletedRows) /\ Len(completed) = 0
  BY EmptySeq DEF ProtectionInit
<1>2. ProtectionTypeOK
  BY <1>1 DEF ProtectionInit, ProtectionTypeOK
<1>3. AuditInv
  BY <1>1 DEF ProtectionInit, AuditInv, ControlMatchesAudit
<1>4. PermitInv
  BY DEF ProtectionInit, PermitInv
<1>5. ReservationInv
  BY <1>1 DEF ProtectionInit, ReservationInv, ReservationsEndWithTheProcess
<1> QED
  BY <1>2, <1>3, <1>4, <1>5 DEF ProtectionInv

\* Neither transition happens without its audit row, and nothing else writes
\* the control row.
LEMMA ControlWriters ==
    ASSUME [ProtectionNext]_protectionVars
    PROVE  \/ \E o \in Observations, a \in Activations : ExecuteFixed(o, a)
           \/ \E a \in Activations : ExecuteRelease(a)
           \/ UNCHANGED <<controlRow, completed>>
<1> USE DEF store, controlRow, registry, permits
<1>1. ASSUME NEW o \in Observations, ReserveFixed(o) \/ AuthorizeFixed(o)
      PROVE  UNCHANGED <<controlRow, completed>>
  BY <1>1 DEF ReserveFixed, AuthorizeFixed
<1>2. ASSUME NEW source \in Sources, ObserveRecovery(source)
      PROVE  UNCHANGED <<controlRow, completed>>
  BY <1>2 DEF ObserveRecovery
<1>3. ASSUME NEW e \in Evaluations, EvaluateRelease(e)
      PROVE  UNCHANGED <<controlRow, completed>>
  BY <1>3 DEF EvaluateRelease
<1>4. ASSUME NEW e \in evaluations, FinalizeRelease(e)
      PROVE  UNCHANGED <<controlRow, completed>>
  BY <1>4 DEF FinalizeRelease
<1>5. ASSUME NEW a \in Activations, VerifyRelease(a)
      PROVE  UNCHANGED <<controlRow, completed>>
  BY <1>5 DEF VerifyRelease
<1>6. ASSUME NEW p \in proposals, AuthorizeRelease(p)
      PROVE  UNCHANGED <<controlRow, completed>>
  BY <1>6 DEF AuthorizeRelease
<1>7. CASE ProcessEnds \/ ProcessStarts \/ UNCHANGED protectionVars
  BY <1>7 DEF ProcessEnds, ProcessStarts, protectionVars
<1> QED
  BY <1>1, <1>2, <1>3, <1>4, <1>5, <1>6, <1>7 DEF ProtectionNext

\* The count of earlier rows is taken when a process starts.
LEMMA BeforeWriters ==
    ASSUME [ProtectionNext]_protectionVars
    PROVE  before' = before \/ before' = Len(completed)
<1>1. ASSUME NEW o \in Observations, ReserveFixed(o) \/ AuthorizeFixed(o)
      PROVE  before' = before
  BY <1>1 DEF ReserveFixed, AuthorizeFixed
<1>2. ASSUME NEW o \in Observations, NEW a \in Activations, ExecuteFixed(o, a)
      PROVE  before' = before
  BY <1>2 DEF ExecuteFixed
<1>3. ASSUME NEW source \in Sources, ObserveRecovery(source)
      PROVE  before' = before
  BY <1>3 DEF ObserveRecovery
<1>4. ASSUME NEW e, EvaluateRelease(e) \/ FinalizeRelease(e)
      PROVE  before' = before
  BY <1>4 DEF EvaluateRelease, FinalizeRelease
<1>5. ASSUME NEW a \in Activations, VerifyRelease(a) \/ ExecuteRelease(a)
      PROVE  before' = before
  BY <1>5 DEF VerifyRelease, ExecuteRelease
<1>6. ASSUME NEW p \in proposals, AuthorizeRelease(p)
      PROVE  before' = before
  BY <1>6 DEF AuthorizeRelease
<1>7. CASE ProcessEnds \/ UNCHANGED protectionVars
  BY <1>7 DEF ProcessEnds, protectionVars
<1>8. CASE ProcessStarts
  BY <1>8 DEF ProcessStarts
<1> QED
  BY <1>1, <1>2, <1>3, <1>4, <1>5, <1>6, <1>7, <1>8 DEF ProtectionNext

\* Each transition appends its row and moves the control row along with it.
LEMMA AuditStep ==
    ASSUME ProtectionTypeOK, AuditInv, [ProtectionNext]_protectionVars
    PROVE  /\ AuditInv'
           /\ completed' \in Seq(CompletedRows)
           /\ version' \in Nat
           /\ mode' \in {"normal", "protected"}
           /\ activation' \in IF mode' = "normal" THEN {NoActivation} ELSE Activations
<1> DEFINE n == Len(completed)
<1>0. completed \in Seq(CompletedRows) /\ n \in Nat /\ version = n + 1 /\ version \in Nat
  BY LenProperties DEF ProtectionTypeOK, AuditInv, ControlMatchesAudit
<1>1. ASSUME NEW o \in Observations, NEW a \in Activations, ExecuteFixed(o, a)
      PROVE  /\ AuditInv' /\ completed' \in Seq(CompletedRows) /\ version' \in Nat
             /\ mode' = "protected" /\ activation' \in Activations
  <2> DEFINE row == [kind |-> "activation", activation |-> a, observation |-> o]
  <2>1. /\ mode = "normal" /\ a \notin Known
        /\ mode' = "protected" /\ activation' = a /\ version' = version + 1
        /\ completed' = Append(completed, row)
    BY <1>1 DEF ExecuteFixed
  <2>2. row \in CompletedRows
    BY DEF CompletedRows
  <2>3. row.activation = a /\ row.kind = "activation"
    OBVIOUS
  <2> HIDE DEF row
  <2>4. /\ completed' \in Seq(CompletedRows)
        /\ Len(completed') = n + 1
        /\ \A k \in 1..n : completed'[k] = completed[k]
        /\ completed'[n + 1] = row
    BY <1>0, <2>1, <2>2, AppendProperties
  <2>5. \A k \in 1..n : completed[k].activation # a
    BY <1>0, <2>1, LenProperties DEF Known
  <2>6. n % 2 = 0 /\ (n + 1) % 2 = 1
    <3>1. ~(n % 2 = 1)
      BY <2>1 DEF AuditInv, ControlMatchesAudit
    <3> QED
      BY <1>0, <3>1
  <2>7. ControlMatchesAudit'
    <3>1. \A k \in 1..(n + 1) : k \in 1..n \/ k = n + 1
      BY <1>0
    <3>2. \A k \in 1..(n + 1) :
             completed'[k].kind = IF k % 2 = 1 THEN "activation" ELSE "release"
      BY <2>3, <2>4, <2>6, <3>1 DEF AuditInv, ControlMatchesAudit
    <3>3. \A k \in 1..(n + 1) : k % 2 = 0 => completed'[k].activation = completed'[k - 1].activation
      <4> SUFFICES ASSUME NEW k \in 1..(n + 1), k % 2 = 0
                   PROVE  completed'[k].activation = completed'[k - 1].activation
        OBVIOUS
      <4>1. k \in 1..n /\ k # 1
        BY <2>6, <3>1
      <4>2. k - 1 \in 1..n
        BY <1>0, <4>1
      <4> QED
        BY <2>4, <4>1, <4>2 DEF AuditInv, ControlMatchesAudit
    <3>4. \A k, m \in 1..(n + 1) :
             k % 2 = 1 /\ m % 2 = 1 /\ completed'[k].activation = completed'[m].activation => k = m
      BY <2>3, <2>4, <2>5, <3>1 DEF AuditInv, ControlMatchesAudit
    <3> QED
      BY <1>0, <2>1, <2>3, <2>4, <2>6, <3>2, <3>3, <3>4 DEF ControlMatchesAudit
  <2> QED
    BY <1>0, <2>1, <2>4, <2>7 DEF AuditInv
<1>2. ASSUME NEW a \in Activations, ExecuteRelease(a)
      PROVE  /\ AuditInv' /\ completed' \in Seq(CompletedRows) /\ version' \in Nat
             /\ mode' = "normal" /\ activation' = NoActivation
  <2> DEFINE row == [kind |-> "release", activation |-> a]
  <2>1. /\ mode = "protected" /\ activation = a
        /\ mode' = "normal" /\ activation' = NoActivation /\ version' = version + 1
        /\ completed' = Append(completed, row)
    BY <1>2 DEF ExecuteRelease, InForce, ReleasedActivation
  <2>2. row \in CompletedRows
    BY DEF CompletedRows
  <2>3. row.activation = a /\ row.kind = "release"
    OBVIOUS
  <2> HIDE DEF row
  <2>4. /\ completed' \in Seq(CompletedRows)
        /\ Len(completed') = n + 1
        /\ \A k \in 1..n : completed'[k] = completed[k]
        /\ completed'[n + 1] = row
    BY <1>0, <2>1, <2>2, AppendProperties
  <2>5. n % 2 = 1 /\ (n + 1) % 2 = 0 /\ n \in 1..n /\ completed[n].activation = a
    BY <1>0, <2>1 DEF AuditInv, ControlMatchesAudit
  <2>7. ControlMatchesAudit'
    <3>1. \A k \in 1..(n + 1) : k \in 1..n \/ k = n + 1
      BY <1>0
    <3>2. \A k \in 1..(n + 1) :
             completed'[k].kind = IF k % 2 = 1 THEN "activation" ELSE "release"
      BY <2>3, <2>4, <2>5, <3>1 DEF AuditInv, ControlMatchesAudit
    <3>3. \A k \in 1..(n + 1) : k % 2 = 0 => completed'[k].activation = completed'[k - 1].activation
      <4> SUFFICES ASSUME NEW k \in 1..(n + 1), k % 2 = 0
                   PROVE  completed'[k].activation = completed'[k - 1].activation
        OBVIOUS
      <4>1. CASE k \in 1..n
        <5>1. k - 1 \in 1..n
          BY <1>0, <4>1
        <5> QED
          BY <2>4, <4>1, <5>1 DEF AuditInv, ControlMatchesAudit
      <4>2. CASE k = n + 1
        BY <1>0, <2>3, <2>4, <2>5, <4>2
      <4> QED
        BY <3>1, <4>1, <4>2
    <3>4. \A k, m \in 1..(n + 1) :
             k % 2 = 1 /\ m % 2 = 1 /\ completed'[k].activation = completed'[m].activation => k = m
      BY <2>4, <2>5, <3>1 DEF AuditInv, ControlMatchesAudit
    <3>5. version' = (n + 1) + 1 /\ ~((n + 1) % 2 = 1) /\ mode' = "normal"
      BY <1>0, <2>1, <2>5
    <3> QED
      BY <2>4, <3>2, <3>3, <3>4, <3>5 DEF ControlMatchesAudit
  <2> QED
    BY <1>0, <2>1, <2>4, <2>7 DEF AuditInv
<1>3. CASE UNCHANGED <<controlRow, completed>>
  BY <1>0, <1>3 DEF ProtectionTypeOK, AuditInv, ControlMatchesAudit, controlRow
<1> QED
  BY <1>1, <1>2, <1>3, ControlWriters

\* The registries only grow while the process lives, so a permit keeps its
\* evidence; it ends with the process.
LEMMA PermitStep ==
    ASSUME ProtectionTypeOK, PermitInv, [ProtectionNext]_protectionVars
    PROVE  PermitInv'
<1> USE DEF store, registry, permits, Earned
<1>1. ASSUME NEW o \in Observations, ReserveFixed(o)
      PROVE  PermitInv'
  BY <1>1 DEF PermitInv, ReserveFixed
<1>2. ASSUME NEW o \in Observations, AuthorizeFixed(o)
      PROVE  PermitInv'
  BY <1>2 DEF PermitInv, AuthorizeFixed, HasReservation
<1>3. ASSUME NEW o \in Observations, NEW a \in Activations, ExecuteFixed(o, a)
      PROVE  PermitInv'
  BY <1>3 DEF PermitInv, ExecuteFixed
<1>4. ASSUME NEW source \in Sources, ObserveRecovery(source)
      PROVE  PermitInv'
  <2>1. issued \subseteq issued' /\ UNCHANGED <<reserved, evaluations, proposals, verified, permits>>
    BY <1>4 DEF ObserveRecovery
  <2>2. \A a \in releasePermits : Earned(a)'
    BY <2>1 DEF PermitInv
  <2> QED
    BY <2>1, <2>2 DEF PermitInv
<1>5. ASSUME NEW e \in Evaluations, EvaluateRelease(e)
      PROVE  PermitInv'
  BY <1>5 DEF PermitInv, EvaluateRelease
<1>6. ASSUME NEW e \in evaluations, FinalizeRelease(e)
      PROVE  PermitInv'
  BY <1>6 DEF PermitInv, FinalizeRelease
<1>7. ASSUME NEW a \in Activations, VerifyRelease(a)
      PROVE  PermitInv'
  BY <1>7 DEF PermitInv, VerifyRelease
<1>8. ASSUME NEW p \in proposals, AuthorizeRelease(p)
      PROVE  PermitInv'
  <2>1. Complete(p.evidence)
    BY DEF ProtectionTypeOK, Evaluations
  <2>2. Earned(p.activation)
    BY <1>8, <2>1 DEF AuthorizeRelease, Matches
  <2> QED
    BY <1>8, <2>2 DEF PermitInv, AuthorizeRelease
<1>9. ASSUME NEW a \in Activations, ExecuteRelease(a)
      PROVE  PermitInv'
  BY <1>9 DEF PermitInv, ExecuteRelease
<1>10. CASE ProcessEnds
  BY <1>10 DEF PermitInv, ProcessEnds
<1>11. CASE ProcessStarts \/ UNCHANGED protectionVars
  BY <1>11 DEF PermitInv, ProcessStarts, protectionVars
<1> QED
  BY <1>1, <1>2, <1>3, <1>4, <1>5, <1>6, <1>7, <1>8, <1>9, <1>10, <1>11 DEF ProtectionNext

\* A reservation is of an observation that has no row yet; an activation is by
\* one of the running process; a new process knows none.
LEMMA ReservationStep ==
    ASSUME ProtectionTypeOK, ReservationInv, [ProtectionNext]_protectionVars
    PROVE  ReservationInv'
<1> USE DEF store, controlRow, registry, permits
<1>0. completed \in Seq(CompletedRows) /\ Len(completed) \in Nat /\ before \in 0..Len(completed)
  BY LenProperties DEF ProtectionTypeOK
<1>1. CASE UNCHANGED <<completed, reserved, held, before, running>>
  BY <1>1 DEF ReservationInv, ReservationsEndWithTheProcess
<1>2. ASSUME NEW o \in Observations, ReserveFixed(o)
      PROVE  ReservationInv'
  <2>1. /\ o \notin reserved /\ reserved' = reserved \cup {o} /\ held' = held \cup {o}
        /\ running' /\ UNCHANGED <<completed, before>>
    BY <1>2 DEF ReserveFixed
  <2>2. \A k \in 1..before : k \in 1..Len(completed)
    BY <1>0
  <2>3. \A k \in 1..before :
           completed[k].kind = "activation" => completed[k].observation \notin held \cup {o}
    BY <2>1, <2>2 DEF ReservationInv
  <2> QED
    BY <2>1, <2>3 DEF ReservationInv, ReservationsEndWithTheProcess
<1>3. ASSUME NEW row \in CompletedRows, completed' = Append(completed, row),
             UNCHANGED <<reserved, held, before>>, running' = running,
             row.kind = "activation" => row.observation \in reserved \cap held
      PROVE  ReservationInv'
  <2>1. /\ Len(completed') = Len(completed) + 1
        /\ \A k \in 1..Len(completed) : completed'[k] = completed[k]
        /\ completed'[Len(completed) + 1] = row
    BY <1>0, <1>3, AppendProperties
  <2>2. \A k \in 1..Len(completed') : k \in 1..Len(completed) \/ k = Len(completed) + 1
    BY <1>0, <2>1
  <2>3. \A k \in 1..before : k \in 1..Len(completed)
    BY <1>0
  <2>4. \A m \in (before + 1)..Len(completed') :
           m \in (before + 1)..Len(completed) \/ m = Len(completed) + 1
    BY <1>0, <2>1
  <2>5. \A m \in (before + 1)..Len(completed) : m \in 1..Len(completed)
    BY <1>0
  <2>6. \A k \in 1..Len(completed') :
           completed'[k].kind = "activation" => completed'[k].observation \in reserved
    BY <1>3, <2>1, <2>2 DEF ReservationInv
  <2>7. \A k \in 1..before :
           completed'[k].kind = "activation" => completed'[k].observation \notin held
    BY <2>1, <2>3 DEF ReservationInv
  <2>8. ASSUME NEW k \in 1..before, NEW m \in (before + 1)..Len(completed'),
               completed'[k].kind = "activation", completed'[m].kind = "activation"
        PROVE  completed'[k].observation # completed'[m].observation
    <3>1. CASE m = Len(completed) + 1
      BY <1>3, <2>1, <2>7, <2>8, <3>1
    <3>2. CASE m \in (before + 1)..Len(completed)
      BY <2>1, <2>3, <2>5, <2>8, <3>2 DEF ReservationInv, ReservationsEndWithTheProcess
    <3> QED
      BY <2>4, <3>1, <3>2
  <2>9. ReservationsEndWithTheProcess'
    BY <1>3, <2>8 DEF ReservationsEndWithTheProcess
  <2> QED
    BY <1>3, <2>6, <2>7, <2>9 DEF ReservationInv
<1>4. ASSUME NEW o \in Observations, NEW a \in Activations, ExecuteFixed(o, a)
      PROVE  ReservationInv'
  <2> DEFINE row == [kind |-> "activation", activation |-> a, observation |-> o]
  <2>1. row \in CompletedRows /\ row.observation = o /\ o \in reserved \cap held
    BY <1>4 DEF CompletedRows, ExecuteFixed, HasReservation
  <2>2. completed' = Append(completed, row) /\ UNCHANGED <<reserved, held, before, running>>
    BY <1>4 DEF ExecuteFixed
  <2> HIDE DEF row
  <2> QED
    BY <1>3, <2>1, <2>2
<1>5. ASSUME NEW a \in Activations, ExecuteRelease(a)
      PROVE  ReservationInv'
  <2> DEFINE row == [kind |-> "release", activation |-> a]
  <2>1. row \in CompletedRows /\ row.kind # "activation"
    BY DEF CompletedRows
  <2>2. completed' = Append(completed, row) /\ UNCHANGED <<reserved, held, before, running>>
    BY <1>5 DEF ExecuteRelease
  <2> HIDE DEF row
  <2> QED
    BY <1>3, <2>1, <2>2
<1>6. CASE ProcessEnds
  BY <1>6 DEF ReservationInv, ReservationsEndWithTheProcess, ProcessEnds
<1>7. CASE ProcessStarts
  <2>1. held = {} /\ UNCHANGED <<completed, reserved, held>> /\ before' = Len(completed) /\ running'
    BY <1>7 DEF ReservationInv, ProcessStarts
  <2>2. (before' + 1)..Len(completed') = {}
    BY <1>0, <2>1
  <2> QED
    BY <2>1, <2>2 DEF ReservationInv, ReservationsEndWithTheProcess
<1>8. ASSUME NEW o \in Observations, AuthorizeFixed(o)
      PROVE  ReservationInv'
  BY <1>1, <1>8 DEF AuthorizeFixed
<1>9. ASSUME NEW e, ObserveRecovery(e) \/ EvaluateRelease(e) \/ FinalizeRelease(e)
      PROVE  ReservationInv'
  BY <1>1, <1>9 DEF ObserveRecovery, EvaluateRelease, FinalizeRelease
<1>10. ASSUME NEW e, VerifyRelease(e) \/ AuthorizeRelease(e)
      PROVE  ReservationInv'
  BY <1>1, <1>10 DEF VerifyRelease, AuthorizeRelease
<1>11. CASE UNCHANGED protectionVars
  BY <1>1, <1>11 DEF protectionVars
<1> QED
  BY <1>2, <1>4, <1>5, <1>6, <1>7, <1>8, <1>9, <1>10, <1>11 DEF ProtectionNext

LEMMA ProtectionTypeStep ==
    ASSUME ProtectionTypeOK, AuditInv, [ProtectionNext]_protectionVars
    PROVE  ProtectionTypeOK'
<1> USE DEF registry, permits
<1>1. /\ completed' \in Seq(CompletedRows)
      /\ version' \in Nat
      /\ mode' \in {"normal", "protected"}
      /\ activation' \in IF mode' = "normal" THEN {NoActivation} ELSE Activations
  BY AuditStep
<1> DEFINE Rest ==
       /\ reserved \subseteq Observations /\ running \in BOOLEAN
       /\ held \subseteq Observations /\ fixedPermits \subseteq Observations
       /\ issued \subseteq RecoveryObservations /\ evaluations \subseteq Evaluations
       /\ proposals \subseteq Evaluations /\ verified \subseteq Activations
       /\ releasePermits \subseteq Activations
<1>2. Rest
  BY DEF ProtectionTypeOK
<1>3. Rest'
  <2>1. ASSUME NEW o \in Observations, ReserveFixed(o) \/ AuthorizeFixed(o)
        PROVE  Rest'
    BY <1>2, <2>1 DEF ReserveFixed, AuthorizeFixed, store
  <2>2. ASSUME NEW o \in Observations, NEW a \in Activations, ExecuteFixed(o, a)
        PROVE  Rest'
    BY <1>2, <2>2 DEF ExecuteFixed
  <2>3. ASSUME NEW source \in Sources, ObserveRecovery(source)
        PROVE  Rest'
    <3>1. [source |-> source, under |-> activation] \in RecoveryObservations
      BY DEF RecoveryObservations, ProtectionTypeOK
    <3> QED
      BY <1>2, <2>3, <3>1 DEF ObserveRecovery, store
  <2>4. ASSUME NEW e \in Evaluations, EvaluateRelease(e)
        PROVE  Rest'
    BY <1>2, <2>4 DEF EvaluateRelease, store
  <2>5. ASSUME NEW e \in evaluations, FinalizeRelease(e)
        PROVE  Rest'
    BY <1>2, <2>5 DEF FinalizeRelease, store
  <2>6. ASSUME NEW a \in Activations, VerifyRelease(a)
        PROVE  Rest'
    BY <1>2, <2>6 DEF VerifyRelease, store
  <2>7. ASSUME NEW p \in proposals, AuthorizeRelease(p)
        PROVE  Rest'
    <3>1. p.activation \in Activations
      BY <1>2 DEF Evaluations
    <3> QED
      BY <1>2, <2>7, <3>1 DEF AuthorizeRelease, store
  <2>8. ASSUME NEW a \in Activations, ExecuteRelease(a)
        PROVE  Rest'
    BY <1>2, <2>8 DEF ExecuteRelease
  <2>9. CASE ProcessEnds
    BY <1>2, <2>9 DEF ProcessEnds, store
  <2>10. CASE ProcessStarts \/ UNCHANGED protectionVars
    BY <1>2, <2>10 DEF ProcessStarts, store, protectionVars
  <2> QED
    BY <2>1, <2>2, <2>3, <2>4, <2>5, <2>6, <2>7, <2>8, <2>9, <2>10 DEF ProtectionNext
<1>4. before' \in 0..Len(completed')
  <2>1. completed \in Seq(CompletedRows) /\ Len(completed) \in Nat /\ before \in 0..Len(completed)
    BY LenProperties DEF ProtectionTypeOK
  <2>2. ASSUME NEW row, completed' = Append(completed, row), before' = before, row \in CompletedRows
        PROVE  before' \in 0..Len(completed')
    <3>1. Len(completed') = Len(completed) + 1
      BY <2>1, <2>2, AppendProperties
    <3> QED
      BY <2>1, <2>2, <3>1
  <2>3. ASSUME NEW o \in Observations, NEW a \in Activations, ExecuteFixed(o, a)
        PROVE  before' \in 0..Len(completed')
    <3>1. [kind |-> "activation", activation |-> a, observation |-> o] \in CompletedRows
      BY DEF CompletedRows
    <3> QED
      BY <2>2, <2>3, <3>1 DEF ExecuteFixed
  <2>4. ASSUME NEW a \in Activations, ExecuteRelease(a)
        PROVE  before' \in 0..Len(completed')
    <3>1. [kind |-> "release", activation |-> a] \in CompletedRows
      BY DEF CompletedRows
    <3> QED
      BY <2>2, <2>4, <3>1 DEF ExecuteRelease
  <2>5. CASE UNCHANGED <<controlRow, completed>>
    <3>1. before' = before \/ before' = Len(completed)
      BY BeforeWriters
    <3> QED
      BY <2>1, <2>5, <3>1
  <2> QED
    BY <2>3, <2>4, <2>5, ControlWriters
<1> QED
  BY <1>1, <1>3, <1>4 DEF ProtectionTypeOK

-----------------------------------------------------------------------------

\* IInv holds in every reachable state.
THEOREM ProtectionInductive == ProtectionSpec => []ProtectionInv
<1>1. ProtectionInv /\ [ProtectionNext]_protectionVars => ProtectionInv'
  BY ProtectionTypeStep, AuditStep, PermitStep, ReservationStep DEF ProtectionInv
<1> QED
  BY <1>1, ProtectionInitially, PTL DEF ProtectionSpec

\* The variables keep their types; an activation ID is there exactly while
\* protection is active.
THEOREM ProtectionTypeCorrect == ProtectionSpec => []ProtectionTypeOK
<1>1. ProtectionInv => ProtectionTypeOK
  BY DEF ProtectionInv
<1> QED
  BY <1>1, ProtectionInductive, PTL

\* activate_protection_atomic and release_protection_atomic: the control row is
\* what the completed audit rows say, through every crash.
THEOREM AuditTellsControl == ProtectionSpec => []ControlMatchesAudit
<1>1. ProtectionInv => ControlMatchesAudit
  BY DEF ProtectionInv, AuditInv
<1> QED
  BY <1>1, ProtectionInductive, PTL

\* authorize_release: no release without the whole evidence in the registries
\* of the running process.
THEOREM ReleasesAreEarned == ProtectionSpec => ReleaseIsEarned
<1> DEFINE Gone == mode = "protected" /\ mode' = "normal"
<1> DEFINE Whole ==
        /\ activation \in verified
        /\ \E p \in proposals :
              p.activation = activation /\ Complete(p.evidence) /\ p.evidence \subseteq issued
<1>1. ProtectionInv /\ [ProtectionNext]_protectionVars => [Gone => Whole]_protectionVars
  <2> SUFFICES ASSUME ProtectionInv, [ProtectionNext]_protectionVars, Gone
               PROVE  Whole
    OBVIOUS
  <2>1. PICK a \in Activations : ExecuteRelease(a)
    BY ControlWriters DEF controlRow, ExecuteFixed
  <2>2. a \in releasePermits /\ activation = a
    BY <2>1 DEF ExecuteRelease, InForce
  <2> QED
    BY <2>2 DEF ProtectionInv, PermitInv, Earned
<1> QED
  BY <1>1, ProtectionInductive, PTL DEF ProtectionSpec, ReleaseIsEarned

\* reserve_protection_execution and has_protection_reservation: what activated
\* protection in one process never does so in a later one.
THEOREM ReservationsEnd == ProtectionSpec => []ReservationsEndWithTheProcess
<1>1. ProtectionInv => ReservationsEndWithTheProcess
  BY DEF ProtectionInv, ReservationInv
<1> QED
  BY <1>1, ProtectionInductive, PTL

-----------------------------------------------------------------------------
(* The capability gate *)

TableInv ==
    /\ \A row, other \in executions : row.key = other.key => row = other
    /\ \A row, other \in executions : row.request = other.request => row = other
    /\ \A row \in executions : row.request <= given
    /\ \A k \in Keys : reads[k] # 0 => RowsOf(k) # {}
    /\ \A k \in Keys : reads[k] \in {0, 1}
    /\ \A row \in executions : row.status = "completed" => <<row.key, row.result>> \in answers

\* The row the call in progress has inserted.
OwnRow(status) ==
    \E row \in executions : row.key = call.key /\ row.request = call.id /\ row.status = status

CallInv ==
    /\ pc = "idle" <=> call = NoCall
    /\ pc # "idle" => call \in Requests /\ up /\ call.id = given
    /\ pc = "authorize" => \A row \in executions : row.request # call.id
    /\ pc = "execute" => OwnRow("reserved") /\ reads[call.key] = 0 /\ Granted
    /\ pc = "record" => OwnRow("reserved")
    /\ pc \in {"receive", "save"} => OwnRow("completed")

EvidenceInv ==
    /\ EvidenceIsCompleted
    /\ OutcomesAreTrue
    /\ \A t \in told : t.request <= given /\ (pc # "idle" => t.request < given)

IInv == TypeOK /\ TableInv /\ CallInv /\ EvidenceInv

-----------------------------------------------------------------------------

LEMMA Initially == Init => IInv
<1> SUFFICES ASSUME Init PROVE IInv
  OBVIOUS
<1>1. TypeOK
  BY RequestBound DEF Init, TypeOK
<1>2. TableInv /\ CallInv
  BY DEF Init, TableInv, CallInv
<1>3. EvidenceInv
  BY DEF Init, EvidenceInv, EvidenceIsCompleted, OutcomesAreTrue
<1> QED
  BY <1>1, <1>2, <1>3 DEF IInv

\* The table changes by a reservation or by a completion.
LEMMA TableWriters ==
    ASSUME [Next]_vars
    PROVE  Reserve \/ RecordResult \/ UNCHANGED executions
<1> USE DEF durable
<1>1. ASSUME NEW request \in Requests, Begin(request)
      PROVE  UNCHANGED executions
  BY <1>1 DEF Begin
<1>2. ASSUME NEW result \in Results, Execute(result)
      PROVE  UNCHANGED executions
  BY <1>2 DEF Execute
<1>3. CASE Reject \/ Duplicate \/ StoreFails \/ ExecuteRaises \/ ReceiveElsewhere
  BY <1>3 DEF Reject, Duplicate, StoreFails, ExecuteRaises, ReceiveElsewhere
<1>4. CASE ReceiveAsEvidence \/ Save \/ SaveFails \/ Checkpoint \/ Crash \/ Restart
  BY <1>4 DEF ReceiveAsEvidence, Save, SaveFails, Checkpoint, Crash, Restart
<1>5. CASE UNCHANGED vars
  BY <1>5 DEF vars
<1> QED
  BY <1>1, <1>2, <1>3, <1>4, <1>5 DEF Next

\* The resource is read by the two outcomes of a call of the reader only.
LEMMA Readers ==
    ASSUME [Next]_vars
    PROVE  \/ \E result \in Results : Execute(result)
           \/ ExecuteRaises
           \/ UNCHANGED <<reads, answers>>
<1> USE DEF history
<1>1. ASSUME NEW request \in Requests, Begin(request)
      PROVE  UNCHANGED <<reads, answers>>
  BY <1>1 DEF Begin
<1>2. CASE Reject \/ Duplicate \/ Reserve \/ StoreFails \/ RecordResult \/ ReceiveElsewhere
  BY <1>2 DEF Reject, Duplicate, Reserve, StoreFails, RecordResult, ReceiveElsewhere
<1>3. CASE ReceiveAsEvidence \/ Save \/ SaveFails \/ Checkpoint \/ Crash \/ Restart
  BY <1>3 DEF ReceiveAsEvidence, Save, SaveFails, Checkpoint, Crash, Restart
<1>4. CASE UNCHANGED vars
  BY <1>4 DEF vars
<1> QED
  BY <1>1, <1>2, <1>3, <1>4 DEF Next

\* A reservation adds a row for a key that has none, under a request ID that
\* has none; nothing was read for the key yet.
LEMMA ReserveAdds ==
    ASSUME TypeOK, TableInv, CallInv, Reserve
    PROVE  \E new \in Rows :
              /\ new.key = call.key /\ new.request = call.id /\ new.status = "reserved"
              /\ new.result = "none"
              /\ executions' = executions \cup {new}
              /\ call \in Requests /\ call.id = given /\ reads[call.key] = 0
              /\ \A row \in executions : row.key # call.key /\ row.request # call.id
<1> DEFINE new == [key |-> call.key, request |-> call.id, status |-> "reserved", result |-> "none"]
<1>1. call \in Requests /\ call.id = given /\ \A row \in executions : row.request # call.id
  BY DEF CallInv, Reserve
<1>2. new \in Rows
  BY <1>1 DEF Rows, Requests, Results
<1>3. \A row \in executions : row.key # call.key
  BY DEF Reserve, Taken, RowsOf
<1>4. reads[call.key] = 0
  BY <1>1, <1>3 DEF TableInv, RowsOf, Requests
<1> QED
  BY <1>1, <1>2, <1>3, <1>4 DEF Reserve

\* A completion replaces the reserved row of the call by a completed one.
LEMMA RecordReplaces ==
    ASSUME TypeOK, TableInv, CallInv, RecordResult
    PROVE  \E old \in executions, new \in Rows :
              /\ old.key = call.key /\ old.request = call.id /\ old.status = "reserved"
              /\ new.key = call.key /\ new.request = call.id /\ new.status = "completed"
              /\ new.result \in Results
              /\ <<new.key, new.result>> \in answers
              /\ executions' = (executions \ {old}) \cup {new}
<1>1. PICK old \in RowsOf(call.key), result \in Results :
          /\ old.request = call.id
          /\ old.status = "reserved"
          /\ <<call.key, result>> \in answers
          /\ executions' = (executions \ {old}) \cup {Completed(old, result)}
  BY DEF RecordResult
<1> DEFINE new == Completed(old, result)
<1>2. old \in executions /\ old \in Rows /\ old.key = call.key
  BY <1>1 DEF RowsOf, TypeOK
<1>3. /\ new \in Rows
      /\ new.key = call.key /\ new.request = call.id
      /\ new.status = "completed" /\ new.result = result
  BY <1>1, <1>2 DEF Completed, Rows
<1> QED
  BY <1>1, <1>2, <1>3

LEMMA TypeStep ==
    ASSUME IInv, [Next]_vars
    PROVE  TypeOK'
<1> USE DEF durable, process, control, history, Idle, Raise
<1>0. TypeOK /\ TableInv /\ CallInv
  BY DEF IInv
<1>1. executions' \subseteq Rows
      /\ \A row \in executions' : row.status = "reserved" <=> row.result = "none"
  <2>1. CASE Reserve
    BY <1>0, <2>1, ReserveAdds DEF TypeOK
  <2>2. CASE RecordResult
    <3>1. "none" \notin Results /\ "completed" # "reserved"
      BY DEF Results
    <3> QED
      BY <1>0, <2>2, <3>1, RecordReplaces DEF TypeOK
  <2>3. CASE UNCHANGED executions
    BY <1>0, <2>3 DEF TypeOK
  <2> QED
    BY <2>1, <2>2, <2>3, TableWriters
<1>2. pc # "idle" => call \in Requests /\ call.id \in 1..MaxRequests /\ call.key \in Keys
  BY <1>0 DEF CallInv, Requests
<1> DEFINE Rest ==
       /\ saved \subseteq Keys /\ up \in BOOLEAN /\ healthy \in BOOLEAN /\ evidence \subseteq Keys
       /\ call \in Requests \cup {NoCall}
       /\ pc \in {"idle", "authorize", "execute", "record", "receive", "save"}
       /\ given \in 0..MaxRequests
       /\ reads \in [Keys -> Nat]
       /\ answers \subseteq Keys \X Results
       /\ told \subseteq [request : 1..MaxRequests, key : Keys,
                          status : {"executed", "duplicate", "rejected"}]
<1>3. Rest
  BY <1>0 DEF TypeOK
<1>4. ASSUME NEW status \in {"executed", "duplicate", "rejected"}, Tell(status), pc # "idle"
      PROVE  told' \subseteq [request : 1..MaxRequests, key : Keys,
                              status : {"executed", "duplicate", "rejected"}]
  BY <1>2, <1>3, <1>4 DEF Tell
<1>5. ASSUME Read, pc # "idle"
      PROVE  reads' \in [Keys -> Nat]
  BY <1>2, <1>3, <1>5 DEF Read
<1>6. Rest'
  <2>1. ASSUME NEW request \in Requests, Begin(request)
        PROVE  Rest'
    BY <1>3, <2>1, RequestBound DEF Begin, Requests
  <2>2. ASSUME NEW result \in Results, Execute(result)
        PROVE  Rest'
    BY <1>2, <1>3, <1>5, <2>2 DEF Execute, AfterRead
  <2>3. CASE Reject
    BY <1>3, <1>4, <2>3 DEF Reject, Tell
  <2>4. CASE Duplicate
    BY <1>3, <1>4, <2>4 DEF Duplicate, Tell
  <2>5. CASE Reserve
    BY <1>3, <2>5 DEF Reserve
  <2>6. CASE StoreFails \/ SaveFails
    BY <1>3, <2>6 DEF StoreFails, SaveFails
  <2>7. CASE ExecuteRaises
    BY <1>3, <1>5, <2>7 DEF ExecuteRaises
  <2>8. CASE RecordResult
    BY <1>3, <2>8 DEF RecordResult
  <2>9. CASE ReceiveElsewhere
    BY <1>3, <1>4, <2>9 DEF ReceiveElsewhere, Tell
  <2>10. CASE ReceiveAsEvidence
    BY <1>2, <1>3, <2>10 DEF ReceiveAsEvidence
  <2>11. CASE Save
    BY <1>3, <1>4, <2>11 DEF Save, Tell
  <2>12. CASE Checkpoint
    BY <1>3, <2>12 DEF Checkpoint
  <2>13. CASE Crash
    BY <1>3, <2>13 DEF Crash
  <2>14. CASE Restart
    BY <1>3, <2>14 DEF Restart
  <2>15. CASE UNCHANGED vars
    BY <1>3, <2>15 DEF vars
  <2> QED
    BY <2>1, <2>2, <2>3, <2>4, <2>5, <2>6, <2>7, <2>8, <2>9, <2>10, <2>11, <2>12, <2>13,
       <2>14, <2>15 DEF Next
<1> QED
  BY <1>1, <1>6 DEF TypeOK

LEMMA TableStep ==
    ASSUME IInv, [Next]_vars
    PROVE  TableInv'
<1> USE DEF durable, process, control, history
<1>0. TypeOK /\ TableInv /\ CallInv
  BY DEF IInv
<1>1. CASE Reserve
  <2>1. PICK new \in Rows :
              /\ new.key = call.key /\ new.request = call.id /\ new.status = "reserved"
              /\ executions' = executions \cup {new}
              /\ call.id = given
              /\ \A row \in executions : row.key # call.key /\ row.request # call.id
    BY <1>0, <1>1, ReserveAdds
  <2>2. UNCHANGED <<given, reads, answers>>
    BY <1>1 DEF Reserve
  <2>3. given \in Nat
    BY <1>0, RequestBound DEF TypeOK
  <2> QED
    BY <1>0, <2>1, <2>2, <2>3 DEF TableInv, RowsOf
<1>2. CASE RecordResult
  <2>1. PICK old \in executions, new \in Rows :
              /\ old.key = call.key /\ old.request = call.id
              /\ new.key = call.key /\ new.request = call.id /\ new.status = "completed"
              /\ <<new.key, new.result>> \in answers
              /\ executions' = (executions \ {old}) \cup {new}
    BY <1>0, <1>2, RecordReplaces
  <2>2. UNCHANGED <<given, reads, answers>>
    BY <1>2 DEF RecordResult
  <2>3. \A k \in Keys : RowsOf(k) # {} => RowsOf(k)' # {}
    BY <2>1 DEF RowsOf
  <2>4. /\ \A row, other \in executions' : row.key = other.key => row = other
        /\ \A row, other \in executions' : row.request = other.request => row = other
    BY <1>0, <2>1 DEF TableInv
  <2>5. \A row \in executions' : row.request <= given'
    BY <1>0, <2>1, <2>2 DEF TableInv
  <2>6. \A row \in executions' : row.status = "completed" => <<row.key, row.result>> \in answers'
    BY <1>0, <2>1, <2>2 DEF TableInv
  <2> QED
    BY <1>0, <2>2, <2>3, <2>4, <2>5, <2>6 DEF TableInv
<1>3. CASE UNCHANGED executions
  <2>1. given' \in Nat /\ given <= given'
    <3>1. ASSUME NEW request \in Requests, Begin(request)
          PROVE  given' = given + 1
      BY <3>1 DEF Begin
    <3>2. given' = given \/ given' = given + 1
      <4>1. CASE Reject \/ Duplicate \/ Reserve \/ StoreFails \/ RecordResult \/ ReceiveElsewhere
        BY <4>1 DEF Reject, Duplicate, Reserve, StoreFails, RecordResult, ReceiveElsewhere
      <4>2. CASE ReceiveAsEvidence \/ Save \/ SaveFails \/ Checkpoint \/ Crash \/ Restart
        BY <4>2 DEF ReceiveAsEvidence, Save, SaveFails, Checkpoint, Crash, Restart
      <4>3. CASE ExecuteRaises \/ (\E result \in Results : Execute(result)) \/ UNCHANGED vars
        BY <4>3 DEF ExecuteRaises, Execute, vars
      <4> QED
        BY <3>1, <4>1, <4>2, <4>3 DEF Next
    <3> QED
      BY <1>0, <3>2, RequestBound DEF TypeOK
  <2>2. /\ answers \subseteq answers'
        /\ \A k \in Keys : reads'[k] = reads[k] \/ (reads[k] = 0 /\ reads'[k] = 1 /\ RowsOf(k) # {})
    <3>1. ASSUME pc = "execute", Read
          PROVE  \A k \in Keys :
                    reads'[k] = reads[k] \/ (reads[k] = 0 /\ reads'[k] = 1 /\ RowsOf(k) # {})
      <4>1. call.key \in Keys /\ reads[call.key] = 0 /\ RowsOf(call.key) # {}
        BY <1>0, <3>1 DEF CallInv, OwnRow, RowsOf, Requests
      <4> QED
        BY <1>0, <3>1, <4>1 DEF Read, TypeOK
    <3>2. CASE \E result \in Results : Execute(result)
      BY <3>1, <3>2 DEF Execute
    <3>3. CASE ExecuteRaises
      BY <3>1, <3>3 DEF ExecuteRaises
    <3>4. CASE UNCHANGED <<reads, answers>>
      BY <3>4
    <3> QED
      BY <3>2, <3>3, <3>4, Readers
  <2>3. \A row \in executions' : row.request \in Nat
    BY <1>0, <1>3, RequestBound DEF TypeOK, Rows
  <2>4. \A row \in executions' : row.request <= given'
    BY <1>0, <1>3, <2>1, <2>3, RequestBound DEF TableInv, TypeOK
  <2>5. \A k \in Keys : /\ reads'[k] # 0 => RowsOf(k)' # {}
                        /\ reads'[k] \in {0, 1}
    BY <1>0, <1>3, <2>2 DEF TableInv, RowsOf
  <2> QED
    BY <1>0, <1>3, <2>2, <2>4, <2>5 DEF TableInv
<1> QED
  BY <1>1, <1>2, <1>3, TableWriters

LEMMA CallStep ==
    ASSUME IInv, [Next]_vars
    PROVE  CallInv'
<1> USE DEF durable, process, control, history, Idle, Raise, Tell
<1>0. TypeOK /\ TableInv /\ CallInv
  BY DEF IInv
<1>1. ASSUME NEW request \in Requests, Begin(request)
      PROVE  CallInv'
  <2>1. \A row \in executions : row.request # given + 1
    <3>1. \A row \in executions : row.request \in Nat /\ row.request <= given
      BY <1>0, RequestBound DEF TypeOK, Rows, TableInv
    <3> QED
      BY <1>0, <3>1, RequestBound DEF TypeOK
  <2>2. call' # NoCall
    BY <1>1, CallAssumption DEF Begin, Requests
  <2> QED
    BY <1>0, <1>1, <2>1, <2>2 DEF CallInv, Begin
<1>2. CASE Reject \/ Duplicate \/ StoreFails \/ ExecuteRaises \/ ReceiveElsewhere \/ Save \/ SaveFails
  BY <1>2 DEF CallInv, Reject, Duplicate, StoreFails, ExecuteRaises, ReceiveElsewhere, Save, SaveFails
<1>3. CASE Crash
  BY <1>3 DEF CallInv, Crash
<1>4. CASE Reserve
  <2>1. OwnRow("reserved")' /\ reads'[call'.key] = 0
    <3>1. PICK new \in Rows :
              /\ new.key = call.key /\ new.request = call.id /\ new.status = "reserved"
              /\ executions' = executions \cup {new} /\ reads[call.key] = 0
      BY <1>0, <1>4, ReserveAdds
    <3> QED
      BY <1>4, <3>1 DEF OwnRow, Reserve
  <2> QED
    BY <1>0, <1>4, <2>1 DEF CallInv, Reserve, Granted
<1>5. ASSUME NEW result \in Results, Execute(result)
      PROVE  CallInv'
  BY <1>0, <1>5 DEF CallInv, Execute, AfterRead, OwnRow
<1>6. CASE RecordResult
  <2>1. OwnRow("completed")'
    <3>1. PICK old \in executions, new \in Rows :
              /\ new.key = call.key /\ new.request = call.id /\ new.status = "completed"
              /\ executions' = (executions \ {old}) \cup {new}
      BY <1>0, <1>6, RecordReplaces
    <3> QED
      BY <1>6, <3>1 DEF OwnRow, RecordResult
  <2> QED
    BY <1>0, <1>6, <2>1 DEF CallInv, RecordResult
<1>7. CASE ReceiveAsEvidence
  BY <1>0, <1>7 DEF CallInv, ReceiveAsEvidence, OwnRow
<1>8. CASE Checkpoint
  BY <1>0, <1>8 DEF CallInv, Checkpoint
<1>9. CASE Restart
  BY <1>0, <1>9 DEF CallInv, Restart
<1>10. CASE UNCHANGED vars
  BY <1>0, <1>10 DEF CallInv, vars, OwnRow, Granted
<1> QED
  BY <1>1, <1>2, <1>3, <1>4, <1>5, <1>6, <1>7, <1>8, <1>9, <1>10 DEF Next

LEMMA EvidenceStep ==
    ASSUME IInv, [Next]_vars
    PROVE  EvidenceInv'
<1> USE DEF durable, process, control, history, Idle, Raise
<1>0. TypeOK /\ TableInv /\ CallInv /\ EvidenceInv
  BY DEF IInv
<1> DEFINE Done(rows, k) == \E row \in rows : row.key = k /\ row.status = "completed"
<1> DEFINE Holds(rows, t) ==
        /\ t.status = "executed" =>
              \E row \in rows : row.key = t.key /\ row.request = t.request /\ row.status = "completed"
        /\ t.status = "duplicate" => \E row \in rows : row.key = t.key /\ row.request # t.request
        /\ t.status = "rejected" => \A row \in rows : row.request # t.request
\* What the table says of a key or of an old request stays true.
<1>1. /\ \A k \in Keys : Done(executions, k) => Done(executions', k)
      /\ \A t \in told : Holds(executions, t) => Holds(executions', t)
  <2>1. CASE Reserve
    <3>1. PICK new \in Rows :
              new.request = call.id /\ executions' = executions \cup {new} /\ call.id = given
      BY <1>0, <2>1, ReserveAdds
    <3>2. \A t \in told : t.request < given
      BY <1>0, <2>1 DEF EvidenceInv, Reserve
    <3>3. \A t \in told : t.request # given
      BY <1>0, <3>2, RequestBound DEF TypeOK
    <3> QED
      BY <3>1, <3>3
  <2>2. CASE RecordResult
    <3>1. PICK old \in executions, new \in Rows :
              /\ old.key = call.key /\ old.request = call.id /\ old.status = "reserved"
              /\ new.key = call.key /\ new.request = call.id
              /\ executions' = (executions \ {old}) \cup {new}
      BY <1>0, <2>2, RecordReplaces
    <3> QED
      BY <3>1
  <2>3. CASE UNCHANGED executions
    BY <2>3
  <2> QED
    BY <2>1, <2>2, <2>3, TableWriters
<1>2. EvidenceIsCompleted'
  <2>1. \A k \in saved' \cup evidence' : k \in saved \cup evidence \/ (pc = "receive" /\ k = call.key)
    <3>1. ASSUME NEW request \in Requests, Begin(request)
          PROVE  UNCHANGED <<saved, evidence>>
      BY <3>1 DEF Begin
    <3>2. CASE Reject \/ Duplicate \/ StoreFails \/ ExecuteRaises \/ Reserve \/ RecordResult
      BY <3>2 DEF Reject, Duplicate, StoreFails, ExecuteRaises, Reserve, RecordResult
    <3>3. CASE (\E result \in Results : Execute(result)) \/ UNCHANGED vars
      BY <3>3 DEF Execute, vars
    <3>4. CASE ReceiveElsewhere \/ ReceiveAsEvidence \/ Save \/ SaveFails
      BY <3>4 DEF ReceiveElsewhere, ReceiveAsEvidence, Save, SaveFails
    <3>5. CASE Checkpoint \/ Crash \/ Restart
      BY <3>5 DEF Checkpoint, Crash, Restart
    <3> QED
      BY <3>1, <3>2, <3>3, <3>4, <3>5 DEF Next
  <2>2. pc = "receive" => Done(executions, call.key)
    BY <1>0 DEF CallInv, OwnRow
  <2>3. pc = "receive" => call.key \in Keys
    BY <1>0 DEF CallInv, Requests
  <2>4. \A k \in saved \cup evidence : k \in Keys /\ Done(executions, k)
    BY <1>0 DEF TypeOK, EvidenceInv, EvidenceIsCompleted
  <2> QED
    BY <1>1, <2>1, <2>2, <2>3, <2>4 DEF EvidenceIsCompleted
<1>3. \A t \in told : Holds(executions, t)
  BY <1>0 DEF EvidenceInv, OutcomesAreTrue
<1>4. ASSUME NEW status \in {"executed", "duplicate", "rejected"}, Tell(status), pc # "idle",
             UNCHANGED given,
             Holds(executions', [request |-> call.id, key |-> call.key, status |-> status])
      PROVE  EvidenceInv'
  <2>1. \A t \in told' : Holds(executions', t)
    BY <1>1, <1>3, <1>4 DEF Tell
  <2>2. \A t \in told' : t.request <= given'
    BY <1>0, <1>4, RequestBound DEF EvidenceInv, CallInv, Tell, TypeOK
  <2> QED
    BY <1>2, <1>4, <2>1, <2>2 DEF EvidenceInv, OutcomesAreTrue, Tell
<1>5. ASSUME UNCHANGED told, given' = given, pc' # "idle" => pc # "idle"
      PROVE  EvidenceInv'
  BY <1>0, <1>1, <1>2, <1>3, <1>5 DEF EvidenceInv, OutcomesAreTrue
<1>6. ASSUME NEW request \in Requests, Begin(request)
      PROVE  EvidenceInv'
  <2>1. UNCHANGED told /\ given' = given + 1
    BY <1>6 DEF Begin
  <2>2. \A t \in told : t.request <= given' /\ t.request < given'
    BY <1>0, <2>1, RequestBound DEF EvidenceInv, TypeOK
  <2> QED
    BY <1>1, <1>2, <1>3, <2>1, <2>2 DEF EvidenceInv, OutcomesAreTrue
<1>7. CASE Reject
  <2>1. Holds(executions', [request |-> call.id, key |-> call.key, status |-> "rejected"])
    BY <1>0, <1>7 DEF Reject, CallInv
  <2> QED
    BY <1>4, <1>7, <2>1 DEF Reject
<1>8. CASE Duplicate
  <2>1. \E row \in executions : row.key = call.key /\ row.request # call.id
    BY <1>0, <1>8 DEF Duplicate, Taken, RowsOf, CallInv
  <2>2. Holds(executions', [request |-> call.id, key |-> call.key, status |-> "duplicate"])
    BY <1>8, <2>1 DEF Duplicate
  <2> QED
    BY <1>4, <1>8, <2>2 DEF Duplicate
<1>9. CASE ReceiveElsewhere
  <2>1. Holds(executions', [request |-> call.id, key |-> call.key, status |-> "executed"])
    BY <1>0, <1>9 DEF ReceiveElsewhere, CallInv, OwnRow
  <2> QED
    BY <1>4, <1>9, <2>1 DEF ReceiveElsewhere
<1>10. CASE Save
  <2>1. Holds(executions', [request |-> call.id, key |-> call.key, status |-> "executed"])
    BY <1>0, <1>10 DEF Save, CallInv, OwnRow
  <2> QED
    BY <1>4, <1>10, <2>1 DEF Save
<1>11. CASE Reserve \/ StoreFails \/ ExecuteRaises \/ RecordResult
  BY <1>5, <1>11 DEF Reserve, StoreFails, ExecuteRaises, RecordResult
<1>12. CASE (\E result \in Results : Execute(result)) \/ UNCHANGED vars
  BY <1>5, <1>12 DEF Execute, vars
<1>13. CASE ReceiveAsEvidence \/ SaveFails \/ Checkpoint \/ Crash \/ Restart
  BY <1>5, <1>13 DEF ReceiveAsEvidence, SaveFails, Checkpoint, Crash, Restart
<1> QED
  BY <1>6, <1>7, <1>8, <1>9, <1>10, <1>11, <1>12, <1>13 DEF Next

\* The strengthened invariant holds in every reachable state.
THEOREM Inductive == Spec => []IInv
<1>1. IInv /\ [Next]_vars => IInv'
  BY TypeStep, TableStep, CallStep, EvidenceStep DEF IInv
<1> QED
  BY Initially, <1>1, PTL DEF Spec

\* The state of the gate, of the process and of the call keeps its shape.
THEOREM TypeCorrect == Spec => []TypeOK
<1>1. IInv => TypeOK
  BY DEF IInv
<1> QED
  BY Inductive, <1>1, PTL

\* What a caller of use_read_capability was told stays true of the table
\* capability_executions, over crashes and restarts.
THEOREM OutcomesStayTrue == Spec => []OutcomesAreTrue
<1>1. IInv => OutcomesAreTrue
  BY DEF IInv, EvidenceInv
<1> QED
  BY Inductive, <1>1, PTL

\* Capability evidence, in Memory or in a checkpoint, belongs to an execution
\* the table calls completed.
THEOREM EvidenceNeverAhead == Spec => []EvidenceIsCompleted
<1>1. IInv => EvidenceIsCompleted
  BY DEF IInv, EvidenceInv
<1> QED
  BY Inductive, <1>1, PTL

-----------------------------------------------------------------------------

ReadIsGranted ==
    \A k \in Keys : reads'[k] # reads[k] =>
        /\ call.key = k
        /\ <<call.authority, call.target>> \in Grants
        /\ \E row \in executions :
              row.key = k /\ row.request = call.id /\ row.status = "reserved"

\* The reader touches a resource only under a registered permission and with
\* the reservation of the same request in the table.
THEOREM ReadsNeedGrants == Spec => ReadsAreGranted
<1>1. ASSUME IInv, [Next]_vars
      PROVE  ReadIsGranted
  <2>1. CASE UNCHANGED reads
    BY <2>1 DEF ReadIsGranted
  <2>2. CASE pc = "execute" /\ Read
    <3>1. \A k \in Keys : reads'[k] # reads[k] => call.key = k
      BY <1>1, <2>2 DEF Read, IInv, TypeOK
    <3>2. Granted /\ OwnRow("reserved")
      BY <1>1, <2>2 DEF IInv, CallInv
    <3> QED
      BY <3>1, <3>2 DEF ReadIsGranted, Granted, OwnRow
  <2> QED
    BY <1>1, <2>1, <2>2, Readers DEF Execute, ExecuteRaises
<1> QED
  BY Inductive, <1>1, PTL DEF Spec, ReadsAreGranted, ReadIsGranted

-----------------------------------------------------------------------------
(* Every step of the gate is a step of AtMostOnce, or none. *)

Settled == {<<row.key, row.result>> : row \in {r \in executions : r.status = "completed"}}
Claimed == {row.key : row \in executions}
Pending == IF pc = "execute" THEN {call.key} ELSE {}

LEMMA GateInit == Init => Gate!Init
<1> SUFFICES ASSUME Init PROVE Gate!Init
  OBVIOUS
<1> QED
  BY DEF Init, Gate!Init

\* A step that leaves the table and the reads alone gives up the effect of the
\* call, if the call was about to read.
LEMMA GateIdles ==
    ASSUME CallInv, UNCHANGED <<executions, reads, answers>>,
           pc' # "execute" \/ (pc = "execute" /\ call' = call)
    PROVE  [Gate!Next]_Gate!vars
<1>1. CASE pc # "execute" \/ pc' = "execute"
  BY <1>1 DEF Gate!vars
<1>2. CASE pc = "execute" /\ pc' # "execute"
  <2>1. call.key \in Keys
    BY <1>2 DEF CallInv, Requests
  <2>2. Gate!GiveUp(call.key)
    BY <1>2 DEF Gate!GiveUp
  <2> QED
    BY <2>1, <2>2 DEF Gate!Next
<1> QED
  BY <1>1, <1>2

LEMMA GateStep ==
    ASSUME IInv, [Next]_vars
    PROVE  [Gate!Next]_Gate!vars
<1> USE DEF durable, process, control, history, Idle, Raise
<1>0. TypeOK /\ TableInv /\ CallInv
  BY DEF IInv
<1>1. CASE Reserve
  <2>1. PICK new \in Rows :
              /\ new.key = call.key /\ new.status = "reserved"
              /\ executions' = executions \cup {new}
              /\ call \in Requests
              /\ \A row \in executions : row.key # call.key
    BY <1>0, <1>1, ReserveAdds
  <2>2. pc = "authorize" /\ pc' = "execute" /\ UNCHANGED <<call, reads, answers>>
    BY <1>1 DEF Reserve
  <2>3. Claimed' = Claimed \cup {call.key} /\ call.key \notin Claimed /\ call.key \in Keys
    BY <2>1 DEF Claimed, Requests
  <2>4. Settled' = Settled
    BY <2>1 DEF Settled
  <2>5. Pending' = Pending \cup {call.key}
    BY <2>2 DEF Pending
  <2>6. PICK k \in Keys : k = call.key
    BY <2>3
  <2>7. Gate!Claim(k)
    BY <2>2, <2>3, <2>4, <2>5, <2>6 DEF Gate!Claim, Claimed, Settled, Pending
  <2> QED
    BY <2>7 DEF Gate!Next
<1>2. CASE RecordResult
  <2>1. PICK old \in executions, new \in Rows :
              /\ old.key = call.key /\ old.status = "reserved"
              /\ new.key = call.key /\ new.status = "completed" /\ new.result \in Results
              /\ <<new.key, new.result>> \in answers
              /\ executions' = (executions \ {old}) \cup {new}
    BY <1>0, <1>2, RecordReplaces
  <2>2. pc = "record" /\ pc' = "receive" /\ UNCHANGED <<call, reads, answers>>
    BY <1>2 DEF RecordResult
  <2>3. Claimed' = Claimed /\ Pending' = Pending
    BY <2>1, <2>2 DEF Claimed, Pending
  <2>4. Settled' = Settled \cup {<<call.key, new.result>>}
    BY <2>1 DEF Settled
  <2>5. Gate!Settle(call.key, new.result)
    BY <2>1, <2>2, <2>3, <2>4 DEF Gate!Settle, Claimed, Settled, Pending
  <2>6. call.key \in Keys
    BY <2>1 DEF Rows
  <2> QED
    BY <2>1, <2>5, <2>6 DEF Gate!Next
<1>3. ASSUME pc = "execute", pc' # "execute", Read, UNCHANGED executions,
             answers' = answers
                 \/ \E result \in Results : answers' = answers \cup {<<call.key, result>>}
      PROVE  [Gate!Next]_Gate!vars
  <2>1. call.key \in Keys /\ reads[call.key] = 0
    BY <1>0, <1>3 DEF CallInv, Requests
  <2>2. Gate!Perform(call.key)
    BY <1>3, <2>1 DEF Gate!Perform, Read
  <2> QED
    BY <2>1, <2>2 DEF Gate!Next
<1>4. ASSUME NEW result \in Results, Execute(result)
      PROVE  [Gate!Next]_Gate!vars
  BY <1>3, <1>4 DEF Execute, AfterRead
<1>5. CASE ExecuteRaises
  <2>1. CASE Read
    BY <1>3, <1>5, <2>1 DEF ExecuteRaises
  <2>2. CASE UNCHANGED reads
    BY <1>0, <1>5, <2>2, GateIdles DEF ExecuteRaises
  <2> QED
    BY <1>5, <2>1, <2>2 DEF ExecuteRaises
<1>6. ASSUME NEW request \in Requests, Begin(request)
      PROVE  [Gate!Next]_Gate!vars
  BY <1>0, <1>6, GateIdles DEF Begin
<1>7. CASE Reject \/ Duplicate \/ StoreFails \/ ReceiveElsewhere \/ ReceiveAsEvidence
  BY <1>0, <1>7, GateIdles
     DEF Reject, Duplicate, StoreFails, ReceiveElsewhere, ReceiveAsEvidence, Tell
<1>8. CASE Save \/ SaveFails \/ Checkpoint \/ Crash \/ Restart \/ UNCHANGED vars
  <2>1. CASE Restart
    <3>1. pc # "execute" /\ UNCHANGED <<pc, executions, reads, answers>>
      BY <1>0, <2>1 DEF Restart, CallInv
    <3> QED
      BY <1>0, <3>1, GateIdles
  <2>2. CASE Save \/ SaveFails \/ Checkpoint \/ Crash \/ UNCHANGED vars
    BY <1>0, <2>2, GateIdles DEF Save, SaveFails, Checkpoint, Crash, vars, Tell
  <2> QED
    BY <1>8, <2>1, <2>2
<1> QED
  BY <1>1, <1>2, <1>4, <1>5, <1>6, <1>7, <1>8 DEF Next

\* The gate implements the abstract promise: over all calls, failures and
\* processes the effect behind a key happens at most once.
THEOREM GateIsAtMostOnce == Spec => ImplementsAtMostOnce
<1>1. IInv /\ [Next]_vars => [Gate!Next]_Gate!vars
  BY GateStep
<1> QED
  BY Inductive, GateInit, <1>1, PTL DEF Spec, ImplementsAtMostOnce, Gate!Spec
=============================================================================
