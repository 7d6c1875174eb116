------------------------ MODULE LifeContinuity_proofs ------------------------
(***************************************************************************)
(* What the checkpoints guarantee, for every set of requests and every     *)
(* retention setting.  The inductive invariant IInv says, besides the      *)
(* types, that the newest retained checkpoint is the last committed one    *)
(* (StoreInv), how much of a request is already in memory and in that      *)
(* checkpoint at each step of its lifecycle (MemoryInv), that a call is    *)
(* only ever in progress in an unprotected process with a healthy store    *)
(* (CallInv), and what the sessions table says of the processes            *)
(* (SessionInv).                                                           *)
(***************************************************************************)
EXTENDS LifeContinuity, FiniteSetTheorems, SequenceTheorems, TLAPS

StoreInv ==
    /\ marked <=> lastSaved # 0
    /\ lastSaved # 0 => lastSaved \in DOMAIN checkpoints
    /\ \A m \in DOMAIN checkpoints : m..lastSaved \subseteq DOMAIN checkpoints

CallInv ==
    /\ pc # "idle" => up /\ healthy /\ ~raised /\ mode = "normal"
    /\ pc \in {"observe", "tick_save", "tick_prune"} => call \in Requests \cup {"time"}
    /\ pc \in {"accept", "record", "exchange", "remember"} => call \in Inputs
    /\ pc = "recontext" => call \in Contexts
    /\ pc = "capability" => call \in Keys
    /\ pc \in {"save", "prune"} => call \in Requests

\* The newest checkpoint, without the CHOOSE of LatestSequence.
LastCommitted == IF lastSaved = 0 THEN {} ELSE checkpoints[lastSaved]

MemoryInv ==
    /\ up => \A fact \in LastCommitted : Holds(material, fact)
    /\ pc \in {"exchange", "remember"} => <<call, "record">> \in material
    /\ pc = "remember" => {call} \X {"turns", "candidates"} \subseteq material
    /\ pc = "save" => FactsOf(call) \subseteq material
    /\ pc = "prune" => FactsOf(call) \subseteq LastCommitted
    /\ \A request \in answered : \A fact \in FactsOf(request) : Holds(LastCommitted, fact)

SessionInv ==
    /\ Len(sessions) = Len(endings)
    /\ up => Len(sessions) > 0 /\ sessions[Last] = "running"
    /\ AbnormalExitIsReported

IInv == TypeOK /\ StoreInv /\ CallInv /\ MemoryInv /\ SessionInv

-----------------------------------------------------------------------------
(* The store *)

\* The greatest of a set of sequence numbers that ends at n.
LEMMA GreatestSequence ==
    ASSUME NEW S, NEW n \in Nat, S \subseteq 1..n, n # 0 => n \in S
    PROVE  /\ (CHOOSE k \in S \cup {0} : \A m \in S : k >= m) = n
           /\ S = {} <=> n = 0
<1>1. n \in S \cup {0} /\ \A m \in S : n >= m
  OBVIOUS
<1>2. ASSUME NEW k \in S \cup {0}, \A m \in S : k >= m
      PROVE  k = n
  BY <1>2
<1>3. ASSUME n = 0, NEW m \in S
      PROVE  FALSE
  BY <1>3
<1> QED
  BY <1>1, <1>2, <1>3

\* The newest retained checkpoint is that of the last commit.
LEMMA LatestIsLastSaved ==
    ASSUME TypeOK, StoreInv
    PROVE  LatestSequence = lastSaved /\ LatestFacts = LastCommitted
<1>1. /\ lastSaved \in Nat /\ DOMAIN checkpoints \subseteq 1..lastSaved
      /\ lastSaved # 0 => lastSaved \in DOMAIN checkpoints
  BY DEF TypeOK, StoreInv
<1>2. LatestSequence = lastSaved /\ (DOMAIN checkpoints = {} <=> lastSaved = 0)
  BY <1>1, GreatestSequence DEF LatestSequence
<1> QED
  BY <1>2 DEF LatestFacts, LastCommitted

\* The same of the state after a step.
LEMMA LatestIsLastSavedNext ==
    ASSUME TypeOK', StoreInv'
    PROVE  LatestFacts' = LastCommitted'
<1>1. /\ lastSaved' \in Nat /\ DOMAIN checkpoints' \subseteq 1..lastSaved'
      /\ lastSaved' # 0 => lastSaved' \in DOMAIN checkpoints'
  BY DEF TypeOK, StoreInv
<1>2. LatestSequence' = lastSaved' /\ (DOMAIN checkpoints' = {} <=> lastSaved' = 0)
  BY <1>1, GreatestSequence DEF LatestSequence
<1> QED
  BY <1>2 DEF LatestFacts, LastCommitted

\* Pruning keeps the newest generations: the last one always, and no gap.
LEMMA KeptIsNewest ==
    ASSUME TypeOK, StoreInv, NEW keep \in Nat \ {0}
    PROVE  /\ Kept(keep) \subseteq DOMAIN checkpoints
           /\ lastSaved # 0 => lastSaved \in Kept(keep)
           /\ \A m \in Kept(keep) : m..lastSaved \subseteq Kept(keep)
<1> DEFINE Above(n) == {m \in DOMAIN checkpoints : m > n}
<1>1. Kept(keep) = {n \in DOMAIN checkpoints : Cardinality(Above(n)) < keep}
  BY DEF Kept
<1>2. IsFiniteSet(DOMAIN checkpoints)
  <2>1. lastSaved \in Nat /\ DOMAIN checkpoints \subseteq 1..lastSaved
    BY DEF TypeOK
  <2>2. IsFiniteSet(1..lastSaved)
    BY <2>1, FS_Interval
  <2> QED
    BY <2>1, <2>2, FS_Subset
<1>3. ASSUME lastSaved # 0
      PROVE  lastSaved \in Kept(keep)
  <2>1. Above(lastSaved) = {}
    BY DEF TypeOK
  <2>2. Cardinality(Above(lastSaved)) = 0
    BY <2>1, FS_EmptySet
  <2> QED
    BY <1>1, <1>3, <2>2 DEF StoreInv
<1>4. ASSUME NEW m \in Kept(keep), NEW k \in m..lastSaved
      PROVE  k \in Kept(keep)
  <2>1. m \in DOMAIN checkpoints /\ Cardinality(Above(m)) < keep
    BY <1>1
  <2>2. k \in DOMAIN checkpoints
    BY <2>1 DEF StoreInv
  <2>3. m \in Nat /\ k \in Nat /\ k >= m
    BY <2>1, <2>2 DEF TypeOK
  <2>4. Above(k) \subseteq Above(m)
    BY <2>3 DEF TypeOK
  <2>5. IsFiniteSet(Above(m))
    BY <1>2, FS_Subset
  <2>6. /\ IsFiniteSet(Above(k))
        /\ Cardinality(Above(k)) <= Cardinality(Above(m))
        /\ Cardinality(Above(k)) \in Nat
        /\ Cardinality(Above(m)) \in Nat
    BY <2>4, <2>5, FS_Subset, FS_CardinalityType
  <2>7. Cardinality(Above(k)) < keep
    BY <2>1, <2>6
  <2> QED
    BY <1>1, <2>2, <2>7
<1> QED
  BY <1>1, <1>3, <1>4

-----------------------------------------------------------------------------
(* What is held of a fact *)

\* What is held stays held when facts are added.
LEMMA HoldsMore ==
    ASSUME NEW facts, NEW more, facts \subseteq more, NEW fact, Holds(facts, fact)
    PROVE  Holds(more, fact)
BY DEF Holds

\* A new context keeps what remains of the turns it puts away.
LEMMA HoldsPutAway ==
    ASSUME NEW facts, NEW fact, Holds(facts, fact)
    PROVE  Holds(PutAway(facts), fact)
<1>1. CASE fact \in facts /\ fact \notin Turns
  BY <1>1 DEF Holds, PutAway
<1>2. CASE fact \in facts /\ fact \in Turns
  BY <1>2 DEF Holds, PutAway
<1>3. CASE fact \in Turns /\ Remains(fact) \in facts
  <2>1. Remains(fact) \notin Turns
    BY DEF Remains, Turns
  <2> QED
    BY <1>3, <2>1 DEF Holds, PutAway
<1> QED
  BY <1>1, <1>2, <1>3 DEF Holds

\* What remains of a turn is no turn: holding carries over from one set of
\* facts to a set that holds all of them.
LEMMA HoldsOn ==
    ASSUME NEW facts, NEW later, \A kept \in facts : Holds(later, kept),
           NEW fact, Holds(facts, fact)
    PROVE  Holds(later, fact)
<1>1. CASE fact \in facts
  BY <1>1
<1>2. CASE fact \in Turns /\ Remains(fact) \in facts
  <2>1. Remains(fact) \notin Turns
    BY DEF Remains, Turns
  <2>2. Remains(fact) \in later
    BY <1>2, <2>1 DEF Holds
  <2> QED
    BY <1>2, <2>2 DEF Holds
<1> QED
  BY <1>1, <1>2 DEF Holds

LEMMA PutAwayType ==
    ASSUME NEW facts \in SUBSET Facts
    PROVE  PutAway(facts) \subseteq Facts
<1>1. ASSUME NEW fact \in Turns
      PROVE  Remains(fact) \in Facts
  BY <1>1 DEF Remains, Turns, Facts
<1> QED
  BY <1>1 DEF PutAway

-----------------------------------------------------------------------------
(* One step *)

\* The checkpoints change by a commit or by pruning, and by nothing else.
LEMMA StoreWriters ==
    ASSUME [Next]_vars
    PROVE  \/ Commit
           \/ (EndTimeCycle \/ EndRequest \/ TurnAway \/ RejectUnderProtection) /\ Prune
           \/ UNCHANGED <<checkpoints, marked, lastSaved>>
<1> USE DEF durable, process, control, history
<1>1. CASE Open \/ Start \/ RefuseCall \/ \E request \in Requests \cup {"time"} : BeginTimeCycle(request)
  BY <1>1 DEF Open, Start, RefuseCall, Raise, BeginTimeCycle
<1>2. CASE \E request \in Requests : BeginRequest(request)
  BY <1>2 DEF BeginRequest
<1>3. CASE Observe \/ RestartPrecedesState \/ Accept \/ AuditFails \/ RecordLifecycle
  BY <1>3 DEF Observe, RestartPrecedesState, Accept, AuditFails, RecordLifecycle
<1>4. CASE RecordExchange \/ ExchangePrecedesContext \/ Remember \/ InterpretationTraceFails
  BY <1>4 DEF RecordExchange, ExchangePrecedesContext, Remember, InterpretationTraceFails
<1>5. CASE StartNewContext \/ NewContextPrecedes \/ RecordCapabilityEvidence
  BY <1>5 DEF StartNewContext, NewContextPrecedes, RecordCapabilityEvidence
<1>6. CASE CapabilityWithoutEvidence \/ CapabilityStoreFails \/ CommitFails \/ PruneRaises
  BY <1>6 DEF CapabilityWithoutEvidence, CapabilityStoreFails, CommitFails, PruneRaises
<1>7. CASE ActivateProtection \/ ReleaseProtection \/ CallerCatches \/ Crash
  BY <1>7 DEF ActivateProtection, ReleaseProtection, CallerCatches, Crash
<1>8. CASE Quit \/ ConsoleUnwinds
  BY <1>8 DEF Quit, ConsoleUnwinds, Shutdown
<1>9. CASE EndTimeCycle \/ EndRequest \/ TurnAway \/ RejectUnderProtection
  BY <1>9 DEF EndTimeCycle, EndRequest, TurnAway, RejectUnderProtection
<1>10. CASE UNCHANGED vars
  BY <1>10 DEF vars
<1> QED
  BY <1>1, <1>2, <1>3, <1>4, <1>5, <1>6, <1>7, <1>8, <1>9, <1>10 DEF Next, Cycle

\* A commit appends a generation that holds all of the memory.
LEMMA CommitAppends ==
    ASSUME TypeOK, StoreInv, Commit
    PROVE  /\ lastSaved' = lastSaved + 1
           /\ DOMAIN checkpoints' = DOMAIN checkpoints \cup {lastSaved'}
           /\ checkpoints'[lastSaved'] = material
           /\ \A m \in DOMAIN checkpoints : checkpoints'[m] = checkpoints[m]
           /\ checkpoints' \in [DOMAIN checkpoints' -> SUBSET Facts]
           /\ marked' = TRUE
<1>1. LatestSequence = lastSaved
  BY LatestIsLastSaved
<1>2. lastSaved \in Nat /\ DOMAIN checkpoints \subseteq 1..lastSaved /\ material \subseteq Facts
      /\ checkpoints \in [DOMAIN checkpoints -> SUBSET Facts]
  BY DEF TypeOK
<1>3. /\ checkpoints' = [m \in DOMAIN checkpoints \cup {lastSaved + 1} |->
                           IF m = lastSaved + 1 THEN material ELSE checkpoints[m]]
      /\ marked' = TRUE /\ lastSaved' = lastSaved + 1
  BY <1>1 DEF Commit, InsertCheckpoint
<1>4. \A m \in DOMAIN checkpoints : m # lastSaved + 1
  BY <1>2
<1> QED
  BY <1>2, <1>3, <1>4

LEMMA StoreStep ==
    ASSUME TypeOK, StoreInv, [Next]_vars
    PROVE  StoreInv' /\ LastCommitted' = IF Commit THEN material ELSE LastCommitted
<1>0. lastSaved \in Nat /\ DOMAIN checkpoints \subseteq 1..lastSaved
  BY DEF TypeOK
<1>1. CASE Commit
  <2>1. /\ lastSaved' = lastSaved + 1
        /\ DOMAIN checkpoints' = DOMAIN checkpoints \cup {lastSaved'}
        /\ checkpoints'[lastSaved'] = material
        /\ marked' = TRUE
    BY <1>1, CommitAppends
  <2>2. ASSUME NEW m \in DOMAIN checkpoints', NEW k \in m..lastSaved'
        PROVE  k \in DOMAIN checkpoints'
    <3>1. CASE k = lastSaved'
      BY <2>1, <3>1
    <3>2. CASE k # lastSaved'
      <4>1. m \in DOMAIN checkpoints /\ k \in m..lastSaved
        BY <1>0, <2>1, <2>2, <3>2
      <4> QED BY <2>1, <4>1 DEF StoreInv
    <3> QED BY <3>1, <3>2
  <2> QED
    BY <1>0, <1>1, <2>1, <2>2 DEF StoreInv, LastCommitted
<1>2. CASE (EndTimeCycle \/ EndRequest \/ TurnAway \/ RejectUnderProtection) /\ Prune
  <2>0. UNCHANGED <<marked, lastSaved>> /\ ~Commit
    BY <1>2 DEF EndTimeCycle, EndRequest, TurnAway, RejectUnderProtection, Idle, history,
                Commit, Saving
  <2>1. CASE UNCHANGED checkpoints
    BY <2>0, <2>1 DEF StoreInv, LastCommitted
  <2>2. CASE checkpoints' = [n \in Kept(KeepLatest) |-> checkpoints[n]]
    <3>1. /\ Kept(KeepLatest) \subseteq DOMAIN checkpoints
          /\ lastSaved # 0 => lastSaved \in Kept(KeepLatest)
          /\ \A m \in Kept(KeepLatest) : m..lastSaved \subseteq Kept(KeepLatest)
      BY KeptIsNewest, KeepLatestAssumption
    <3> HIDE DEF Kept
    <3>2. DOMAIN checkpoints' = Kept(KeepLatest)
      BY <2>2
    <3> QED
      BY <2>0, <2>2, <3>1, <3>2 DEF StoreInv, LastCommitted
  <2> QED
    BY <1>2, <2>1, <2>2 DEF Prune
<1>3. CASE UNCHANGED <<checkpoints, marked, lastSaved>>
  <2>1. ASSUME Commit PROVE FALSE
    <3>1. lastSaved' = lastSaved + 1
      BY <2>1, CommitAppends
    <3> QED BY <1>0, <1>3, <3>1
  <2> QED
    BY <1>3, <2>1 DEF StoreInv, LastCommitted
<1> QED
  BY <1>1, <1>2, <1>3, StoreWriters

\* The one lemma that looks at every action's effect on the types.
LEMMA TypeStep ==
    ASSUME TypeOK, StoreInv, CallInv, SessionInv, [Next]_vars
    PROVE  TypeOK'
<1> USE DEF durable, process, control, history, Statuses, Parts, Requests, Facts
<1>1. ASSUME NEW request \in Requests \cup {"time"}, BeginTimeCycle(request)
      PROVE  TypeOK'
  BY <1>1 DEF TypeOK, BeginTimeCycle, Idle
<1>2. ASSUME NEW request \in Requests, BeginRequest(request)
      PROVE  TypeOK'
  BY <1>2 DEF TypeOK, BeginRequest, FirstStep, Idle
<1>3. CASE Open
  <2>1. LatestFacts \subseteq Facts
    BY LatestIsLastSaved DEF LastCommitted, TypeOK, StoreInv
  <2>2. /\ sessions' \in Seq({"running", "normal"})
        /\ endings' \in Seq({"open", "quit", "unwound", "unsaved", "died"})
    BY <1>3, AppendProperties DEF TypeOK, Open
  <2> QED
    BY <1>3, <2>1, <2>2 DEF TypeOK, Open
<1>4. CASE Start
  BY <1>4 DEF TypeOK, Start
<1>5. CASE RefuseCall
  BY <1>5 DEF TypeOK, RefuseCall, Raise
<1>6. CASE Observe
  BY <1>6 DEF TypeOK, Observe
<1>7. CASE RestartPrecedesState
  BY <1>7 DEF TypeOK, RestartPrecedesState, RuntimeAfterRefusedRestart, Raise
<1>8. CASE Accept
  BY <1>8 DEF TypeOK, Accept, CallInv
<1>9. CASE AuditFails \/ PruneRaises
  <2>1. CASE AuditFails
    BY <2>1 DEF TypeOK, AuditFails, Raise, CallInv
  <2>2. CASE PruneRaises
    BY <2>2 DEF TypeOK, PruneRaises, Raise
  <2> QED
    BY <1>9, <2>1, <2>2
<1>10. CASE RecordLifecycle
  BY <1>10 DEF TypeOK, RecordLifecycle, CallInv
<1>11. CASE RecordExchange
  <2>1. call \in Inputs
    BY <1>11 DEF RecordExchange, CallInv
  <2>2. material' \subseteq Facts
    BY <1>11, <2>1 DEF RecordExchange, TypeOK
  <2> QED
    BY <1>11, <2>2 DEF TypeOK, RecordExchange
<1>12. CASE Remember
  BY <1>12 DEF TypeOK, Remember, AfterRemember, CallInv
<1>13. CASE InterpretationTraceFails
  BY <1>13 DEF TypeOK, InterpretationTraceFails, Raise
<1>14. CASE ExchangePrecedesContext
  BY <1>14 DEF TypeOK, ExchangePrecedesContext, Raise
<1>15. CASE StartNewContext \/ NewContextPrecedes
  <2>1. CASE StartNewContext
    <3>1. PutAway(material) \subseteq Facts /\ call \in Facts
      BY <2>1, PutAwayType DEF TypeOK, StartNewContext, CallInv
    <3>2. material' \subseteq Facts
      BY <2>1, <3>1 DEF StartNewContext
    <3> QED
      BY <2>1, <3>2 DEF TypeOK, StartNewContext
  <2>2. CASE NewContextPrecedes
    BY <2>2 DEF TypeOK, NewContextPrecedes, Raise
  <2> QED
    BY <1>15, <2>1, <2>2
<1>16. CASE RecordCapabilityEvidence \/ CapabilityWithoutEvidence \/ CapabilityStoreFails
  <2>1. CASE RecordCapabilityEvidence
    BY <2>1 DEF TypeOK, RecordCapabilityEvidence, CallInv
  <2>2. CASE CapabilityWithoutEvidence
    BY <2>2 DEF TypeOK, CapabilityWithoutEvidence, Return, CallInv
  <2>3. CASE CapabilityStoreFails
    BY <2>3 DEF TypeOK, CapabilityStoreFails, Raise
  <2> QED
    BY <1>16, <2>1, <2>2, <2>3
<1>17. CASE Commit
  <2>1. /\ lastSaved' = lastSaved + 1
        /\ DOMAIN checkpoints' = DOMAIN checkpoints \cup {lastSaved'}
        /\ checkpoints' \in [DOMAIN checkpoints' -> SUBSET Facts]
        /\ marked' = TRUE
    BY <1>17, CommitAppends
  <2>2. DOMAIN checkpoints' \subseteq 1..lastSaved' /\ lastSaved' \in Nat
    BY <2>1 DEF TypeOK
  <2> QED
    BY <1>17, <2>1, <2>2 DEF TypeOK, Commit
<1>18. CASE CommitFails
  BY <1>18 DEF TypeOK, CommitFails, Raise
<1>19. CASE EndTimeCycle \/ EndRequest \/ TurnAway \/ RejectUnderProtection
  <2>1. checkpoints' = checkpoints \/ checkpoints' = [n \in Kept(KeepLatest) |-> checkpoints[n]]
    BY <1>19 DEF EndTimeCycle, EndRequest, TurnAway, RejectUnderProtection, Prune
  <2>2. Kept(KeepLatest) \subseteq DOMAIN checkpoints
    BY DEF Kept
  <2> HIDE DEF Kept
  <2>3. /\ DOMAIN checkpoints' \subseteq DOMAIN checkpoints
        /\ checkpoints' \in [DOMAIN checkpoints' -> SUBSET Facts]
    BY <2>1, <2>2 DEF TypeOK
  <2>4. CASE EndTimeCycle \/ EndRequest
    BY <2>3, <2>4 DEF TypeOK, EndTimeCycle, EndRequest, Return, FirstStep, CallInv
  <2>5. CASE TurnAway \/ RejectUnderProtection
    BY <2>3, <2>5 DEF TypeOK, TurnAway, RejectUnderProtection, Return
  <2> QED
    BY <1>19, <2>4, <2>5
<1>20. CASE ActivateProtection \/ ReleaseProtection
  BY <1>20 DEF TypeOK, ActivateProtection, ReleaseProtection
<1>21. ASSUME NEW how \in {"quit", "unwound"}, Shutdown(how), up
       PROVE  TypeOK'
  <2>1. /\ sessions' = sessions \/ sessions' = [sessions EXCEPT ![Last] = "normal"]
        /\ endings' = [endings EXCEPT ![Last] = IF healthy THEN how ELSE "unsaved"]
    BY <1>21 DEF Shutdown
  <2>2. Last \in 1..Len(sessions) /\ Last \in 1..Len(endings)
    BY <1>21, LenProperties DEF SessionInv, Last, TypeOK
  <2>4. [sessions EXCEPT ![Last] = "normal"] \in Seq({"running", "normal"})
    BY <2>2, ExceptSeq DEF TypeOK
  <2> DEFINE ending == IF healthy THEN how ELSE "unsaved"
  <2>5. ending \in {"open", "quit", "unwound", "unsaved", "died"}
    OBVIOUS
  <2> HIDE DEF ending
  <2>6. [endings EXCEPT ![Last] = ending] \in Seq({"open", "quit", "unwound", "unsaved", "died"})
    BY <2>2, <2>5, ExceptSeq DEF TypeOK
  <2>3. /\ sessions' \in Seq({"running", "normal"})
        /\ endings' \in Seq({"open", "quit", "unwound", "unsaved", "died"})
    BY <2>1, <2>4, <2>6 DEF TypeOK, ending
  <2> QED
    BY <1>21, <2>3 DEF TypeOK, Shutdown, Forget
<1>22. CASE Quit
  BY <1>22, <1>21 DEF Quit, Idle
<1>23. CASE ConsoleUnwinds
  BY <1>23, <1>21 DEF ConsoleUnwinds
<1>24. CASE CallerCatches
  <2>1. raised' = FALSE
    BY <1>24 DEF CallerCatches
  <2>2. UNCHANGED <<durable, process, call, pc, history>>
    BY <1>24 DEF CallerCatches
  <2>3. raised' \in BOOLEAN
    BY <2>1
  <2> QED
    BY <2>2, <2>3 DEF TypeOK
<1>25. CASE Crash
  <2>0. Last \in 1..Len(endings)
    BY <1>25, LenProperties DEF SessionInv, Last, TypeOK, Crash
  <2>1. endings' \in Seq({"open", "quit", "unwound", "unsaved", "died"})
    BY <1>25, <2>0, ExceptSeq DEF TypeOK, Crash
  <2> QED
    BY <1>25, <2>1 DEF TypeOK, Crash, Forget
<1>26. CASE UNCHANGED vars
  BY <1>26 DEF TypeOK, vars
<1> QED
  BY <1>1, <1>2, <1>3, <1>4, <1>5, <1>6, <1>7, <1>8, <1>9, <1>10, <1>11, <1>12, <1>13,
     <1>14, <1>15, <1>16, <1>17, <1>18, <1>19, <1>20, <1>22, <1>23, <1>24, <1>25, <1>26 DEF Next, Cycle

\* A call in progress keeps to its own steps; every way out of it is idle.
LEMMA CallStep ==
    ASSUME TypeOK, CallInv, [Next]_vars
    PROVE  CallInv'
<1> USE DEF durable, process, control, history, Requests
<1>1. ASSUME NEW request \in Requests \cup {"time"}, BeginTimeCycle(request)
      PROVE  CallInv'
  BY <1>1 DEF CallInv, BeginTimeCycle, MayServe, Idle
<1>2. ASSUME NEW request \in Requests, BeginRequest(request)
      PROVE  CallInv'
  BY <1>2 DEF CallInv, BeginRequest, MayServe, FirstStep, Idle
<1>3. CASE Open \/ RefuseCall \/ CallerCatches \/ Crash
  BY <1>3 DEF CallInv, Open, RefuseCall, CallerCatches, Crash, Forget, Raise
<1>17. CASE RejectUnderProtection \/ PruneRaises
  BY <1>17 DEF CallInv, RejectUnderProtection, PruneRaises, Raise
<1>4. CASE Quit \/ ConsoleUnwinds
  BY <1>4 DEF CallInv, Quit, ConsoleUnwinds, Shutdown, Forget
<1>5. CASE Start \/ ActivateProtection \/ ReleaseProtection
  BY <1>5 DEF CallInv, Start, ActivateProtection, ReleaseProtection, Idle
<1>6. CASE Observe \/ RestartPrecedesState
  BY <1>6 DEF CallInv, Observe, RestartPrecedesState, Raise
<1>7. CASE Accept \/ TurnAway \/ AuditFails
  BY <1>7 DEF CallInv, Accept, TurnAway, AuditFails, Raise, Return
<1>8. CASE RecordLifecycle \/ RecordExchange \/ ExchangePrecedesContext
  BY <1>8 DEF CallInv, RecordLifecycle, RecordExchange, ExchangePrecedesContext, Raise
<1>9. CASE Remember \/ InterpretationTraceFails
  BY <1>9 DEF CallInv, Remember, AfterRemember, InterpretationTraceFails, Raise
<1>10. CASE StartNewContext \/ NewContextPrecedes
  BY <1>10 DEF CallInv, StartNewContext, NewContextPrecedes, Raise
<1>11. CASE RecordCapabilityEvidence \/ CapabilityWithoutEvidence \/ CapabilityStoreFails
  BY <1>11 DEF CallInv, RecordCapabilityEvidence, CapabilityWithoutEvidence,
               CapabilityStoreFails, Raise, Return
<1>12. CASE Commit
  BY <1>12 DEF CallInv, Commit, Saving
<1>13. CASE CommitFails
  BY <1>13 DEF CallInv, CommitFails, Raise
<1>14. CASE EndTimeCycle
  BY <1>14 DEF CallInv, EndTimeCycle, Return, FirstStep
<1>15. CASE EndRequest
  BY <1>15 DEF CallInv, EndRequest, Return
<1>16. CASE UNCHANGED vars
  BY <1>16 DEF CallInv, vars
<1> QED
  BY <1>1, <1>2, <1>3, <1>4, <1>5, <1>6, <1>7, <1>8, <1>9, <1>10, <1>11, <1>12, <1>13,
     <1>14, <1>15, <1>16, <1>17 DEF Next, Cycle

\* What a call has put in memory is still there at its next step, and what it
\* has saved is in the last checkpoint.
LEMMA MemoryStep ==
    ASSUME TypeOK, StoreInv, CallInv, MemoryInv, [Next]_vars
    PROVE  MemoryInv'
<1> USE DEF durable, process, control, history
<1>0. LastCommitted' = IF Commit THEN material ELSE LastCommitted
  BY StoreStep
<1>1. CASE Commit
  <2>1. LastCommitted' = material /\ UNCHANGED <<up, material, call, answered>>
    BY <1>0, <1>1 DEF Commit
  <2>2. \A fact \in LastCommitted : Holds(material, fact)
    BY <1>1 DEF CallInv, MemoryInv, Commit, Saving
  <2>3. ASSUME NEW request \in answered, NEW fact \in FactsOf(request)
        PROVE  Holds(material, fact)
    BY <2>2, HoldsOn DEF MemoryInv
  <2>4. \A fact \in material : Holds(material, fact)
    BY DEF Holds
  <2>5. \/ pc = "save" /\ pc' = "prune" /\ FactsOf(call) \subseteq material
        \/ pc' = "tick_prune"
    BY <1>1 DEF Commit, Saving, MemoryInv
  <2> HIDE DEF LastCommitted
  <2> QED
    BY <2>1, <2>3, <2>4, <2>5 DEF MemoryInv
<1>2. CASE ~Commit
  <2>0. LastCommitted' = LastCommitted
    BY <1>0, <1>2
  <2> HIDE DEF LastCommitted
  <2>1. ASSUME NEW request \in Requests \cup {"time"}, BeginTimeCycle(request)
        PROVE  MemoryInv'
    BY <2>0, <2>1 DEF MemoryInv, BeginTimeCycle
  <2>2. ASSUME NEW request \in Requests, BeginRequest(request)
        PROVE  MemoryInv'
    BY <2>0, <2>2 DEF MemoryInv, BeginRequest, FirstStep
  <2>3. CASE Open
    <3>1. material' = LastCommitted
      BY <2>3, LatestIsLastSaved DEF Open
    <3>2. \A fact \in LastCommitted : Holds(LastCommitted, fact)
      BY DEF Holds
    <3> QED
      BY <2>0, <2>3, <3>1, <3>2 DEF MemoryInv, Open
  <2>4. CASE RefuseCall \/ CallerCatches \/ Crash
    BY <2>0, <2>4 DEF MemoryInv, RefuseCall, CallerCatches, Crash, Forget, Raise
  <2>5. CASE Quit \/ ConsoleUnwinds
    BY <2>0, <2>5 DEF MemoryInv, Quit, ConsoleUnwinds, Shutdown, Forget
  <2>6. CASE Start \/ ActivateProtection \/ ReleaseProtection
    BY <2>0, <2>6 DEF MemoryInv, Start, ActivateProtection, ReleaseProtection
  <2>7. CASE Observe \/ RestartPrecedesState
    BY <2>0, <2>7 DEF MemoryInv, Observe, RestartPrecedesState, Raise
  <2>8. CASE Accept \/ TurnAway \/ AuditFails
    BY <2>0, <2>8 DEF MemoryInv, Accept, TurnAway, AuditFails, Raise, Return
  <2>17. CASE RejectUnderProtection \/ PruneRaises
    BY <2>0, <2>17 DEF MemoryInv, RejectUnderProtection, PruneRaises, Raise
  <2>18. ASSUME material \subseteq material', up
         PROVE  \A fact \in LastCommitted : Holds(material', fact)
    BY <2>18, HoldsMore DEF MemoryInv
  <2>9. CASE RecordLifecycle \/ RecordExchange \/ ExchangePrecedesContext
    <3>1. up
      BY <2>9 DEF CallInv, RecordLifecycle, RecordExchange, ExchangePrecedesContext
    <3>2. CASE RecordLifecycle
      BY <2>0, <2>18, <3>1, <3>2 DEF MemoryInv, RecordLifecycle
    <3>3. CASE RecordExchange
      BY <2>0, <2>18, <3>1, <3>3 DEF MemoryInv, RecordExchange
    <3>4. CASE ExchangePrecedesContext
      BY <2>0, <3>4 DEF MemoryInv, ExchangePrecedesContext, Raise
    <3> QED
      BY <2>9, <3>2, <3>3, <3>4
  <2>10. CASE Remember
    <3>1. call \in Inputs
      BY <2>10 DEF CallInv, Remember
    <3>2. FactsOf(call) = {<<call, "record">>, <<call, "memory">>}
                             \cup ({call} \X {"turns", "candidates"})
      BY <3>1 DEF FactsOf, Parts
    <3>3. FactsOf(call) \subseteq material'
      BY <2>10, <3>2 DEF MemoryInv, Remember
    <3>4. up
      BY <2>10 DEF CallInv, Remember
    <3> QED
      BY <2>0, <2>10, <2>18, <3>3, <3>4 DEF MemoryInv, Remember, AfterRemember
  <2>11. CASE StartNewContext \/ RecordCapabilityEvidence
    <3>1. FactsOf(call) = {call} /\ up
      BY <2>11, CallAssumption DEF CallInv, StartNewContext, RecordCapabilityEvidence, FactsOf
    <3>2. CASE RecordCapabilityEvidence
      BY <2>0, <2>18, <3>1, <3>2 DEF MemoryInv, RecordCapabilityEvidence
    <3>3. CASE StartNewContext
      <4>1. ASSUME NEW fact \in LastCommitted
            PROVE  Holds(material', fact)
        <5>1. Holds(PutAway(material), fact)
          BY <3>1, HoldsPutAway DEF MemoryInv
        <5>2. PutAway(material) \subseteq material'
          BY <3>3 DEF StartNewContext
        <5> QED
          BY <5>1, <5>2, HoldsMore
      <4> QED
        BY <2>0, <3>1, <3>3, <4>1 DEF MemoryInv, StartNewContext
    <3> QED
      BY <2>11, <3>2, <3>3
  <2>12. CASE InterpretationTraceFails \/ NewContextPrecedes \/ CapabilityWithoutEvidence
    BY <2>0, <2>12 DEF MemoryInv, InterpretationTraceFails, NewContextPrecedes,
                       CapabilityWithoutEvidence, Raise, Return
  <2>13. CASE CapabilityStoreFails \/ CommitFails
    BY <2>0, <2>13 DEF MemoryInv, CapabilityStoreFails, CommitFails, Raise
  <2>14. CASE EndTimeCycle
    BY <2>0, <2>14 DEF MemoryInv, EndTimeCycle, Return, FirstStep
  <2>15. CASE EndRequest
    <3>1. \A fact \in FactsOf(call) : Holds(LastCommitted, fact)
      BY <2>15 DEF MemoryInv, EndRequest, Holds
    <3> QED
      BY <2>0, <2>15, <3>1 DEF MemoryInv, EndRequest, Return
  <2>16. CASE UNCHANGED vars
    BY <2>0, <2>16 DEF MemoryInv, vars
  <2> QED
    BY <1>2, <2>1, <2>2, <2>3, <2>4, <2>5, <2>6, <2>7, <2>8, <2>9, <2>10, <2>11, <2>12,
       <2>13, <2>14, <2>15, <2>16, <2>17 DEF Next, Cycle
<1> QED
  BY <1>1, <1>2

\* Only the end of a process touches its row, and only a healthy shutdown
\* makes the row "normal".
LEMMA SessionStep ==
    ASSUME TypeOK, CallInv, SessionInv, [Next]_vars
    PROVE  SessionInv'
<1> USE DEF durable, process, control, history
<1>0. /\ sessions \in Seq({"running", "normal"})
      /\ endings \in Seq({"open", "quit", "unwound", "unsaved", "died"})
      /\ Last = Len(sessions) /\ Len(sessions) = Len(endings) /\ Len(sessions) \in Nat
  BY LenProperties DEF TypeOK, SessionInv, Last
<1>1. CASE Open
  <2>1. sessions' = Append(sessions, "running") /\ endings' = Append(endings, "open")
    BY <1>1 DEF Open
  <2>2. /\ Len(sessions') = Len(sessions) + 1
        /\ \A s \in 1..Len(sessions) : sessions'[s] = sessions[s]
        /\ sessions'[Len(sessions) + 1] = "running"
    BY <1>0, <2>1, AppendProperties
  <2>3. /\ Len(endings') = Len(endings) + 1
        /\ \A s \in 1..Len(endings) : endings'[s] = endings[s]
        /\ endings'[Len(endings) + 1] = "open"
    BY <1>0, <2>1, AppendProperties
  <2> QED
    BY <1>0, <2>2, <2>3 DEF SessionInv, AbnormalExitIsReported, Last
<1>2. ASSUME NEW how \in {"quit", "unwound"}, Shutdown(how), up
      PROVE  SessionInv'
  <2>0. Last \in 1..Len(sessions) /\ Last \in 1..Len(endings)
    BY <1>0, <1>2 DEF SessionInv
  <2> DEFINE ending == IF healthy THEN how ELSE "unsaved"
  <2>1. endings' = [endings EXCEPT ![Last] = ending]
    BY <1>2 DEF Shutdown
  <2>2. ending \in {"open", "quit", "unwound", "unsaved", "died"}
        /\ (healthy => ending \notin {"died", "unsaved"})
    OBVIOUS
  <2> HIDE DEF ending
  <2>3. /\ Len(endings') = Len(endings)
        /\ \A j \in 1..Len(endings) : endings'[j] = IF j = Last THEN ending ELSE endings[j]
    BY <1>0, <2>0, <2>1, <2>2, ExceptSeq
  <2>4. CASE UNCHANGED sessions
    <3>1. sessions[Last] = "running"
      BY <1>2 DEF SessionInv
    <3> QED
      BY <1>0, <1>2, <2>3, <2>4, <3>1 DEF SessionInv, AbnormalExitIsReported, Last, Shutdown
  <2>5. CASE MarksNormal /\ sessions' = [sessions EXCEPT ![Last] = "normal"]
    <3>1. /\ Len(sessions') = Len(sessions)
          /\ \A j \in 1..Len(sessions) : sessions'[j] = IF j = Last THEN "normal" ELSE sessions[j]
      BY <1>0, <2>0, <2>5, ExceptSeq
    <3>2. ending \notin {"died", "unsaved"}
      BY <2>2, <2>5 DEF MarksNormal
    <3> QED
      BY <1>0, <1>2, <2>3, <3>1, <3>2 DEF SessionInv, AbnormalExitIsReported, Last, Shutdown
  <2> QED
    BY <1>2, <2>4, <2>5 DEF Shutdown
<1>3. CASE Quit
  BY <1>2, <1>3 DEF Quit, Idle
<1>4. CASE ConsoleUnwinds
  BY <1>2, <1>4 DEF ConsoleUnwinds
<1>5. CASE Crash
  <2>1. up /\ endings' = [endings EXCEPT ![Last] = "died"] /\ UNCHANGED sessions /\ up' = FALSE
    BY <1>5 DEF Crash
  <2>2. Last \in 1..Len(endings) /\ sessions[Last] = "running"
    BY <1>0, <2>1 DEF SessionInv
  <2>3. /\ Len(endings') = Len(endings)
        /\ \A j \in 1..Len(endings) : endings'[j] = IF j = Last THEN "died" ELSE endings[j]
    BY <1>0, <2>1, <2>2, ExceptSeq
  <2> QED
    BY <1>0, <2>1, <2>2, <2>3 DEF SessionInv, AbnormalExitIsReported, Last
<1>6. CASE UNCHANGED <<up, sessions, endings>>
  BY <1>6 DEF SessionInv, AbnormalExitIsReported, Last
<1>7. ASSUME NEW request, BeginTimeCycle(request) \/ BeginRequest(request)
      PROVE  UNCHANGED <<up, sessions, endings>>
  BY <1>7 DEF BeginTimeCycle, BeginRequest
<1>8. CASE Start \/ RefuseCall \/ CallerCatches \/ ActivateProtection \/ ReleaseProtection
  BY <1>6, <1>8 DEF Start, RefuseCall, CallerCatches, ActivateProtection, ReleaseProtection
<1>11. CASE RejectUnderProtection
  BY <1>6, <1>11 DEF RejectUnderProtection
<1>9. CASE Cycle
  <2>1. CASE Observe \/ RestartPrecedesState \/ Accept \/ TurnAway \/ AuditFails
    BY <1>6, <2>1 DEF Observe, RestartPrecedesState, Accept, TurnAway, AuditFails
  <2>2. CASE RecordLifecycle \/ RecordExchange \/ ExchangePrecedesContext \/ Remember
    BY <1>6, <2>2 DEF RecordLifecycle, RecordExchange, ExchangePrecedesContext, Remember
  <2>3. CASE InterpretationTraceFails \/ StartNewContext \/ NewContextPrecedes
    BY <1>6, <2>3 DEF InterpretationTraceFails, StartNewContext, NewContextPrecedes
  <2>4. CASE RecordCapabilityEvidence \/ CapabilityWithoutEvidence \/ CapabilityStoreFails
    BY <1>6, <2>4 DEF RecordCapabilityEvidence, CapabilityWithoutEvidence, CapabilityStoreFails
  <2>5. CASE Commit \/ CommitFails \/ EndTimeCycle \/ EndRequest \/ PruneRaises
    BY <1>6, <2>5 DEF Commit, CommitFails, EndTimeCycle, EndRequest, PruneRaises
  <2> QED
    BY <1>9, <2>1, <2>2, <2>3, <2>4, <2>5 DEF Cycle
<1>10. CASE UNCHANGED vars
  BY <1>6, <1>10 DEF vars
<1> QED
  BY <1>1, <1>3, <1>4, <1>5, <1>6, <1>7, <1>8, <1>9, <1>10, <1>11 DEF Next

-----------------------------------------------------------------------------
(* The theorems *)

LEMMA Initially == Init => IInv
<1> SUFFICES ASSUME Init PROVE IInv
  OBVIOUS
<1>0. DOMAIN checkpoints = {} /\ checkpoints \in [{} -> SUBSET Facts]
  BY DEF Init
<1>1. TypeOK
  <2>1. /\ sessions \in Seq({"running", "normal"})
        /\ endings \in Seq({"open", "quit", "unwound", "unsaved", "died"})
    BY EmptySeq DEF Init
  <2> QED
    BY <1>0, <2>1 DEF Init, TypeOK, Statuses
<1>2. StoreInv /\ CallInv
  BY <1>0 DEF Init, StoreInv, CallInv
<1>3. MemoryInv
  BY DEF Init, MemoryInv, LastCommitted
<1>4. SessionInv
  BY DEF Init, SessionInv, AbnormalExitIsReported, Last
<1> QED
  BY <1>1, <1>2, <1>3, <1>4 DEF IInv

\* IInv holds in every reachable state.
THEOREM Inductive == Spec => []IInv
<1>1. Init => IInv
  BY Initially
<1>2. IInv /\ [Next]_vars => IInv'
  BY TypeStep, StoreStep, CallStep, MemoryStep, SessionStep DEF IInv
<1> QED
  BY <1>1, <1>2, PTL DEF Spec

\* The variables keep their types, whatever the requests and bounds.
THEOREM TypeCorrect == Spec => []TypeOK
<1>1. IInv => TypeOK
  BY DEF IInv
<1> QED
  BY <1>1, Inductive, PTL

\* Stage10TextInputRunner.run: whatever the caller was told happened is whole
\* in the newest checkpoint, through every crash, failure and pruning; of the
\* turns a new context put away it holds what remains.
THEOREM AnswersSurvive == Spec => []AnswersAreDurable
<1>1. IInv => AnswersAreDurable
  BY LatestIsLastSaved DEF IInv, MemoryInv, AnswersAreDurable
<1> QED
  BY <1>1, Inductive, PTL

\* prune_checkpoints: the newest checkpoints are kept without a gap, and the
\* one a restart reads is the last committed one.
THEOREM NewestSurvive == Spec => []NewestCheckpointsSurvive
<1>1. IInv => NewestCheckpointsSurvive
  <2> SUFFICES ASSUME IInv PROVE NewestCheckpointsSurvive
    OBVIOUS
  <2>1. LatestSequence = lastSaved
    BY LatestIsLastSaved DEF IInv
  <2>2. lastSaved \in Nat /\ DOMAIN checkpoints \subseteq 1..lastSaved
    BY DEF IInv, TypeOK
  <2>3. DOMAIN checkpoints # {} <=> lastSaved # 0
    BY <2>2 DEF IInv, StoreInv
  <2> QED
    BY <2>1, <2>3 DEF IInv, StoreInv, NewestCheckpointsSurvive
<1> QED
  BY <1>1, Inductive, PTL

\* _read_previous_exit: a process that died or ended with an unhealthy store
\* is never taken for a normal exit.
THEOREM ExitsAreReported == Spec => []AbnormalExitIsReported
<1>1. IInv => AbnormalExitIsReported
  BY DEF IInv, SessionInv
<1> QED
  BY <1>1, Inductive, PTL

\* mark_persistence_unhealthy: after a checkpoint failed the process commits
\* and prunes nothing more.
THEOREM UnhealthyIsFinal == Spec => NothingSavedOnceUnhealthy
<1>1. IInv /\ [Next]_vars => [up /\ ~healthy => checkpoints' = checkpoints]_vars
  <2> SUFFICES ASSUME IInv, [Next]_vars, ~healthy
               PROVE  checkpoints' = checkpoints
    OBVIOUS
  <2>1. pc = "idle"
    BY DEF IInv, CallInv
  <2>2. ~Commit /\ ~EndTimeCycle /\ ~EndRequest /\ ~TurnAway /\ ~RejectUnderProtection
    BY <2>1 DEF Commit, Saving, EndTimeCycle, EndRequest, TurnAway, RejectUnderProtection
  <2> QED
    BY <2>2, StoreWriters
<1> QED
  BY <1>1, Inductive, PTL DEF Spec, NothingSavedOnceUnhealthy

\* Only Observe makes the runtime wait, and it leaves State waiting with the
\* stopped time taken in; nothing undoes that while the process lives.
LEMMA ResumedStep ==
    ASSUME WaitingMeansResumed, [Next]_vars
    PROVE  WaitingMeansResumed'
<1> USE DEF durable, process, control, history, WaitingMeansResumed
<1>1. CASE Observe
  BY <1>1 DEF Observe
<1>2. CASE Open \/ Start \/ RestartPrecedesState
  BY <1>2 DEF Open, Start, RestartPrecedesState, RuntimeAfterRefusedRestart
<1>3. ASSUME NEW request \in Requests \cup {"time"}, BeginTimeCycle(request)
      PROVE  WaitingMeansResumed'
  BY <1>3 DEF BeginTimeCycle
<1>4. CASE Quit \/ ConsoleUnwinds \/ Crash
  BY <1>4 DEF Quit, ConsoleUnwinds, Shutdown, Crash
<1>5. CASE UNCHANGED <<up, runtime, state, restored>>
  BY <1>5
<1>6. ASSUME NEW request \in Requests, BeginRequest(request)
      PROVE  UNCHANGED <<up, runtime, state, restored>>
  BY <1>6 DEF BeginRequest
<1>7. CASE RefuseCall \/ CallerCatches \/ ActivateProtection \/ ReleaseProtection
  BY <1>5, <1>7 DEF RefuseCall, CallerCatches, ActivateProtection, ReleaseProtection
<1>13. CASE RejectUnderProtection \/ PruneRaises
  BY <1>5, <1>13 DEF RejectUnderProtection, PruneRaises
<1>8. CASE Accept \/ TurnAway \/ AuditFails \/ RecordLifecycle \/ RecordExchange
  BY <1>5, <1>8 DEF Accept, TurnAway, AuditFails, RecordLifecycle, RecordExchange
<1>9. CASE ExchangePrecedesContext \/ Remember \/ InterpretationTraceFails \/ StartNewContext
  BY <1>5, <1>9 DEF ExchangePrecedesContext, Remember, InterpretationTraceFails, StartNewContext
<1>10. CASE NewContextPrecedes \/ RecordCapabilityEvidence \/ CapabilityWithoutEvidence
  BY <1>5, <1>10 DEF NewContextPrecedes, RecordCapabilityEvidence, CapabilityWithoutEvidence
<1>11. CASE CapabilityStoreFails \/ Commit \/ CommitFails \/ EndTimeCycle \/ EndRequest
  BY <1>5, <1>11 DEF CapabilityStoreFails, Commit, CommitFails, EndTimeCycle, EndRequest
<1>12. CASE UNCHANGED vars
  BY <1>5, <1>12 DEF vars
<1> QED
  BY <1>1, <1>2, <1>3, <1>4, <1>6, <1>5, <1>7, <1>8, <1>9, <1>10, <1>11, <1>12, <1>13
     DEF Next, Cycle

\* run_time_cycle comes first: a runtime that waits for text never stands next
\* to a State that has not taken in the time the life was stopped.
THEOREM WaitingIsResumed == Spec => []WaitingMeansResumed
<1>1. Init => WaitingMeansResumed
  BY DEF Init, WaitingMeansResumed
<1>2. WaitingMeansResumed /\ [Next]_vars => WaitingMeansResumed'
  BY ResumedStep
<1> QED
  BY <1>1, <1>2, PTL DEF Spec

\* Protection is switched by an idle process only, so no call is in progress
\* while it is active: the owners' information and the answers stand still.
THEOREM ProtectionIsQuiet == Spec => ProtectedIsQuiet
<1>1. IInv /\ [Next]_vars =>
        [up /\ up' /\ mode = "protected" /\ mode' = "protected" =>
            material' = material /\ answered' = answered]_vars
  <2> SUFFICES ASSUME IInv, [Next]_vars, up, up', mode = "protected"
               PROVE  UNCHANGED <<material, answered>>
    OBVIOUS
  <2> USE DEF durable, process, control, history
  <2>1. pc = "idle"
    BY DEF IInv, CallInv
  <2>2. ~Cycle
    <3>1. ~Observe /\ ~RestartPrecedesState /\ ~Accept /\ ~TurnAway /\ ~AuditFails
      BY <2>1 DEF Observe, RestartPrecedesState, Accept, TurnAway, AuditFails
    <3>2. ~RecordLifecycle /\ ~RecordExchange /\ ~ExchangePrecedesContext /\ ~Remember
      BY <2>1 DEF RecordLifecycle, RecordExchange, ExchangePrecedesContext, Remember
    <3>3. ~InterpretationTraceFails /\ ~StartNewContext /\ ~NewContextPrecedes
      BY <2>1 DEF InterpretationTraceFails, StartNewContext, NewContextPrecedes
    <3>4. ~RecordCapabilityEvidence /\ ~CapabilityWithoutEvidence /\ ~CapabilityStoreFails
      BY <2>1 DEF RecordCapabilityEvidence, CapabilityWithoutEvidence, CapabilityStoreFails
    <3>5. ~Commit /\ ~CommitFails /\ ~EndTimeCycle /\ ~EndRequest /\ ~PruneRaises
      BY <2>1 DEF Commit, CommitFails, Saving, EndTimeCycle, EndRequest, PruneRaises
    <3> QED
      BY <3>1, <3>2, <3>3, <3>4, <3>5 DEF Cycle
  <2>3. ~Open /\ ~Quit /\ ~ConsoleUnwinds /\ ~Crash
    BY DEF Open, Quit, ConsoleUnwinds, Shutdown, Crash
  <2>4. CASE Start \/ RefuseCall \/ CallerCatches \/ ActivateProtection \/ ReleaseProtection
    BY <2>4 DEF Start, RefuseCall, CallerCatches, ActivateProtection, ReleaseProtection
  <2>7. CASE RejectUnderProtection
    BY <2>7 DEF RejectUnderProtection
  <2>5. ASSUME NEW request, BeginTimeCycle(request) \/ BeginRequest(request)
        PROVE  UNCHANGED <<material, answered>>
    BY <2>5 DEF BeginTimeCycle, BeginRequest
  <2>6. CASE UNCHANGED vars
    BY <2>6 DEF vars
  <2> QED
    BY <2>2, <2>3, <2>4, <2>5, <2>6, <2>7 DEF Next
<1> QED
  BY <1>1, Inductive, PTL DEF Spec, ProtectedIsQuiet

-----------------------------------------------------------------------------
(* The detailed system is a durable life *)

\* Every step maps to a step of DurableLife or to a stutter: a commit saves all
\* of the memory, pruning saves and loses nothing, and an outcome is returned
\* only for facts that are saved.
LEMMA LifeStep ==
    ASSUME IInv, [Next]_vars
    PROVE  [Life!Next]_(Life!vars)
<1> USE DEF durable, process, control, history, Life!vars
<1>1. LatestFacts = LastCommitted
  BY LatestIsLastSaved DEF IInv
<1>2. LatestFacts' = IF Commit THEN material ELSE LatestFacts
  BY <1>1, LatestIsLastSavedNext, TypeStep, StoreStep DEF IInv
<1> HIDE DEF LatestFacts
<1>3. CASE Commit
  <2>1. UNCHANGED <<up, material, answered>> /\ up
    BY <1>3 DEF IInv, CallInv, Commit, Saving
  <2>2. \A fact \in LatestFacts : Holds(material, fact)
    BY <1>1, <2>1 DEF IInv, MemoryInv
  <2>3. \A fact \in LatestFacts :
           fact \in material \/ (fact \in Turns /\ Remains(fact) \in material)
    BY <2>2 DEF Holds
  <2>4. LatestFacts' = material
    BY <1>2, <1>3
  <2>5. Life!Save
    BY <2>1, <2>3, <2>4 DEF Life!Save
  <2> QED
    BY <2>5 DEF Life!Next
<1>4. CASE EndRequest
  <2>1. /\ up /\ call \in Requests /\ FactsOf(call) \subseteq LatestFacts
        /\ UNCHANGED <<up, material>> /\ answered' = answered \cup {call}
    BY <1>1, <1>4 DEF IInv, MemoryInv, CallInv, EndRequest
  <2>2. ~Commit
    BY <1>4 DEF EndRequest, Commit, Saving
  <2>3. Life!Deliver(call)
    BY <1>2, <2>1, <2>2 DEF Life!Deliver
  <2> QED
    BY <2>1, <2>3 DEF Life!Next
<1>5. CASE ~Commit /\ ~EndRequest
  <2>0. LatestFacts' = LatestFacts
    BY <1>2, <1>5
  <2>1. CASE Open
    BY <2>0, <2>1 DEF Open, Life!Next, Life!Revive
  <2>2. CASE Crash \/ Quit \/ ConsoleUnwinds
    BY <2>0, <2>2 DEF Crash, Quit, ConsoleUnwinds, Idle, Shutdown, Forget, Life!Next, Life!Die
  <2>3. ASSUME up, material \subseteq material', UNCHANGED <<up, answered>>
        PROVE  [Life!Next]_(Life!vars)
    <3>1. material' \subseteq Facts
      BY TypeStep DEF IInv, TypeOK
    <3> QED
      BY <2>0, <2>3, <3>1 DEF Life!Next, Life!Work
  <2>4. CASE RecordLifecycle \/ RecordExchange \/ Remember \/ RecordCapabilityEvidence
    <3>1. up
      BY <2>4 DEF IInv, CallInv, RecordLifecycle, RecordExchange, Remember,
                  RecordCapabilityEvidence
    <3> QED
      BY <2>3, <2>4, <3>1 DEF RecordLifecycle, RecordExchange, Remember, RecordCapabilityEvidence
  <2>12. CASE StartNewContext
    <3>1. call \in Contexts /\ up
      BY <2>12 DEF IInv, CallInv, StartNewContext
    <3>2. FactsOf(call) = {call}
      BY <3>1, CallAssumption DEF FactsOf
    <3>3. /\ material' = (material \ Turns) \cup {Remains(fact) : fact \in material \cap Turns}
                            \cup FactsOf(call)
          /\ UNCHANGED <<up, answered>>
      BY <2>12, <3>2 DEF StartNewContext, PutAway
    <3>4. Life!BeginAnew(call)
      BY <2>0, <3>1, <3>3 DEF Life!BeginAnew
    <3> QED
      BY <3>1, <3>4 DEF Life!Next
  <2>5. CASE UNCHANGED <<up, material, answered>>
    BY <2>0, <2>5
  <2>6. ASSUME NEW request, BeginTimeCycle(request) \/ BeginRequest(request)
        PROVE  UNCHANGED <<up, material, answered>>
    BY <2>6 DEF BeginTimeCycle, BeginRequest
  <2>7. CASE Start \/ RefuseCall \/ CallerCatches \/ ActivateProtection \/ ReleaseProtection
    BY <2>5, <2>7 DEF Start, RefuseCall, CallerCatches, ActivateProtection, ReleaseProtection
  <2>13. CASE RejectUnderProtection \/ PruneRaises
    BY <2>5, <2>13 DEF RejectUnderProtection, PruneRaises
  <2>8. CASE Observe \/ RestartPrecedesState \/ Accept \/ TurnAway \/ AuditFails
    BY <2>5, <2>8 DEF Observe, RestartPrecedesState, Accept, TurnAway, AuditFails
  <2>9. CASE ExchangePrecedesContext \/ InterpretationTraceFails \/ NewContextPrecedes
    BY <2>5, <2>9 DEF ExchangePrecedesContext, InterpretationTraceFails, NewContextPrecedes
  <2>10. CASE CapabilityWithoutEvidence \/ CapabilityStoreFails \/ CommitFails \/ EndTimeCycle
    BY <2>5, <2>10 DEF CapabilityWithoutEvidence, CapabilityStoreFails, CommitFails, EndTimeCycle
  <2>11. CASE UNCHANGED vars
    BY <2>5, <2>11 DEF vars
  <2> QED
    BY <1>5, <2>1, <2>2, <2>4, <2>5, <2>6, <2>7, <2>8, <2>9, <2>10, <2>11, <2>12, <2>13
       DEF Next, Cycle
<1> QED
  BY <1>3, <1>4, <1>5

\* LifeContinuity implements DurableLife.
THEOREM SystemIsDurableLife == Spec => ImplementsDurableLife
<1>1. Init => Life!Init
  BY LatestIsLastSaved, Initially DEF Init, Life!Init, IInv, LastCommitted
<1>2. IInv /\ [Next]_vars => [Life!Next]_(Life!vars)
  BY LifeStep
<1> QED
  BY <1>1, <1>2, Inductive, PTL DEF Spec, Life!Spec, ImplementsDurableLife
=============================================================================
