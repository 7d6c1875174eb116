-------------------------- MODULE MemoryGovernance --------------------------
(***************************************************************************)
(* Conversation memory and its governance (stages 13 and 14): what one     *)
(* counterpart tells is retained, corrected, deactivated, forgotten and,   *)
(* after a confirmation that may come in another process, physically       *)
(* deleted.                                                                *)
(*                                                                         *)
(* A text input changes Memory first and is then saved as a checkpoint.    *)
(* A physical deletion goes on from there: the older generations are       *)
(* removed, the database file is rebuilt, and the record of the deletion   *)
(* is completed and saved.  Each of these steps can fail, and the process  *)
(* can die between any two of them.                                        *)
(*                                                                         *)
(* The texts that Judgment parses are abstracted to what they ask for; a   *)
(* search by text fragments is abstracted to the meanings it matches.  A   *)
(* candidate carries the item its review names.  Governance records are    *)
(* kept as far as they hold content (corrections) or can be unfinished     *)
(* (deletions).  The dialogue turns are module DialogueTaint.              *)
(***************************************************************************)
EXTENDS Integers, FiniteSets, Sequences

CONSTANTS
    Meanings,       \* what can be remembered
    Redacted,       \* REDACTED_MEMORY_MEANING
    KeepLatest,     \* retention_policy.checkpoint_generations
    MaxInputs,      \* bound: text inputs
    MaxItems,       \* bound: memory items
    MaxGenerations  \* bound: retained checkpoints when a time cycle begins

ASSUME RedactedAssumption == Redacted \notin Meanings
ASSUME GenerationsAssumption == KeepLatest \in Nat \ {0}
ASSUME GovernanceBounds == MaxInputs \in Nat /\ MaxItems \in Nat /\ MaxGenerations \in Nat

VARIABLES
    memory,         \* Stage14Memory: items, candidates, corrections, deletions, pending
    checkpoints,    \* the Memory part of the retained checkpoints, oldest first
    pages,          \* items whose content is left in free pages or the WAL
    up,             \* a process runs
    healthy,        \* the persistence health of the text runner
    pc,             \* next step of the text input or time cycle being served
    deleting,       \* items of the PARTIAL record of this input
    inputs          \* history: text inputs so far

vars == <<memory, checkpoints, pages, up, healthy, pc, deleting, inputs>>

Texts == Meanings \cup {Redacted}
ItemIds == 1..MaxItems
Item == [version : Nat \ {0}, meaning : Texts, active : BOOLEAN, deleted : BOOLEAN,
         sources : SUBSET (1..MaxInputs)]
Candidate == [meaning : Texts, item : ItemIds]
Correction == [item : ItemIds, version : Nat \ {0}, previous : Texts, replacement : Texts]
Deletion == [items : SUBSET ItemIds, status : {"partial", "unconfirmed", "completed"}]

Snapshot == [items : Seq(Item), candidates : Seq(Candidate), corrections : SUBSET Correction,
             deletions : SUBSET Deletion, pending : SUBSET (ItemIds \X (Nat \ {0}))]

TypeOK ==
    /\ memory \in Snapshot
    /\ checkpoints \in Seq(Snapshot)
    /\ checkpoints # <<>>
    /\ pages \subseteq ItemIds
    /\ up \in BOOLEAN
    /\ healthy \in BOOLEAN
    /\ pc \in {"idle", "save", "prune_old", "compact", "save_result", "prune"}
    /\ deleting \subseteq ItemIds
    /\ inputs \in 0..MaxInputs

Newest == checkpoints[Len(checkpoints)]

Nothing == [items |-> <<>>, candidates |-> <<>>, corrections |-> {}, deletions |-> {},
            pending |-> {}]

\* The snapshot still holds content of item i: in the item, in a candidate that
\* became part of it, or in the history of its corrections.
Holds(snapshot, i) ==
    /\ i \in DOMAIN snapshot.items
    /\ \/ snapshot.items[i].meaning # Redacted
       \/ \E c \in DOMAIN snapshot.candidates :
             snapshot.candidates[c].item = i /\ snapshot.candidates[c].meaning # Redacted
       \/ \E r \in snapshot.corrections :
             r.item = i /\ (r.previous # Redacted \/ r.replacement # Redacted)

-----------------------------------------------------------------------------

\* After the first time cycle of a new life.
Init ==
    /\ memory = Nothing
    /\ checkpoints = <<Nothing>>
    /\ pages = {}
    /\ up = TRUE
    /\ healthy = TRUE
    /\ pc = "idle"
    /\ deleting = {}
    /\ inputs = 0

\* A text input reaches _record_long_term_memory; what it does to Memory is
\* saved next.
Serve(change) ==
    /\ up /\ healthy /\ pc = "idle"
    /\ inputs < MaxInputs
    /\ inputs' = inputs + 1
    /\ memory' = change
    /\ pc' = "save"
    /\ UNCHANGED <<checkpoints, pages, up, healthy>>

\* While a deletion waits for its confirmation, every other input is answered
\* with a reminder.
Unasked == memory.pending = {}

Active == {i \in DOMAIN memory.items : memory.items[i].active}
Live == {i \in DOMAIN memory.items : ~memory.items[i].deleted}

\* prepare_governance_selection: the items a text matches, without a budget.
Matching(ids, meanings) == {i \in ids : memory.items[i].meaning \in meanings}

-----------------------------------------------------------------------------
(* Retention (stage 13) *)

\* Faulty variant of Merged: the new candidate is not entered as a source.
MergedWithoutSource(item, c) == [item EXCEPT !.version = @ + 1]

\* review_conversation_candidate, INTEGRATED.
Merged(item, c) == [item EXCEPT !.version = @ + 1, !.sources = @ \cup {c}]

\* review_conversation_candidate: an active item with this meaning takes the
\* candidate in, else a new item is adopted.
Retain(m) ==
    LET c == Len(memory.candidates) + 1
        same == Matching(Active, {m})
        first == CHOOSE i \in same : \A j \in same : i <= j
        i == IF same # {} THEN first ELSE Len(memory.items) + 1
    IN  /\ Unasked
        /\ i \in ItemIds
        /\ deleting' = {}
        /\ Serve([memory EXCEPT
              !.candidates = Append(@, [meaning |-> m, item |-> i]),
              !.items = IF same # {} THEN [memory.items EXCEPT ![i] = Merged(memory.items[i], c)]
                        ELSE Append(@, [version |-> 1, meaning |-> m, active |-> TRUE,
                                        deleted |-> FALSE, sources |-> {c}])])

\* Talk that leaves no memory, a governance request that finds nothing or is
\* ambiguous, and any talk while a confirmation is pending.
Talk ==
    /\ deleting' = {}
    /\ Serve(memory)

-----------------------------------------------------------------------------
(* Governance (stage 14) *)

\* Faulty variant of Corrected: the version stays.
CorrectedInPlace(item, m) == [item EXCEPT !.meaning = m]

Corrected(item, m) == [item EXCEPT !.version = @ + 1, !.meaning = m]

\* CORRECTION of the only item that matches.
Correct(i, m) ==
    /\ Unasked
    /\ \E meanings \in SUBSET Meanings : Matching(Active, meanings) = {i}
    /\ deleting' = {}
    /\ LET new == Corrected(memory.items[i], m)
       IN  Serve([memory EXCEPT
              !.items[i] = new,
              !.corrections = @ \cup {[item |-> i, version |-> new.version,
                                       previous |-> memory.items[i].meaning,
                                       replacement |-> m]}])

\* REEVALUATION of all that match; the certainty is not tracked.
Reevaluated(item) == [item EXCEPT !.version = @ + 1]
Reevaluate(targets) ==
    /\ Unasked
    /\ deleting' = {}
    /\ Serve([memory EXCEPT !.items =
          [i \in DOMAIN @ |-> IF i \in targets THEN Reevaluated(@[i]) ELSE @[i]]])

\* Faulty variant of WithdrawalAllowed: also while a confirmation is pending.
WithdrawalAllowedAlways == TRUE

WithdrawalAllowed == Unasked

Withdrawn(item) == [item EXCEPT !.version = @ + 1, !.active = FALSE]

\* DEACTIVATION and logical forgetting of all that match; a bare "forget it"
\* names the latest item alone.
Withdraw(targets) ==
    /\ WithdrawalAllowed
    /\ deleting' = {}
    /\ Serve([memory EXCEPT !.items =
          [i \in DOMAIN @ |-> IF i \in targets THEN Withdrawn(@[i]) ELSE @[i]]])

\* PHYSICAL_DELETE, not confirmed: the current versions of the targets are
\* pinned.
RequestDeletion(targets) ==
    /\ Unasked
    /\ deleting' = {}
    /\ Serve([memory EXCEPT !.pending = {<<i, memory.items[i].version>> : i \in targets}])

CancelDeletion ==
    /\ ~Unasked
    /\ deleting' = {}
    /\ Serve([memory EXCEPT !.pending = {}])

\* _valid_targets of the pinned request.
PinnedTargets == {i \in Live : <<i, memory.items[i].version>> \in memory.pending}

\* The candidates named as sources of a target.
RedactedCandidates(targets) ==
    [c \in DOMAIN memory.candidates |->
        IF \E i \in targets : c \in memory.items[i].sources
        THEN [memory.candidates[c] EXCEPT !.meaning = Redacted] ELSE memory.candidates[c]]

RedactedCorrections(targets) ==
    {IF r.item \in targets THEN [r EXCEPT !.previous = Redacted, !.replacement = Redacted] ELSE r :
        r \in memory.corrections}

Tombstone(item) ==
    [item EXCEPT !.version = @ + 1, !.active = FALSE, !.deleted = TRUE, !.meaning = Redacted]

\* confirm_pending_physical_deletion and _physically_delete.
ConfirmDeletion ==
    /\ ~Unasked
    /\ deleting' = PinnedTargets
    /\ Serve([memory EXCEPT
          !.pending = {},
          !.items = [i \in DOMAIN @ |-> IF i \in PinnedTargets THEN Tombstone(@[i]) ELSE @[i]],
          !.candidates = RedactedCandidates(PinnedTargets),
          !.corrections = RedactedCorrections(PinnedTargets),
          !.deletions = IF PinnedTargets = {} THEN @
                        ELSE @ \cup {[items |-> PinnedTargets, status |-> "partial"]}])

-----------------------------------------------------------------------------
(* Saving, and the rest of a deletion *)

Save ==
    /\ pc = "save"
    /\ checkpoints' = Append(checkpoints, memory)
    /\ pc' = IF deleting # {} THEN "prune_old" ELSE "prune"
    /\ UNCHANGED <<memory, pages, up, healthy, deleting, inputs>>

\* A checkpoint of an input or of a time cycle cannot be written.
SaveFails ==
    /\ pc \in {"save", "save_result"}
    /\ healthy' = FALSE
    /\ pc' = "idle"
    /\ deleting' = {}
    /\ UNCHANGED <<memory, checkpoints, pages, up, inputs>>

\* Faulty variant of NewestOf: the wrong end.
OldestOf(saved, n) ==
    IF Len(saved) <= n THEN saved ELSE SubSeq(saved, 1, n)

\* The n newest of a sequence of checkpoints.
NewestOf(saved, n) ==
    IF Len(saved) <= n THEN saved ELSE SubSeq(saved, Len(saved) - n + 1, Len(saved))

\* DELETE leaves the rows' content in free pages and in the WAL.
Freed(saved, n) ==
    pages \cup {i \in ItemIds : \E k \in 1..(Len(saved) - n) : Holds(saved[k], i)}

\* prune_checkpoints(keep_latest=1)
PruneOld ==
    /\ pc = "prune_old"
    /\ checkpoints' = NewestOf(checkpoints, 1)
    /\ pages' = Freed(checkpoints, 1)
    /\ pc' = "compact"
    /\ UNCHANGED <<memory, up, healthy, deleting, inputs>>

\* The record of this deletion with its new status.
Resolved(status) ==
    [memory EXCEPT !.deletions =
        {IF d.items = deleting THEN [d EXCEPT !.status = status] ELSE d : d \in @}]

\* compact_storage: truncate the WAL, rebuild the file, truncate again; then
\* finalize_physical_deletion.
Compact ==
    /\ pc = "compact"
    /\ pages' = {}
    /\ memory' = Resolved("completed")
    /\ pc' = "save_result"
    /\ UNCHANGED <<checkpoints, up, healthy, deleting, inputs>>

\* compact_storage fails at any of its statements; then
\* update_physical_deletion_residual.
CompactFails ==
    /\ pc = "compact"
    /\ pages' \in {pages, {}}
    /\ memory' = Resolved("unconfirmed")
    /\ pc' = "save_result"
    /\ UNCHANGED <<checkpoints, up, healthy, deleting, inputs>>

\* _commit_governance_snapshot
SaveResult ==
    /\ pc = "save_result"
    /\ checkpoints' = Append(checkpoints, memory)
    /\ pc' = "prune"
    /\ UNCHANGED <<memory, pages, up, healthy, deleting, inputs>>

\* prune_checkpoints to the retained generations; a failure of it is swallowed,
\* as is one of PruneOld.
Prune ==
    /\ pc \in {"prune_old", "prune"}
    /\ \/ checkpoints' = NewestOf(checkpoints, KeepLatest) /\ pages' = Freed(checkpoints, KeepLatest)
       \/ UNCHANGED <<checkpoints, pages>>
    /\ pc' = "idle"
    /\ deleting' = {}
    /\ UNCHANGED <<memory, up, healthy, inputs>>

-----------------------------------------------------------------------------
(* Time cycles, and the process *)

\* A time cycle, a new dialogue context or a capability use commits Memory as
\* it is and prunes.
TimeCycle ==
    /\ up /\ healthy /\ pc = "idle"
    /\ Len(checkpoints) < MaxGenerations
    /\ pc' = "save"
    /\ UNCHANGED <<memory, checkpoints, pages, up, healthy, deleting, inputs>>

Crash ==
    /\ up
    /\ up' = FALSE
    /\ memory' = Nothing
    /\ pc' = "idle"
    /\ deleting' = {}
    /\ UNCHANGED <<checkpoints, pages, healthy, inputs>>

\* restore_owned_information: the newest checkpoint, whatever was in progress.
Restart ==
    /\ ~up
    /\ up' = TRUE
    /\ healthy' = TRUE
    /\ memory' = Newest
    /\ UNCHANGED <<checkpoints, pages, pc, deleting, inputs>>

Next ==
    \/ \E m \in Meanings : Retain(m) \/ (\E i \in Active : Correct(i, m))
    \/ Talk
    \/ \E meanings \in SUBSET Meanings :
          \/ Matching(Active, meanings) # {} /\ Reevaluate(Matching(Active, meanings))
          \/ Matching(Active, meanings) # {} /\ Withdraw(Matching(Active, meanings))
          \/ Matching(Live, meanings) # {} /\ RequestDeletion(Matching(Live, meanings))
    \/ \E i \in Active : Withdraw({i})
    \/ CancelDeletion \/ ConfirmDeletion
    \/ Save \/ SaveFails \/ PruneOld \/ Compact \/ CompactFails \/ SaveResult \/ Prune
    \/ TimeCycle \/ Crash \/ Restart

Spec == Init /\ [][Next]_vars

-----------------------------------------------------------------------------
(* Properties *)

\* The durable states of Memory, oldest first, with the one in use at the end.
Lineage == IF up THEN Append(checkpoints, memory) ELSE checkpoints

\* A deletion that any state of Memory calls completed has left nothing: no
\* retained checkpoint and no page of the file holds the item, a candidate it
\* was formed from or a correction of it (Stage14TextInputRunner.run finalizes
\* after the pruning and the rebuild only; docs/03_design/020 section 7).
CompletedMeansGone ==
    \A k \in DOMAIN Lineage : \A d \in Lineage[k].deletions :
        d.status = "completed" =>
            \A i \in d.items : i \notin pages /\ \A n \in DOMAIN Lineage : ~Holds(Lineage[n], i)

\* A pending confirmation always pins items as they are: a "yes" deletes what
\* was asked about and all of it, also when it comes in a later process.
PendingIsCurrent ==
    \A k \in DOMAIN Lineage : \A pin \in Lineage[k].pending :
        /\ pin[1] \in DOMAIN Lineage[k].items
        /\ ~Lineage[k].items[pin[1]].deleted
        /\ Lineage[k].items[pin[1]].version = pin[2]

\* A version names one content: between two states of Memory an item with the
\* same version has the same meaning and status, and a later one is never older.
VersionsIdentify ==
    \A k, n \in DOMAIN Lineage : k < n =>
        /\ DOMAIN Lineage[k].items \subseteq DOMAIN Lineage[n].items
        /\ \A i \in DOMAIN Lineage[k].items :
              LET old == Lineage[k].items[i]
                  new == Lineage[n].items[i]
              IN  old.version <= new.version /\ (old.version = new.version => old = new)

\* Once a redacted state of Memory is saved the content never comes back, over
\* crashes, failed saves and restarts.
DeletionIsFinal ==
    [][\A i \in DOMAIN Newest.items : ~Holds(Newest, i) =>
        /\ ~Holds(Newest', i)
        /\ up' => ~Holds(memory', i)]_vars

\* docs/03_design/020 section 7: while the removal of the older generations or
\* the rebuild is unconfirmed, an item is not shown as physically deleted.
ShownDeletedMeansGone ==
    up /\ healthy /\ pc = "idle" =>
        \A i \in DOMAIN memory.items :
            memory.items[i].meaning = Redacted =>
                \E d \in memory.deletions : i \in d.items /\ d.status = "completed"
=============================================================================
