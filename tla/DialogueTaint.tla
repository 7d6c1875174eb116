---------------------------- MODULE DialogueTaint ----------------------------
(***************************************************************************)
(* How remembered content travels through the dialogue, and how withdrawn  *)
(* content is kept from coming back.                                       *)
(*                                                                         *)
(* The auxiliary intelligence answers from the memories selected for an    *)
(* input and from a window of earlier exchanges, so a reply may repeat what *)
(* either of them holds.  Core notes which materials went into each         *)
(* lifecycle, without their content; before the next call it withholds the *)
(* exchanges that rest on anything not selected now, and a physical         *)
(* deletion redacts the exchanges that rest on the deleted memories.        *)
(*                                                                         *)
(* Core, Memory and Relationship are saved in one checkpoint (module       *)
(* LifeContinuity) and are changed here in one step per input.  What a      *)
(* selection matches is arbitrary; relationship and experience information *)
(* only narrows the window, except for the one exchange it lets back in.   *)
(***************************************************************************)
EXTENDS Integers, FiniteSets, Sequences

CONSTANTS
    MaxLifecycles,  \* bound: text inputs with a completed lifecycle
    MaxItems        \* bound: memory items

ASSUME TaintBounds == MaxLifecycles \in Nat /\ MaxItems \in Nat

VARIABLES
    items,          \* conversation memory items
    records,        \* Core's completed lifecycle records
    context,        \* lifecycles with turns in the active dialogue context
    redacted,       \* those whose turns are redacted
    pending,        \* the deletion that waits for its confirmation
    taint           \* history: the contents the turns of a lifecycle may hold

vars == <<items, records, context, redacted, pending, taint>>

ItemIds == 1..MaxItems
Lifecycles == 1..MaxLifecycles

\* What an item says in each of its versions, named by the version that first
\* said it; 0 is the tombstone.
Item == [contents : Seq(Nat) \ {<<>>}, active : BOOLEAN, deleted : BOOLEAN,
         sources : SUBSET Lifecycles]

\* The entries of a LifecycleRecord and of the governance record of the same
\* lifecycle.
Record == [
    legacy   : BOOLEAN,                          \* no entry dialogue-materials:v1
    used     : SUBSET (ItemIds \X (Nat \ {0})),  \* conversation-memory:<item>:v<version>
    dialogue : SUBSET Lifecycles,                \* dialogue-turn:<lifecycle>
    targets  : SUBSET ItemIds,                   \* memory-governance-target:<item>
    asked    : BOOLEAN,                          \* experience-confirmation
    command  : BOOLEAN,                          \* is_management_command of its text
    governed : BOOLEAN,                          \* has a governance record
    affected : SUBSET ItemIds]                   \* affected_items of that record

Pending == [lifecycle : Lifecycles, targets : SUBSET ItemIds]
Content == ItemIds \X Nat

TypeOK ==
    /\ items \in Seq(Item)
    /\ Len(items) <= MaxItems
    /\ records \in Seq(Record)
    /\ Len(records) <= MaxLifecycles
    /\ context \subseteq DOMAIN records
    /\ redacted \subseteq DOMAIN records
    /\ pending \subseteq Pending
    /\ Cardinality(pending) <= 1
    /\ taint \in Seq(SUBSET Content)
    /\ Len(taint) = Len(records)

Version(i) == Len(items[i].contents)
CurrentContent(i) == <<i, items[i].contents[Version(i)]>>
Active == {i \in DOMAIN items : items[i].active}
Live == {i \in DOMAIN items : ~items[i].deleted}

\* The usage entries of a selection.
Used(selected) == {<<i, Version(i)>> : i \in selected}

Here == Len(records) + 1

-----------------------------------------------------------------------------
(* What is withheld *)

Legacy == {l \in DOMAIN records : records[l].legacy}

Closed(S) == \A l \in DOMAIN records : records[l].dialogue \cap S # {} => l \in S

\* Faulty variant of Dependent: replies built on a withheld reply stay.
DependentItself(seeds) == seeds \cup Legacy

\* dependent_dialogue_lifecycles
Dependent(seeds) ==
    LET closed == {S \in SUBSET DOMAIN records : seeds \cup Legacy \subseteq S /\ Closed(S)}
    IN  {l \in DOMAIN records : \A S \in closed : l \in S}

\* invalid_sources
Outdated(selected) ==
    UNION {items[i].sources :
              i \in {j \in DOMAIN items : ~items[j].active \/ Version(j) > 1 \/ j \notin selected}}

\* conversation_memory_dialogue_exclusions
MemoryExclusions(selected) ==
    {l \in DOMAIN records : l \in Outdated(selected) \/ ~(records[l].used \subseteq Used(selected))}

Governed == {l \in DOMAIN records : records[l].governed}
Commands == {l \in context \ redacted : records[l].command}

\* _propose_dialogue_assistance
Withheld(selected) == Dependent(MemoryExclusions(selected) \cup Governed \cup Commands)

\* _validated_confirmation_exchange: the last exchange, a released question of
\* ASK_FIRST; it need not be selected now, but it must be current.
Confirmable ==
    {l \in context : /\ \A k \in context : k <= l
                     /\ records[l].asked
                     /\ l \notin Dependent(MemoryExclusions(Active) \cup Governed)}

\* select_dialogue_window: the exchanges from lifecycle first on.
Window(selected, first, again) ==
    {l \in (context \ Withheld(selected)) \cup (IF again THEN Confirmable ELSE {}) : l >= first}

\* Faulty variant of DeletionLifecycles: as in stage 13, without governance.
DeletionLifecyclesUngoverned(targets) ==
    Dependent({l \in DOMAIN records : \E i \in targets :
        l \in items[i].sources \/ \E use \in records[l].used : use[1] = i})

\* Faulty variant of DeletionLifecycles: the sources of every memory.
DeletionLifecyclesOfAll(targets) ==
    Dependent({l \in DOMAIN records :
        \/ \E i \in DOMAIN items : l \in items[i].sources
        \/ \E i \in targets : \/ \E use \in records[l].used : use[1] = i
                              \/ i \in records[l].affected \cup records[l].targets})

\* conversation_memory_deletion_lifecycles
DeletionLifecycles(targets) ==
    Dependent({l \in DOMAIN records : \E i \in targets :
        \/ l \in items[i].sources
        \/ \E use \in records[l].used : use[1] = i
        \/ i \in records[l].affected \cup records[l].targets})

-----------------------------------------------------------------------------

Nothing == [legacy |-> FALSE, used |-> {}, dialogue |-> {}, targets |-> {}, asked |-> FALSE,
            command |-> FALSE, governed |-> FALSE, affected |-> {}]

\* A new life, or one whose last exchanges were recorded before materials were:
\* a memory, and a reply to it that no entry leads to.
Init ==
    /\ redacted = {}
    /\ pending = {}
    /\ \/ items = <<>> /\ records = <<>> /\ context = {} /\ taint = <<>>
       \/ /\ MaxLifecycles >= 2 /\ MaxItems >= 1
          /\ items = <<[contents |-> <<1>>, active |-> TRUE, deleted |-> FALSE, sources |-> {1}]>>
          /\ records = <<[Nothing EXCEPT !.legacy = TRUE], [Nothing EXCEPT !.legacy = TRUE]>>
          /\ context = {1, 2}
          /\ taint = <<{<<1, 1>>}, {<<1, 1>>}>>

\* How an input can be answered: by the auxiliary intelligence from a window, by
\* the fixed question of ASK_FIRST, or as a management command; the latter two
\* use no window.
Assisted(selected) ==
    {[Nothing EXCEPT !.dialogue = Window(selected, first, again)] :
        first \in context \cup {Here}, again \in BOOLEAN}
Clarification == [Nothing EXCEPT !.asked = TRUE]
Command == [Nothing EXCEPT !.command = TRUE]
Replies(selected) == Assisted(selected) \cup {Clarification, Command}

\* record_completed_lifecycle and record_completed_exchange.  The new turns may
\* hold the contents the input is about, what was selected and what the window
\* held.  questions: an exchange whose question the input answers; its turns
\* hold what the input is about as well.
Complete(record, selected, contents, questions) ==
    /\ records' = Append(records, [record EXCEPT !.used = Used(selected)])
    /\ context' = context \cup {Here}
    /\ taint' = Append([l \in DOMAIN taint |->
                           IF l \in questions THEN taint[l] \cup contents ELSE taint[l]],
                       contents \cup {CurrentContent(i) : i \in selected}
                                \cup UNION {taint[l] : l \in record.dialogue})

\* An input that changes no memory; while a deletion is pending, every input but
\* its confirmation or cancellation.
Talk(reply, selected) ==
    /\ Complete(reply, selected, {}, {})
    /\ UNCHANGED <<items, redacted, pending>>

-----------------------------------------------------------------------------
(* Conversation memory *)

\* The last exchange, when its text is still there.
LastExchange == {l \in context \ redacted : \A k \in context : k <= l}

\* review_conversation_candidate, INTEGRATED: a next version that says the same.
Integrated(i, sources) ==
    [items EXCEPT ![i].contents = Append(@, @[Len(@)]), ![i].sources = @ \cup sources]

\* ADOPTED
Adopted(sources) ==
    Append(items, [contents |-> <<1>>, active |-> TRUE, deleted |-> FALSE, sources |-> sources])

\* The candidate is integrated into the active item i that says the same, or
\* becomes item i.  It may answer the question of the last exchange
\* (_contextual_retention).
Retain(i, questions, reply, selected) ==
    /\ pending = {}
    /\ reply = Command => questions = {}
    /\ \/ /\ i \in Active
          /\ items' = Integrated(i, questions \cup {Here})
          /\ Complete(reply, selected, {CurrentContent(i)}, questions)
       \/ /\ i = Len(items) + 1
          /\ i <= MaxItems
          /\ items' = Adopted(questions \cup {Here})
          /\ Complete(reply, selected, {<<i, 1>>}, questions)
    /\ UNCHANGED <<redacted, pending>>

\* The contents a governance input speaks of.
Spoken(targets) == {CurrentContent(i) : i \in targets}

\* A governance input: route_memory_governance notes its targets.
Govern(reply, selected, targets, affected, contents) ==
    /\ pending = {}
    /\ Complete([reply EXCEPT !.governed = TRUE, !.targets = targets, !.affected = affected],
                selected, contents, {})
    /\ UNCHANGED redacted

\* CORRECTION of a single target.
Correct(i, selected) ==
    /\ items' = [items EXCEPT ![i].contents = Append(@, Version(i) + 1)]
    /\ Govern(Command, selected, {i}, {i}, Spoken({i}) \cup {<<i, Version(i) + 1>>})
    /\ UNCHANGED pending

\* A correction that fits several memories asks back and changes none.
CorrectUnclear(targets, selected) ==
    /\ Cardinality(targets) > 1
    /\ Govern(Command, selected, targets, {}, Spoken(targets))
    /\ UNCHANGED <<items, pending>>

\* A next version that says the same.
Renewed(item) == [item EXCEPT !.contents = Append(@, @[Len(@)])]

\* REEVALUATION
Reevaluate(targets, selected) ==
    /\ items' = [i \in DOMAIN items |-> IF i \in targets THEN Renewed(items[i]) ELSE items[i]]
    /\ Govern(Command, selected, targets, targets, Spoken(targets))
    /\ UNCHANGED pending

Inactive(targets) ==
    [i \in DOMAIN items |->
        IF i \in targets THEN [Renewed(items[i]) EXCEPT !.active = FALSE] ELSE items[i]]

\* DEACTIVATION
Deactivate(targets, selected) ==
    /\ items' = Inactive(targets)
    /\ Govern(Command, selected, targets, targets, Spoken(targets))
    /\ UNCHANGED pending

\* record_logical_forgetting, after an explicit request or after one that the
\* auxiliary intelligence read out of the input; Core notes no target.
Forget(reply, targets, selected) ==
    /\ \/ reply = Command
       \/ reply # Clarification /\ selected = targets /\ Cardinality(targets) = 1
    /\ items' = Inactive(targets)
    /\ Govern(reply, selected, {}, targets, Spoken(targets))
    /\ UNCHANGED pending

-----------------------------------------------------------------------------
(* Physical deletion *)

RequestDeletion(targets, selected) ==
    /\ Govern(Command, selected, targets, {}, Spoken(targets))
    /\ pending' = {[lifecycle |-> Here, targets |-> targets]}
    /\ UNCHANGED items

\* A "no" speaks of nothing.
CancelDeletion(selected) ==
    /\ pending # {}
    /\ pending' = {}
    /\ Complete([Nothing EXCEPT !.governed = TRUE], selected, {}, {})
    /\ UNCHANGED <<items, redacted>>

Tombstone(item) ==
    [item EXCEPT !.contents = Append(@, 0), !.active = FALSE, !.deleted = TRUE]

\* A "yes": _physically_delete, and redact_active_dialogue with the lifecycles
\* known before it, the request and this input.
ConfirmDeletion(selected) ==
    \E p \in pending :
        /\ pending' = {}
        /\ Complete([Nothing EXCEPT !.governed = TRUE, !.affected = p.targets],
                    selected, {}, {})
        /\ items' = [i \in DOMAIN items |->
                        IF i \in p.targets THEN Tombstone(items[i]) ELSE items[i]]
        /\ redacted' = redacted \cup (context' \cap
              (DeletionLifecycles(p.targets) \cup {p.lifecycle, Here}))

\* start_new_dialogue_context
NewContext ==
    /\ context # {}
    /\ context' = {}
    /\ UNCHANGED <<items, records, redacted, pending, taint>>

-----------------------------------------------------------------------------

\* One text input, with what is selected for it.
Input(selected) ==
    \/ \E reply \in Replies(selected) :
          \/ Talk(reply, selected)
          \/ \E i \in Active \cup {Len(items) + 1}, questions \in SUBSET LastExchange :
                Retain(i, questions, reply, selected)
          \/ \E targets \in SUBSET Active \ {{}} : Forget(reply, targets, selected)
    \/ \E i \in Active : Correct(i, selected)
    \/ \E targets \in SUBSET Active \ {{}} :
          CorrectUnclear(targets, selected) \/ Reevaluate(targets, selected)
          \/ Deactivate(targets, selected)
    \/ \E targets \in SUBSET Live \ {{}} : RequestDeletion(targets, selected)
    \/ CancelDeletion(selected) \/ ConfirmDeletion(selected)

Next ==
    \/ Here <= MaxLifecycles /\ \E selected \in SUBSET Active : Input(selected)
    \/ NewContext

Spec == Init /\ [][Next]_vars

-----------------------------------------------------------------------------
(* Properties *)

\* The lifecycle recorded by a step, if any, was not shown withdrawn content:
\* every exchange in its window holds only contents of memories selected for
\* this input; the exchange let back in for a clarification holds at least
\* nothing that is inactive or corrected by now, however often it was passed on
\* from reply to reply (_propose_dialogue_assistance; docs/03_design/023).
WindowsHoldNothingWithdrawn ==
    [][Len(records') > Len(records) =>
        LET shown == records'[Here].dialogue
            selected == {use[1] : use \in records'[Here].used}
        IN  \A l \in shown : \A content \in taint[l] :
                \E i \in IF records[l].asked THEN Active ELSE selected :
                    content = CurrentContent(i)]_vars

\* No turn of the active context still holds content of a deleted memory:
\* neither what was said to remember, correct or withdraw it, nor a reply that
\* used it, nor a reply built on one of those (redact_active_dialogue).
DeletedMeansRedacted ==
    \A l \in context \ redacted : \A content \in taint[l] : ~items[content[1]].deleted

\* A deletion takes no more than it must: what it redacts held content of a
\* target, comes from before materials were recorded, rests on such an exchange,
\* or is the request or the confirmation.
RedactionIsPrecise ==
    [][\A l \in redacted' \ redacted :
        \/ l = Here
        \/ l \in Dependent({})
        \/ \E p \in pending :
              l = p.lifecycle \/ \E content \in taint[l] : content[1] \in p.targets]_vars
=============================================================================
