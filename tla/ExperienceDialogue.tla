-------------------------- MODULE ExperienceDialogue --------------------------
(***************************************************************************)
(* How experience shapes the dialogue.  The counterpart reacts to the last *)
(* reply (or to a capability result), confirms the reaction with another   *)
(* input of the same dialogue context, and from then on an item applies:   *)
(* in its own context, or wherever one of its topics is spoken of.  An     *)
(* item that says "ask first" turns a reply into a question, once; the     *)
(* next input answers it.                                                  *)
(*                                                                         *)
(* One event is one text input, with its lifecycle record, its exchange,   *)
(* its usage and its evidence, or one capability result.  An input is what *)
(* it speaks of (topics, and paths of files a capability has read).  All   *)
(* of it is saved in one checkpoint (module LifeContinuity), so a restart  *)
(* changes nothing here, as long as the checkpoint can be written and read *)
(* at all: both validate the whole of what memory holds (Savable).         *)
(*                                                                         *)
(* Inputs come in the order of their times; the times of capability        *)
(* results are those of another caller.                                    *)
(***************************************************************************)
EXTENDS Integers, FiniteSetsExt, Sequences

CONSTANTS
    Topics,      \* words a scope may name
    Objects,     \* targets of the read capability
    Values,      \* the values reactions ask for: ExperienceValue, or some of them
    Budgets,     \* characters an input leaves for instructions: at most 256
    Ttl,         \* _experience_confirmation_ttl_seconds
    MaxTime,     \* bound: the clock
    MaxContexts, \* bound: dialogue contexts
    MaxEvents,   \* bound: events
    MaxAside     \* bound: those among them that are no reply and change nothing

None == "none"
Time == 0..MaxTime

ASSUME DialogueBounds ==
    /\ Values \subseteq {"brief", "detailed", "ask_first", "respond_normally"}
    /\ None \notin Objects
    /\ Budgets \subseteq Nat
    /\ Ttl \in Nat \ {0}
    /\ MaxContexts \in Nat \ {0}
    /\ {MaxTime, MaxEvents, MaxAside} \subseteq Nat

VARIABLES
    events,   \* the inputs and capability results so far
    items,    \* _experience_items
    changes,  \* _experience_changes, those that updated an item
    pending,  \* _experience_pending of the counterpart
    context   \* the active dialogue context

vars == <<events, items, changes, pending, context>>

\* What Judgment decides and what is released of it.  A "question" is an
\* ordinary CONFIRM; a "clarification" is the one an item asked for.  A
\* "feedback" is an experience command that was accepted.
Adaptable == {"reply", "question", "clarification"}
Kinds == Adaptable \cup {"refusal", "silence", "feedback", "management", "capability"}

Versions == (Nat \ {0}) \X (Nat \ {0})

\* used: the recorded usage; asking: the ask-first items among them.
Event == [kind : Kinds, context : 1..MaxContexts, at : Time,
          used : SUBSET Versions, asking : SUBSET Versions, object : Objects \cup {None}]

\* evidence, feedback and confirmation are events.
Item == [version : Nat \ {0}, context : 1..MaxContexts, value : Values, active : BOOLEAN,
         scope : SUBSET Topics, object : Objects \cup {None}, evidence : 1..MaxEvents,
         feedback : 1..MaxEvents, confirmation : 1..MaxEvents, confirmedAt : Time]

\* target 0: an addition.
Pending == [id : 1..MaxEvents, operation : {"add", "reassess", "reject"}, at : Time,
            context : 1..MaxContexts, target : Nat, expected : Nat, evidence : 1..MaxEvents,
            value : Values, scope : SUBSET Topics, expires : Nat]

\* before: the item that was updated, if there was one.
Change == [item : Nat \ {0}, before : SUBSET Item, after : Item, proposal : Pending]

TypeOK ==
    /\ events \in Seq(Event)
    /\ Len(changes) <= MaxEvents
    /\ \A n \in DOMAIN changes : changes[n].after \in Item /\ changes[n].proposal \in Pending
    /\ \A n \in DOMAIN events : Cardinality(events[n].used) <= 2
    /\ items \in Seq(Item)
    /\ pending \subseteq Pending
    /\ \A p, q \in pending : p = q
    /\ context \in 1..MaxContexts

\* REACTION_EFFECTS: what a value is a value of.
Target(value) == IF value \in {"brief", "detailed"} THEN "response_length"
                 ELSE "confirmation_policy"

\* The characters of its instruction.
Length(value) == CASE value = "detailed" -> 18
                   [] value = "ask_first" -> 24
                   [] OTHER -> 26

Inputs == {n \in DOMAIN events : events[n].kind # "capability"}
Last(S) == {n \in S : \A m \in S : m <= n}
Now == IF Inputs = {} THEN 0 ELSE events[Max(Inputs)].at
This == Len(events) + 1

Aside == {n \in DOMAIN events :
    events[n].kind \in {"refusal", "silence", "question", "management", "capability"}}

Init == events = <<>> /\ items = <<>> /\ changes = <<>> /\ pending = {} /\ context = 1

------------------------------------------------------------------------------
\* Selection.
Applies(i, words) ==
    LET item == items[i]
    IN  /\ item.active
        /\ IF item.scope # {} THEN item.scope \cap words # {} ELSE item.context = context
        /\ item.object # None => item.context = context /\ item.object \in words

\* Confirmed later, or else of a higher version, or else of a greater ID.
Precedes(i, j) ==
    \/ items[i].confirmedAt > items[j].confirmedAt
    \/ /\ items[i].confirmedAt = items[j].confirmedAt
       /\ \/ items[i].version > items[j].version
          \/ items[i].version = items[j].version /\ i > j

\* The first of each target that the budget admits; what one target leaves of
\* the budget decides what fits of the other.
Selected(words, budget) ==
    LET applicable == {i \in DOMAIN items : Applies(i, words)}
        First(S) == {i \in S : \A j \in S \ {i} : Precedes(i, j)}
        first == First({i \in applicable : Length(items[i].value) <= budget})
        second == First({j \in applicable : \E i \in first :
                            /\ Target(items[j].value) # Target(items[i].value)
                            /\ Length(items[i].value) + Length(items[j].value) <= budget})
    IN  first \cup second

CurrentVersions(S) == {<<i, items[i].version>> : i \in S}
AskFirst(S) == CurrentVersions({i \in S : items[i].value = "ask_first"})

\* The last exchange of the active context, if there is one.
Exchanges == {n \in Inputs : events[n].context = context}

\* Faulty variant of Answered: any clarification of this context.
AnsweredBefore(asking) ==
    {n \in Exchanges : events[n].kind = "clarification" /\ events[n].asking \cap asking # {}}

\* _validated_confirmation_exchange: the question that this input answers.
Answered(asking) ==
    {n \in Last(Exchanges) :
        /\ events[n].kind = "clarification"
        /\ events[n].asking \cap asking # {}
        /\ events[n].used \subseteq CurrentVersions({i \in DOMAIN items : items[i].active})}

------------------------------------------------------------------------------
Received(t) == t \in Time /\ t >= Now /\ Len(events) < MaxEvents

Happens(t, kind, used, asking, object) ==
    events' = Append(events, [kind |-> kind, context |-> context, at |-> t, used |-> used,
                              asking |-> asking, object |-> object])

\* intact: the question is not hidden by what memory or relationship have done
\* since, and fits the input.
Talk(t, words, budget, intact) ==
    /\ Received(t)
    /\ LET selected == Selected(words, budget)
           used == CurrentVersions(selected)
           asking == AskFirst(selected)
           answers == asking = {} \/ (intact /\ Answered(asking) # {})
       IN  \/ answers /\ Happens(t, "reply", used, asking, None)
           \/ ~answers /\ Happens(t, "clarification", used, asking, None)
           \* Judgment asks or refuses for a reason of its own, or nothing of
           \* what it decided is released.
           \/ /\ Cardinality(Aside) < MaxAside
              /\ \E kind \in {"question", "refusal", "silence"} :
                    Happens(t, kind, used, asking, None)
    /\ UNCHANGED <<items, changes, pending, context>>

CapabilityResult(t, object) ==
    /\ Len(events) < MaxEvents
    /\ Cardinality(Aside) < MaxAside
    /\ Happens(t, "capability", {}, {}, object)
    /\ UNCHANGED <<items, changes, pending, context>>

NewContext ==
    /\ context < MaxContexts
    /\ context' = context + 1
    /\ UNCHANGED <<events, items, changes, pending>>

\* Another management input, and an experience command that is not understood,
\* names nothing or is refused.
Manage(t) ==
    /\ Received(t)
    /\ Cardinality(Aside) < MaxAside
    /\ Happens(t, "management", {}, {}, None)
    /\ UNCHANGED <<items, changes, pending, context>>

------------------------------------------------------------------------------
\* Faulty variant of LastReply: falls back to an older reply.
LastAdaptable == Last({n \in Exchanges : events[n].kind \in Adaptable})

\* _current_experience_evidence: the last reply that was released and answers
\* no management input, if it may be adapted.
LastReply ==
    {n \in Last({m \in Exchanges : events[m].kind \in Adaptable \cup {"refusal"}}) :
        events[n].kind \in Adaptable}

\* The results about the object that the input can be a reaction to.
Results(object, t) ==
    {n \in DOMAIN events : /\ events[n].kind = "capability"
                           /\ events[n].context = context
                           /\ events[n].object = object
                           /\ events[n].at <= t}

\* Faulty variant of CrossObserved: any reply of the other context.
CrossObservedUnused(item, i, evidence) ==
    item.scope # {} /\ item.object = None /\ events[evidence].kind # "capability"

\* The reply was made with the version it is about.
CrossObserved(item, i, evidence) ==
    /\ item.scope # {}
    /\ item.object = None
    /\ events[evidence].kind # "capability"
    /\ <<i, item.version>> \in events[evidence].used

ValidTarget(p) ==
    /\ p.target \in DOMAIN items
    /\ items[p.target].active
    /\ items[p.target].version = p.expected

ValidAddition(p) ==
    \A i \in DOMAIN items :
        ~(/\ items[i].active
          /\ items[i].context = p.context
          /\ Target(items[i].value) = Target(p.value)
          /\ items[i].scope = p.scope
          /\ items[i].object = events[p.evidence].object)

ValidReassessment(p) ==
    LET item == items[p.target]
    IN  /\ item.context # p.context => /\ p.scope = item.scope
                                       /\ CrossObserved(item, p.target, p.evidence)
        /\ Target(item.value) = Target(p.value)
        /\ p.evidence # item.evidence
        /\ events[p.evidence].at >= item.confirmedAt
        /\ events[p.evidence].object = item.object

\* _validate_experience_proposal.
Valid(p) ==
    \/ p.operation = "reject" /\ ValidTarget(p) /\ p.evidence = items[p.target].evidence
    \/ /\ p.operation # "reject"
       /\ events[p.evidence].context = p.context
       /\ events[p.evidence].at <= p.at
       /\ events[p.evidence].kind = "capability" => p.scope = {}
       /\ IF p.operation = "add" THEN ValidAddition(p)
          ELSE ValidTarget(p) /\ ValidReassessment(p)

Propose(t, operation, target, evidence, value, scope) ==
    /\ Received(t)
    /\ \A q \in pending : t >= q.expires
    /\ LET p == [id |-> This, operation |-> operation, at |-> t, context |-> context,
                 target |-> target, expected |-> IF target = 0 THEN 0 ELSE items[target].version,
                 evidence |-> evidence, value |-> value, scope |-> scope, expires |-> t + Ttl]
       IN  Valid(p) /\ pending' = {p}
    /\ Happens(t, "feedback", {}, {}, None)
    /\ UNCHANGED <<items, changes, context>>

Add(t) ==
    \E value \in Values, scope \in SUBSET Topics,
       evidence \in LastReply \cup UNION {Results(object, t) : object \in Objects} :
        Propose(t, "add", 0, evidence, value, scope)

Reassess(t) ==
    \E i \in DOMAIN items, value \in Values, scope \in SUBSET Topics :
        \E evidence \in IF items[i].object = None THEN LastReply ELSE Last(Results(items[i].object, t)) :
            Propose(t, "reassess", i, evidence, value, scope)

Reject(t) ==
    \E i \in DOMAIN items :
        Propose(t, "reject", i, items[i].evidence, items[i].value, items[i].scope)

------------------------------------------------------------------------------
\* Faulty variant of InTime: the last instant counts.
InTimeInclusive(p, t) == t <= p.expires

InTime(p, t) == t < p.expires

\* Faulty variant of NextVersion: the version the proposal was made about.
SameVersion(p) == p.expected

NextVersion(p) == IF p.target = 0 THEN 1 ELSE items[p.target].version + 1

\* An item as the proposal says, in its home context; the item it ends.
Formed(p, t, home) ==
    [version |-> NextVersion(p), context |-> home, value |-> p.value, active |-> TRUE,
     scope |-> p.scope, object |-> events[p.evidence].object, evidence |-> p.evidence,
     feedback |-> p.id, confirmation |-> This, confirmedAt |-> t]
Ended(p, t) ==
    [items[p.target] EXCEPT !.version = NextVersion(p), !.active = FALSE, !.feedback = p.id,
                            !.confirmation = This, !.confirmedAt = t]

Adopted(p, t) ==
    CASE p.operation = "add" -> Append(items, Formed(p, t, p.context))
      [] p.operation = "reassess" ->
            [items EXCEPT ![p.target] = Formed(p, t, items[p.target].context)]
      [] p.operation = "reject" -> [items EXCEPT ![p.target] = Ended(p, t)]

\* The completed record of the change.
Completed(p, t) ==
    LET i == IF p.target = 0 THEN Len(items) + 1 ELSE p.target
    IN  [item |-> i, before |-> IF p.target = 0 THEN {} ELSE {items[i]},
         after |-> Adopted(p, t)[i], proposal |-> p]

\* Faulty variant of Unresolved: the proposal stays open.
UnresolvedStill(p) == pending

Unresolved(p) == pending \ {p}

\* In the context of the proposal.  It is validated again, as it was proposed.
Confirm(t) ==
    /\ Received(t)
    /\ \E p \in pending :
        /\ InTime(p, t)
        /\ p.context = context
        /\ IF Valid(p)
           THEN /\ items' = Adopted(p, t)
                /\ changes' = Append(changes, Completed(p, t))
           ELSE UNCHANGED <<items, changes>>
        /\ pending' = Unresolved(p)
    /\ Happens(t, "feedback", {}, {}, None)
    /\ UNCHANGED context

\* Cancelled in any context, or the answer comes too late.
Drop(t) ==
    /\ Received(t)
    /\ pending # {}
    /\ pending' = {}
    /\ Happens(t, "feedback", {}, {}, None)
    /\ UNCHANGED <<items, changes, context>>

Input(t) ==
    \/ \E words \in SUBSET (Topics \cup Objects), budget \in Budgets, intact \in BOOLEAN :
        Talk(t, words, budget, intact)
    \/ \E object \in Objects : CapabilityResult(t, object)
    \/ Manage(t)
    \/ Add(t)
    \/ Reassess(t)
    \/ Reject(t)
    \/ Confirm(t)
    \/ Drop(t)

------------------------------------------------------------------------------
\* What MemoryPersistenceSnapshot accepts, when it is written and when it is
\* read: the experience is checked against its own history.  (That IDs are
\* unique and the counterpart is the same has no counterpart here.)

\* What the history before its n-th change holds of an item; the item's
\* versions in all of it.
Before(n, i) == {changes[m].after : m \in Last({k \in 1..n - 1 : changes[k].item = i})}
Historical(version) ==
    {changes[n].after : n \in {k \in DOMAIN changes :
        changes[k].item = version[1] /\ changes[k].after.version = version[2]}}

\* validate_item
Provenance(item) ==
    LET evidence == events[item.evidence]
    IN  /\ item.context # evidence.context => item.scope # {} /\ item.object = None
        /\ item.object = evidence.object
        /\ item.confirmedAt >= evidence.at
        /\ item.evidence \notin {item.feedback, item.confirmation}

\* has_cross_context_observation
MadeWith(i, before, evidence) ==
    /\ before.scope # {} /\ before.object = None
    /\ events[evidence].kind \in Adaptable
    /\ <<i, before.version>> \in events[evidence].used

AsProposed(change) ==
    LET after == change.after
        p == change.proposal
    IN  /\ p.evidence = after.evidence
        /\ p.id = after.feedback
        /\ p.at >= events[after.evidence].at
        /\ p.operation # "reject" => p.context = events[after.evidence].context
        /\ IF p.operation = "add" THEN change.before = {} /\ p.target = 0
           ELSE \E before \in change.before : p.target = change.item /\ p.expected = before.version
        /\ after.active <=> p.operation # "reject"
        /\ after.active => p.value = after.value /\ p.scope = after.scope

Begins(after) ==
    after.version = 1 /\ after.active /\ after.context = events[after.evidence].context

Follows(i, before, after) ==
    LET evidence == events[after.evidence]
    IN  /\ before.context = after.context
        /\ Target(before.value) = Target(after.value)
        /\ before.confirmedAt <= after.confirmedAt
        /\ before.object = after.object
        /\ IF after.active
           THEN /\ before.evidence # after.evidence
                /\ evidence.at >= before.confirmedAt
                /\ before.context # evidence.context =>
                      before.scope = after.scope /\ MadeWith(i, before, after.evidence)
           ELSE /\ before.evidence = after.evidence
                /\ before.value = after.value
                /\ before.scope = after.scope

HistorySavable ==
    /\ \A n \in DOMAIN changes :
          LET change == changes[n]
          IN  /\ change.before = Before(n, change.item)
              /\ Provenance(change.after)
              /\ AsProposed(change)
              /\ IF change.before = {} THEN Begins(change.after)
                 ELSE \A before \in change.before : Follows(change.item, before, change.after)
    /\ \A n \in 2..Len(changes) : changes[n - 1].after.confirmedAt <= changes[n].after.confirmedAt
    /\ \A i \in DOMAIN items : Before(Len(changes) + 1, i) = {items[i]}

\* A proposal is checked against the version it was made about.
PendingSavable(p) ==
    LET evidence == events[p.evidence]
        reject == p.operation = "reject"
    IN  /\ reject \/ p.context = evidence.context
        /\ p.at >= evidence.at
        /\ p.id # p.evidence
        /\ evidence.object # None => p.scope = {}
        /\ p.operation # "add" =>
            \E target \in Historical(<<p.target, p.expected>>) :
                /\ target.active
                /\ ~reject /\ target.context # p.context =>
                      target.scope = p.scope /\ MadeWith(p.target, target, p.evidence)
                /\ IF reject THEN p.evidence = target.evidence
                   ELSE /\ Target(p.value) = Target(target.value)
                        /\ p.evidence # target.evidence
                        /\ evidence.at >= target.confirmedAt

UsageSavable(n) ==
    /\ \A version \in events[n].used : \E item \in Historical(version) :
          /\ item.active
          /\ item.confirmedAt <= events[n].at
          /\ item.scope = {} => item.context = events[n].context
    /\ \A v, w \in events[n].used : v # w =>
          \A i \in Historical(v), j \in Historical(w) : Target(i.value) # Target(j.value)

Savable ==
    /\ HistorySavable
    /\ \A p \in pending : PendingSavable(p)
    /\ \A n \in DOMAIN events : UsageSavable(n)

Next == NewContext \/ \E t \in Time : Input(t)

Spec == Init /\ [][Next]_vars

------------------------------------------------------------------------------
\* What is held, and the open proposal, as module ConfirmedChange sees them.
Fact(value, scope) == <<value, scope>>
Held == {[key |-> <<i, items[i].version>>, fact |-> Fact(items[i].value, items[i].scope),
          proposed |-> items[i].feedback, confirmed |-> items[i].confirmation] :
         i \in {j \in DOMAIN items : items[j].active}}
Open == {[by |-> p.id, fact |-> Fact(p.value, p.scope), expires |-> p.expires,
          over |-> IF p.target = 0 THEN {} ELSE {<<p.target, p.expected>>}] : p \in pending}

Promise == INSTANCE ConfirmedChange WITH
    Keys <- Versions, Facts <- Values \X (SUBSET Topics), DirectWithdrawal <- FALSE,
    inputs <- Len(events), now <- Now, open <- Open, held <- Held

\* No experience applies, changes or ends but by a reaction of the counterpart
\* and another, later input that confirms it in time, about the version it has
\* then (apply_experience_change and _resolve_experience_pending).
ConfirmedSeparately == Promise!Spec

\* What waits for its confirmation stays confirmable: the validation that
\* _resolve_experience_pending repeats cannot fail, whatever was said since.
PendingStaysValid == \A p \in pending : Valid(p)

\* An experience rests on the reply that its reaction was about: the last one
\* the counterpart could read in that dialogue, with no other reply or refusal
\* in between; reaction and confirmation follow in the same dialogue
\* (_current_experience_evidence, and the context checks of Stage16Memory).
EvidenceIsTheLastReply ==
    \A i \in {j \in DOMAIN items : items[j].active} :
        LET item == items[i]
            evidence == events[item.evidence]
        IN  /\ item.evidence < item.feedback
            /\ item.feedback < item.confirmation
            /\ evidence.context = events[item.feedback].context
            /\ evidence.context = events[item.confirmation].context
            /\ evidence.kind # "capability" =>
                \A n \in item.evidence + 1..item.feedback - 1 :
                    events[n].kind \notin Adaptable \cup {"refusal"}

\* In another dialogue than its own, an experience is only changed by a reaction
\* to a reply that was made with it, and keeps its topics and its own dialogue
\* (_has_cross_context_observation).
HomeIsKept ==
    [][\A i \in DOMAIN items :
        LET item == items[i]
        IN  /\ items'[i].context = item.context
            /\ items'[i] # item /\ items'[i].active /\ context # item.context =>
                /\ items'[i].scope = item.scope
                /\ <<i, item.version>> \in events[items'[i].evidence].used]_vars

\* Whatever the counterpart says, in any order, leads to what the next
\* checkpoint accepts and the next start can read: the rules by which Memory
\* changes and those by which the snapshot is validated are written twice and
\* agree (apply_experience_change and _validate_experience_information).  A
\* disagreement would make every later save, and the next start, fail.
EveryStateCanBeSaved == Savable

\* "Ask first" is kept, and asks once: a reply under such an experience directly
\* follows the released question of the same version, in the same dialogue
\* (Stage16Judgment._select and _validated_confirmation_exchange).
AskFirstIsKept ==
    \A n \in DOMAIN events :
        events[n].kind = "reply" /\ events[n].asking # {} =>
            \E m \in 1..n - 1 :
                /\ events[m].kind = "clarification"
                /\ events[m].asking = events[n].asking
                /\ events[m].context = events[n].context
                /\ \A k \in m + 1..n - 1 : events[k].kind = "capability"
==============================================================================
