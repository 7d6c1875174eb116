------------------------- MODULE RelationshipChanges -------------------------
(***************************************************************************)
(* How the counterpart's preferences, agreements and considerations come   *)
(* to hold.  A command of the counterpart becomes one change request;      *)
(* Relationship decides it, and keeps a record of every outcome.           *)
(*                                                                         *)
(* Every request comes from an input of its own, so a request is its place *)
(* in the history: the lifecycle, the source reference and the identifiers *)
(* made for it are all named by it.  Items, requests and records are saved *)
(* in one checkpoint (module LifeContinuity) and a restart restores them   *)
(* as they were.  Kind, content and scope of an item are one value here.   *)
(***************************************************************************)
EXTENDS Integers, FiniteSets, Sequences

CONSTANTS
    Contents,   \* what an item can say, its kind and its scope included
    Ttl,        \* _relationship_confirmation_ttl_seconds
    MaxTime,    \* bound: the clock
    Limits,     \* the valid_until a command may name, Never for none
    MaxChanges, \* bound: change requests
    MaxRefused  \* bound: those among them that change nothing

Time == 0..MaxTime
Never == MaxTime + 1              \* no valid_until

ASSUME ChangeBounds ==
    /\ Ttl \in Nat \ {0}
    /\ MaxTime \in Nat
    /\ Limits \subseteq Time \cup {Never}
    /\ MaxChanges \in Nat
    /\ MaxRefused \in Nat

VARIABLES
    items,    \* _relationship_items, in the order they were made
    pending,  \* _relationship_pending of the counterpart
    changes   \* _relationship_changes

vars == <<items, pending, changes>>

Requests == 1..MaxChanges
Operations == {"add", "correct", "withdraw", "confirm", "cancel", "invalid"}
Statuses == {"required", "completed", "cancelled", "rejected", "not_found", "stale"}

Item == [content : Contents, version : Nat \ {0}, active : BOOLEAN,
         sources : Seq(Requests), confirmation : Requests,
         from : Time, until : Limits, confirmedAt : Time]

\* target 0: an addition
Pending == [id : Requests, content : Contents, target : Nat, expected : Nat,
            until : Limits, at : Time, expires : Nat]

\* before and after are versions of the target, 0 for none.
Change == [operation : Operations, status : Statuses, target : Nat, before : Nat,
           after : Nat, pending : 0..MaxChanges, at : Time]

TypeOK ==
    /\ items \in Seq(Item)
    /\ pending \subseteq Pending
    /\ changes \in Seq(Change)
    /\ Len(changes) <= MaxChanges
    /\ \A p, q \in pending : p = q
    /\ \A p \in pending : p.id <= Len(changes) /\ p.target <= Len(items)

Effective(item, t) == /\ item.active
                      /\ item.confirmedAt <= t
                      /\ item.from <= t
                      /\ t < item.until

Now == IF changes = <<>> THEN 0 ELSE changes[Len(changes)].at
This == Len(changes) + 1
Least(a, b) == IF a <= b THEN a ELSE b

Init == items = <<>> /\ pending = {} /\ changes = <<>>

------------------------------------------------------------------------------
\* A request that precedes the history raises and leaves no trace.
Received(t) == t \in Time /\ t >= Now /\ Len(changes) < MaxChanges

Record(t, operation, status, target, before, after, id) ==
    changes' = Append(changes, [operation |-> operation, status |-> status, target |-> target,
                                before |-> before, after |-> after, pending |-> id, at |-> t])

Refused == {n \in DOMAIN changes :
    \/ changes[n].status \in {"rejected", "not_found"}
    \/ changes[n].status = "stale" /\ changes[n].pending = 0}

Refuse(t, operation, status, target, before, id) ==
    /\ Cardinality(Refused) < MaxRefused
    /\ Record(t, operation, status, target, before, 0, id)
    /\ UNCHANGED <<items, pending>>

\* Not understood: _parse raised.
Invalid(t) == Received(t) /\ Refuse(t, "invalid", "rejected", 0, 0, 0)

\* The target of a correction or a withdrawal.  The command names the version
\* its target has now, so it is stale only when the target is withdrawn.
Missing(t, operation, i) ==
    /\ Received(t)
    /\ i \notin DOMAIN items
    /\ Refuse(t, operation, "not_found", i, 0, 0)

Outdated(t, operation, i) ==
    /\ Received(t)
    /\ i \in DOMAIN items
    /\ ~items[i].active
    /\ Refuse(t, operation, "stale", i, items[i].version, 0)

\* Faulty variant of Withdrawn: the version stays.
WithdrawnSilently(item) == [item EXCEPT !.active = FALSE]

Withdrawn(item) == [item EXCEPT !.version = @ + 1, !.active = FALSE]

\* At once, and also while a change of the item waits for its confirmation.
Withdraw(t, i) ==
    /\ Received(t)
    /\ i \in DOMAIN items
    /\ items[i].active
    /\ items' = [items EXCEPT ![i] = Withdrawn(@)]
    /\ Record(t, "withdraw", "completed", i, items[i].version, Withdrawn(items[i]).version, 0)
    /\ UNCHANGED pending

\* target 0 is an addition.
Version(target) == IF target = 0 THEN 0 ELSE items[target].version

Operation(target) == IF target = 0 THEN "add" ELSE "correct"

Proposable(target) == target # 0 => target \in DOMAIN items /\ items[target].active

Duplicate(t, content) ==
    \E i \in DOMAIN items : Effective(items[i], t) /\ items[i].content = content

\* One proposal at a time; an expired one still has to be resolved first.
Blocked(t, target) ==
    /\ Received(t)
    /\ Proposable(target)
    /\ \E p \in pending : Refuse(t, Operation(target), "rejected", target, Version(target), p.id)

Pointless(t, target, content, until) ==
    /\ Received(t)
    /\ Proposable(target)
    /\ pending = {}
    /\ \/ until <= t
       \/ target = 0 /\ Duplicate(t, content)
    /\ Refuse(t, Operation(target), "rejected", target, Version(target), 0)

Propose(t, target, content, until) ==
    /\ Received(t)
    /\ Proposable(target)
    /\ pending = {}
    /\ t < until
    /\ target = 0 => ~Duplicate(t, content)
    /\ pending' = {[id |-> This, content |-> content, target |-> target,
                    expected |-> Version(target), until |-> until, at |-> t,
                    expires |-> IF until = Never THEN t + Ttl ELSE Least(t + Ttl, until)]}
    /\ Record(t, Operation(target), "required", target, Version(target), 0, This)
    /\ UNCHANGED items

------------------------------------------------------------------------------
\* The answer to a proposal, by the identifier the command names or, without
\* one, by the identifier of the proposal that waits.
Unknown(t, operation, id) ==
    /\ Received(t)
    /\ \A p \in pending : p.id # id
    /\ Refuse(t, operation, "not_found", 0, 0, 0)

Cancel(t) ==
    /\ Received(t)
    /\ \E p \in pending : Record(t, "cancel", "cancelled", 0, 0, 0, p.id)
    /\ pending' = {}
    /\ UNCHANGED items

\* Faulty variant of InTime: the last instant counts.
InTimeInclusive(p, t) == t <= p.expires

InTime(p, t) == t < p.expires

\* Faulty variant of StillApplies: only looks whether the target exists.
StillExists(p) == p.target # 0 => p.target \in DOMAIN items

\* The target is what the proposal was made about.
StillApplies(p) ==
    p.target # 0 => /\ p.target \in DOMAIN items
                    /\ items[p.target].active
                    /\ items[p.target].version = p.expected

Expire(t) ==
    /\ Received(t)
    /\ \E p \in pending : ~InTime(p, t) /\ Record(t, "confirm", "stale", 0, 0, 0, p.id)
    /\ pending' = {}
    /\ UNCHANGED items

Overtaken(t) ==
    /\ Received(t)
    /\ \E p \in pending :
        /\ InTime(p, t)
        /\ ~StillApplies(p)
        /\ Record(t, "confirm", "stale", p.target, Version(p.target), 0, p.id)
    /\ pending' = {}
    /\ UNCHANGED items

Confirmed(p, t) ==
    [content |-> p.content, version |-> Version(p.target) + 1, active |-> TRUE,
     sources |-> Append(IF p.target = 0 THEN <<>> ELSE items[p.target].sources, p.id),
     confirmation |-> This, from |-> p.at, until |-> p.until, confirmedAt |-> t]

Confirm(t) ==
    /\ Received(t)
    /\ \E p \in pending :
        /\ InTime(p, t)
        /\ StillApplies(p)
        /\ items' = IF p.target = 0 THEN Append(items, Confirmed(p, t))
                    ELSE [items EXCEPT ![p.target] = Confirmed(p, t)]
        /\ Record(t, "confirm", "completed", IF p.target = 0 THEN Len(items) + 1 ELSE p.target,
                  Version(p.target), Version(p.target) + 1, p.id)
    /\ pending' = {}

------------------------------------------------------------------------------
\* Len(items) + 1 names an item that does not exist.
Answer(t) ==
    \/ Invalid(t)
    \/ \E i \in 1..Len(items) + 1, operation \in {"correct", "withdraw"} :
        Missing(t, operation, i) \/ Outdated(t, operation, i)
    \/ \E i \in 1..Len(items) : Withdraw(t, i)
    \/ \E target \in 0..Len(items) : Blocked(t, target)
    \/ \E target \in 0..Len(items), content \in Contents, until \in Limits :
        Pointless(t, target, content, until) \/ Propose(t, target, content, until)
    \/ \E operation \in {"confirm", "cancel"}, id \in Requests \cup {0} : Unknown(t, operation, id)
    \/ Cancel(t)
    \/ Expire(t)
    \/ Overtaken(t)
    \/ Confirm(t)

Next == \E t \in Time : Answer(t)

Spec == Init /\ [][Next]_vars

------------------------------------------------------------------------------
\* What is held, and the open proposal, as module ConfirmedChange sees them.
Fact(content, until) == <<content, until>>
Held == {[key |-> <<i, items[i].version>>, fact |-> Fact(items[i].content, items[i].until),
          confirmed |-> items[i].confirmation,
          proposed |-> items[i].sources[Len(items[i].sources)]] :
         i \in {j \in DOMAIN items : items[j].active}}
Open == {[by |-> p.id, fact |-> Fact(p.content, p.until), expires |-> p.expires,
          over |-> IF p.target = 0 THEN {} ELSE {<<p.target, p.expected>>}] : p \in pending}

Promise == INSTANCE ConfirmedChange WITH
    Keys <- (Nat \ {0}) \X (Nat \ {0}), Facts <- Contents \X Limits,
    DirectWithdrawal <- TRUE,
    inputs <- Len(changes), now <- Now, open <- Open, held <- Held

\* Nothing is held but what one input proposed and a later one confirmed in
\* time, and a correction replaces the version it was made about and no other,
\* whatever was withdrawn while it waited (apply_relationship_change and
\* _resolve_pending).
ConfirmedSeparately == Promise!Spec

\* A withdrawn item is never changed again: neither a correction that waits for
\* its confirmation nor a new one brings it back (the version and status checks
\* of both methods).
WithdrawnStaysWithdrawn ==
    [][\A i \in DOMAIN items :
        ~items[i].active => i \in DOMAIN items' /\ items'[i] = items[i]]_vars

\* The records tell every version of every item: one completed change made
\* each of them from the one before, in order, and the last one says whether
\* it was withdrawn (_record, and the version each branch writes).
HistoryExplainsItems ==
    /\ \A n \in DOMAIN changes : changes[n].after # 0 => changes[n].target \in DOMAIN items
    /\ \A i \in DOMAIN items :
        LET made == [v \in 1..items[i].version |->
                        {n \in DOMAIN changes : changes[n].target = i /\ changes[n].after = v}]
        IN  /\ \A v \in DOMAIN made : Cardinality(made[v]) = 1
            /\ \A v, w \in DOMAIN made : \A m \in made[v], n \in made[w] : v < w => m < n
            /\ \A n \in made[items[i].version] :
                (changes[n].operation = "withdraw") = ~items[i].active
==============================================================================
