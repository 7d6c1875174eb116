----------------------- MODULE ExperienceDialogue_proofs -----------------------
(***************************************************************************)
(* Theorems about ExperienceDialogue, for every set of topics, objects and *)
(* values, every time to live and every number of inputs: the types, what  *)
(* an experience rests on, that what waits stays confirmable, that "ask    *)
(* first" is kept, that every state can be saved, and the refinement of    *)
(* ConfirmedChange.                                                        *)
(*                                                                         *)
(* Events only grow and their contexts do not go back (EventsInv), so what *)
(* was the last reply of a dialogue at a reaction stays what it was.  The  *)
(* last record of an item is the item itself, and no record is of a        *)
(* version it does not have yet (RecordsInv); so a version that was used,  *)
(* or that a proposal is about, keeps naming the same record.  Only        *)
(* resolving a proposal changes an item, and it ends the proposal: what    *)
(* was valid when it was proposed is valid (PendingInv).                   *)
(***************************************************************************)
EXTENDS ExperienceDialogue, FiniteSetTheorems, SequenceTheorems, WellFoundedInduction, TLAPS

------------------------------------------------------------------------------
(* The inductive invariant *)

TypeInv ==
    /\ events \in Seq(Event)
    /\ Len(events) <= MaxEvents
    /\ items \in Seq(Item)
    /\ changes \in Seq(Change)
    /\ Len(changes) <= Len(events)
    /\ pending \subseteq Pending
    /\ \A p, q \in pending : p = q
    /\ context \in 1..MaxContexts

\* Contexts do not go back; capability results are what is about an object.
EventInv(n) ==
    /\ events[n].context <= context
    /\ events[n].object # None <=> events[n].kind = "capability"
    /\ Cardinality(events[n].used) <= 2
    /\ \A v, w \in events[n].asking : v = w
EventsInv ==
    /\ \A n \in DOMAIN events : EventInv(n)
    /\ \A m, n \in Inputs : m <= n => events[m].at <= events[n].at
    /\ \A m, n \in DOMAIN events : m < n => events[m].context <= events[n].context

\* An experience rests on the last reply before the reaction to it.
LastBefore(evidence, feedback) ==
    events[evidence].kind # "capability" =>
        \A n \in evidence + 1..feedback - 1 : events[n].kind \notin Adaptable \cup {"refusal"}
ItemInv(item) ==
    /\ {item.evidence, item.feedback, item.confirmation} \subseteq DOMAIN events
    /\ item.evidence < item.feedback
    /\ item.feedback < item.confirmation
    /\ item.confirmedAt <= Now
    /\ item.object # None => item.scope = {}
    /\ Provenance(item)
    /\ item.active => /\ events[item.evidence].context = events[item.feedback].context
                      /\ events[item.evidence].context = events[item.confirmation].context
                      /\ LastBefore(item.evidence, item.feedback)
ItemsInv == \A i \in DOMAIN items : ItemInv(items[i])

\* Records are of versions the item has or had, the last one is the item.
RecordInv(change) ==
    /\ change.item \in DOMAIN items
    /\ change.after.version <= items[change.item].version
    /\ change.after.version = items[change.item].version => change.after = items[change.item]
    /\ change.after.evidence \in DOMAIN events
    /\ change.after.confirmedAt <= Now
RecordsInv ==
    /\ \A n \in DOMAIN changes : RecordInv(changes[n])
    /\ \A i \in DOMAIN items : \E n \in DOMAIN changes : changes[n].item = i /\ changes[n].after = items[i]

PendingPlace(p) ==
    /\ p.id \in DOMAIN events
    /\ p.evidence < p.id
    /\ events[p.id].context = p.context
    /\ p.at >= events[p.evidence].at
    /\ p.at <= Now
    /\ p.operation = "add" <=> p.target = 0
    /\ events[p.evidence].object # None => p.scope = {}
    /\ p.operation # "reject" => /\ events[p.evidence].kind \in Adaptable \cup {"capability"}
                                 /\ LastBefore(p.evidence, p.id)
PendingInv == \A p \in pending : PendingPlace(p) /\ Valid(p)

UsageInv == \A n \in DOMAIN events : UsageSavable(n)

IInv ==
    /\ TypeInv
    /\ EventsInv
    /\ ItemsInv
    /\ RecordsInv
    /\ HistorySavable
    /\ PendingInv
    /\ UsageInv
    /\ AskFirstIsKept

------------------------------------------------------------------------------
(* Places, and the time *)

LEMMA Bounds ==
    /\ MaxTime \in Nat /\ MaxContexts \in Nat \ {0} /\ MaxEvents \in Nat /\ Ttl \in Nat \ {0}
    /\ \A value \in Values : value \in {"brief", "detailed", "ask_first", "respond_normally"}
    /\ None \notin Objects
    /\ Time \subseteq Nat
    BY DialogueBounds DEF Time

LEMMA Shape ==
    ASSUME TypeInv
    PROVE  /\ Len(events) \in Nat /\ DOMAIN events = 1..Len(events)
           /\ \A n \in 1..Len(events) : events[n] \in Event
           /\ Len(items) \in Nat /\ DOMAIN items = 1..Len(items)
           /\ \A i \in 1..Len(items) : items[i] \in Item
           /\ Len(changes) \in Nat /\ DOMAIN changes = 1..Len(changes)
           /\ \A n \in 1..Len(changes) : changes[n] \in Change
           /\ \A p \in pending : p \in Pending
           /\ This \in Nat \ {0} /\ This \notin DOMAIN events
<1>1. /\ Len(events) \in Nat /\ DOMAIN events = 1..Len(events)
      /\ \A n \in 1..Len(events) : events[n] \in Event
    BY LenProperties, ElementOfSeq DEF TypeInv
<1>2. /\ Len(items) \in Nat /\ DOMAIN items = 1..Len(items)
      /\ \A i \in 1..Len(items) : items[i] \in Item
    BY LenProperties, ElementOfSeq DEF TypeInv
<1>3. /\ Len(changes) \in Nat /\ DOMAIN changes = 1..Len(changes)
      /\ \A n \in 1..Len(changes) : changes[n] \in Change
    BY LenProperties, ElementOfSeq DEF TypeInv
<1>4. This \in Nat \ {0} /\ This \notin DOMAIN events
    BY <1>1 DEF This
<1>5. \A p \in pending : p \in Pending
    BY DEF TypeInv
<1> QED
    BY <1>1, <1>2, <1>3, <1>4, <1>5

\* A set of places that is not empty has a greatest one.
LEMMA Greatest ==
    ASSUME NEW n \in Nat, NEW S \in SUBSET (1..n), S # {}
    PROVE  /\ Max(S) \in S
           /\ \A m \in S : m <= Max(S)
<1> DEFINE R == OpToRel(<, Nat)
           Mirror == {n - m : m \in S}
<1>1. \A a, b \in Nat : <<a, b>> \in R <=> a < b
    BY DEF OpToRel
<1>2. IsWellFoundedOn(R, Nat)
    BY NatLessThanWellFounded
<1>3. Mirror \subseteq Nat /\ Mirror # {}
    OBVIOUS
<1> HIDE DEF R, Mirror
<1>4. PICK x \in Mirror : \A y \in Mirror : ~(<<y, x>> \in R)
    BY <1>2, <1>3, WFMin
<1>5. PICK k \in S : x = n - k
    BY DEF Mirror
<1>6. ASSUME NEW m \in S
      PROVE  m <= k
    <2>1. n - m \in Mirror /\ n - m \in Nat /\ n - k \in Nat
        BY DEF Mirror
    <2>2. ~(n - m < n - k)
        BY <1>1, <1>4, <1>5, <2>1
    <2>3. m \in Int /\ k \in Int
        OBVIOUS
    <2> QED
        BY <2>2, <2>3
<1>7. \A m \in S : k >= m
    <2> TAKE m \in S
    <2>1. m \in Int /\ k \in Int /\ m <= k
        BY <1>6
    <2> QED
        BY <2>1
<1>8. Max(S) \in S /\ \A m \in S : Max(S) >= m
    BY <1>7 DEF Max
<1> QED
    BY <1>8

\* The time of the last input is no earlier than that of any.
LEMMA NowProperties ==
    ASSUME TypeInv, EventsInv
    PROVE  /\ Now \in Nat
           /\ \A n \in Inputs : events[n].at <= Now
           /\ Now = 0 \/ \E n \in Inputs : Now = events[n].at
<1>1. /\ Inputs \in SUBSET (1..Len(events))
      /\ \A n \in Inputs : events[n].at \in Nat
    BY Shape, Bounds DEF Inputs, Event
<1>2. CASE Inputs = {}
    BY <1>2 DEF Now
<1>3. CASE Inputs # {}
    <2>1. /\ Max(Inputs) \in Inputs
          /\ \A n \in Inputs : n <= Max(Inputs)
        BY <1>1, <1>3, Shape, Greatest
    <2>2. Now = events[Max(Inputs)].at
        BY <1>3 DEF Now
    <2>3. ASSUME NEW n \in Inputs
          PROVE  events[n].at <= Now
        <3>1. n <= Max(Inputs)
            BY <2>1
        <3> QED
            BY <1>1, <2>1, <2>2, <3>1 DEF EventsInv
    <2> QED
        BY <1>1, <2>1, <2>2, <2>3
<1> QED
    BY <1>2, <1>3

------------------------------------------------------------------------------
(* One more event *)

\* The kinds and parts an event can be given.
Fits(t, kind, used, asking, object) ==
    /\ t \in Time
    /\ kind \in Kinds
    /\ used \in SUBSET Versions /\ asking \in SUBSET Versions
    /\ Cardinality(used) <= 2
    /\ \A v, w \in asking : v = w
    /\ object \in Objects \cup {None}
    /\ object # None <=> kind = "capability"
    /\ kind # "capability" => t >= Now

LEMMA Happened ==
    ASSUME TypeInv, Len(events) < MaxEvents,
           NEW t, NEW kind, NEW used, NEW asking, NEW object, Fits(t, kind, used, asking, object),
           Happens(t, kind, used, asking, object)
    PROVE  /\ events' \in Seq(Event)
           /\ Len(events') = Len(events) + 1
           /\ Len(events') <= MaxEvents
           /\ DOMAIN events' = 1..(Len(events) + 1)
           /\ \A n \in DOMAIN events' : n \in DOMAIN events \/ n = This
           /\ This \in DOMAIN events' /\ This = Len(events) + 1 /\ This \in 1..MaxEvents
           /\ \A n \in DOMAIN events : n \in DOMAIN events' /\ events'[n] = events[n] /\ n < This
           /\ events'[This].kind = kind
           /\ events'[This].context = context
           /\ events'[This].at = t
           /\ events'[This].used = used
           /\ events'[This].asking = asking
           /\ events'[This].object = object
<1> DEFINE event == [kind |-> kind, context |-> context, at |-> t, used |-> used,
                     asking |-> asking, object |-> object]
<1>1. /\ event \in Event
      /\ event.kind = kind /\ event.context = context /\ event.at = t
      /\ event.used = used /\ event.asking = asking /\ event.object = object
    BY DEF Fits, Event, TypeInv
<1>2. events' = Append(events, event)
    BY DEF Happens
<1> HIDE DEF event
<1>3. /\ events' \in Seq(Event)
      /\ Len(events') = Len(events) + 1
      /\ \A n \in 1..Len(events) : events'[n] = events[n]
      /\ events'[Len(events) + 1] = event
    BY <1>1, <1>2, AppendProperties DEF TypeInv
<1>4. DOMAIN events' = 1..(Len(events) + 1)
    BY <1>3, LenProperties
<1>5. Len(events) \in Nat /\ DOMAIN events = 1..Len(events) /\ This = Len(events) + 1
    BY Shape DEF This
<1>6. /\ Len(events') <= MaxEvents /\ This \in 1..MaxEvents
      /\ \A n \in DOMAIN events' : n \in DOMAIN events \/ n = This
      /\ \A n \in DOMAIN events : n \in DOMAIN events' /\ n < This
    BY <1>3, <1>4, <1>5, Bounds
<1> QED
    BY <1>1, <1>3, <1>4, <1>5, <1>6

\* The last input is this one, or the last one before a capability result.
LEMMA TimePasses ==
    ASSUME TypeInv, EventsInv, Len(events) < MaxEvents,
           NEW t, NEW kind, NEW used, NEW asking, NEW object, Fits(t, kind, used, asking, object),
           Happens(t, kind, used, asking, object)
    PROVE  /\ Now' = IF kind = "capability" THEN Now ELSE t
           /\ Now <= Now'
           /\ Now' \in Nat
           /\ Inputs' = IF kind = "capability" THEN Inputs ELSE Inputs \cup {This}
<1>1. /\ \A n \in DOMAIN events' : n \in DOMAIN events \/ n = This
      /\ This \in DOMAIN events' /\ This = Len(events) + 1
      /\ \A n \in DOMAIN events : n \in DOMAIN events' /\ events'[n] = events[n] /\ n < This
      /\ events'[This].kind = kind /\ events'[This].at = t
    BY Happened
<1>2. Inputs' = IF kind = "capability" THEN Inputs ELSE Inputs \cup {This}
    BY <1>1 DEF Inputs
<1>3. Inputs \in SUBSET (1..Len(events)) /\ This \in Nat /\ Len(events) \in Nat
    BY Shape DEF Inputs
<1>4. Now \in Nat /\ t \in Nat
    BY NowProperties, Bounds DEF Fits
<1>5. CASE kind = "capability"
    <2>1. Inputs' = Inputs
        BY <1>2, <1>5
    <2>2. Inputs # {} => Max(Inputs) \in DOMAIN events
        BY <1>3, Greatest, Shape
    <2>3. Now' = Now
        BY <1>1, <2>1, <2>2 DEF Now
    <2> QED
        BY <1>2, <1>4, <1>5, <2>3
<1>6. CASE kind # "capability"
    <2>1. Inputs' = Inputs \cup {This} /\ Inputs' # {}
        BY <1>2, <1>6
    <2>2. /\ Inputs' \in SUBSET (1..This)
          /\ \A m \in Inputs' : m <= This
        BY <1>1, <1>3, <2>1
    <2>3. Max(Inputs') \in Inputs' /\ This <= Max(Inputs')
        BY <1>3, <2>1, <2>2, Greatest
    <2>4. Max(Inputs') = This
        <3>1. \A n \in Inputs' : n \in Nat /\ n <= This
            BY <1>3, <2>2
        <3>2. \A n \in Inputs' : This <= n => n = This
            BY <1>3, <3>1
        <3> QED
            BY <2>3, <3>2
    <2>5. Now' = t
        BY <1>1, <2>1, <2>4 DEF Now
    <2> QED
        BY <1>2, <1>4, <1>6, <2>5 DEF Fits
<1> QED
    BY <1>5, <1>6

LEMMA EventsStep ==
    ASSUME TypeInv, EventsInv, Len(events) < MaxEvents, context' = context,
           NEW t, NEW kind, NEW used, NEW asking, NEW object, Fits(t, kind, used, asking, object),
           Happens(t, kind, used, asking, object)
    PROVE  EventsInv'
<1>1. /\ \A n \in DOMAIN events' : n \in DOMAIN events \/ n = This
      /\ \A n \in DOMAIN events : n \in DOMAIN events' /\ events'[n] = events[n] /\ n < This
      /\ events'[This].kind = kind /\ events'[This].at = t
      /\ events'[This].context = context /\ events'[This].object = object
      /\ events'[This].used = used /\ events'[This].asking = asking
    BY Happened
<1>2. context \in Nat /\ This \in Nat
    BY Shape DEF TypeInv
<1>3. ASSUME NEW n \in DOMAIN events'
      PROVE  EventInv(n)'
    <2>1. CASE n \in DOMAIN events
        BY <1>1, <2>1 DEF EventsInv, EventInv
    <2>2. CASE n = This
        BY <1>1, <1>2, <2>2 DEF EventInv, Fits
    <2> QED
        BY <1>1, <2>1, <2>2
<1>4. ASSUME NEW m \in DOMAIN events', NEW n \in DOMAIN events', m < n
      PROVE  events'[m].context <= events'[n].context
    <2>1. m \in DOMAIN events
        BY <1>1, <1>2, <1>4
    <2>2. CASE n \in DOMAIN events
        BY <1>1, <1>4, <2>1, <2>2 DEF EventsInv
    <2>3. CASE n = This
        BY <1>1, <2>1, <2>3 DEF EventsInv, EventInv
    <2> QED
        BY <1>1, <2>2, <2>3
<1>5. ASSUME NEW m \in Inputs', NEW n \in Inputs', m <= n
      PROVE  events'[m].at <= events'[n].at
    <2>1. /\ Inputs' = IF kind = "capability" THEN Inputs ELSE Inputs \cup {This}
          /\ Inputs \subseteq DOMAIN events
        BY TimePasses DEF Inputs
    <2>2. CASE m \in Inputs /\ n \in Inputs
        BY <1>1, <1>5, <2>1, <2>2 DEF EventsInv
    <2>3. CASE m \in Inputs /\ n = This /\ kind # "capability"
        <3>1. /\ events[m].at <= Now /\ Now <= t
              /\ Now \in Nat /\ t \in Nat /\ events[m].at \in Nat
            BY <2>1, <2>3, NowProperties, Bounds, Shape DEF Fits, Event
        <3> QED
            BY <1>1, <2>1, <2>3, <3>1
    <2>4. CASE m = This /\ kind # "capability"
        <3>1. n = This
            BY <1>1, <1>2, <1>5, <2>1, <2>4, Shape
        <3>2. t \in Nat
            BY Bounds DEF Fits
        <3> QED
            BY <1>1, <2>4, <3>1, <3>2
    <2> QED
        BY <2>1, <2>2, <2>3, <2>4
<1> QED
    BY <1>3, <1>4, <1>5 DEF EventsInv

------------------------------------------------------------------------------
(* What an event leaves as it is *)

\* Events are not rewritten, and the time of inputs does not run back.
Grows ==
    /\ \A n \in DOMAIN events : n \in DOMAIN events' /\ events'[n] = events[n] /\ n < This
    /\ Now \in Nat /\ Now' \in Nat /\ Now <= Now'

LEMMA Growth ==
    ASSUME TypeInv, EventsInv, Len(events) < MaxEvents,
           NEW t, NEW kind, NEW used, NEW asking, NEW object, Fits(t, kind, used, asking, object),
           Happens(t, kind, used, asking, object)
    PROVE  Grows
<1>1. Now \in Nat
    BY NowProperties
<1> QED
    BY <1>1, Happened, TimePasses DEF Grows

LEMMA LastBeforeKept ==
    ASSUME TypeInv, Grows, NEW e \in DOMAIN events, NEW f \in DOMAIN events, LastBefore(e, f)
    PROVE  LastBefore(e, f)'
<1>1. \A n \in e + 1..f - 1 : n \in DOMAIN events
    BY Shape
<1> QED
    BY <1>1 DEF LastBefore, Grows

LEMMA ItemKept ==
    ASSUME TypeInv, Grows, NEW item \in Item, ItemInv(item)
    PROVE  ItemInv(item)'
<1>1. PICK e \in DOMAIN events, f \in DOMAIN events : e = item.evidence /\ f = item.feedback
    BY DEF ItemInv
<1>2. item.confirmation \in DOMAIN events
    BY DEF ItemInv
<1>3. item.active => LastBefore(e, f)'
    BY <1>1, LastBeforeKept DEF ItemInv
<1>4. item.confirmedAt \in Nat /\ item.confirmedAt <= Now'
    <2>1. item.confirmedAt \in Time
        BY DEF Item
    <2>2. item.confirmedAt <= Now
        BY DEF ItemInv
    <2>3. Now \in Nat /\ Now' \in Nat /\ Now <= Now'
        BY DEF Grows
    <2>4. item.confirmedAt \in Nat
        BY <2>1, Bounds
    <2> QED
        BY <2>2, <2>3, <2>4
<1>5. Provenance(item)'
    BY <1>1 DEF ItemInv, Provenance, Grows
<1> QED
    BY <1>1, <1>2, <1>3, <1>4, <1>5 DEF ItemInv, Grows

LEMMA ItemsKept ==
    ASSUME TypeInv, ItemsInv, Grows, items' = items
    PROVE  ItemsInv'
<1> SUFFICES ASSUME NEW i \in DOMAIN items
             PROVE  ItemInv(items[i])'
    BY DEF ItemsInv
<1>1. PICK item \in Item : item = items[i]
    BY Shape
<1>2. ItemInv(item)
    BY <1>1 DEF ItemsInv
<1>3. ItemInv(item)'
    BY <1>2, ItemKept
<1> QED
    BY <1>1, <1>3 DEF ItemInv, Provenance, LastBefore

LEMMA RecordsKept ==
    ASSUME TypeInv, RecordsInv, Grows, items' = items, changes' = changes
    PROVE  RecordsInv'
<1>1. ASSUME NEW n \in DOMAIN changes
      PROVE  RecordInv(changes[n])'
    <2>1. changes[n].after.confirmedAt \in Nat
        BY Shape, Bounds DEF Change, Item
    <2> QED
        BY <2>1 DEF RecordsInv, RecordInv, Grows
<1> QED
    BY <1>1 DEF RecordsInv

\* What HistorySavable asks of one change.
ChangeSavable(n) ==
    LET change == changes[n]
    IN  /\ change.before = Before(n, change.item)
        /\ Provenance(change.after)
        /\ AsProposed(change)
        /\ IF change.before = {} THEN Begins(change.after)
           ELSE \A before \in change.before : Follows(change.item, before, change.after)

LEMMA HistoryParts ==
    HistorySavable <=>
        /\ \A n \in DOMAIN changes : ChangeSavable(n)
        /\ \A n \in 2..Len(changes) : changes[n - 1].after.confirmedAt <= changes[n].after.confirmedAt
        /\ \A i \in DOMAIN items : Before(Len(changes) + 1, i) = {items[i]}
    BY DEF HistorySavable, ChangeSavable

\* A change that could be saved can be saved with more events.
LEMMA ChangeKept ==
    ASSUME TypeInv, Grows, NEW n \in DOMAIN changes, ChangeSavable(n), RecordInv(changes[n]),
           n \in DOMAIN changes',
           \A k \in 1..n : changes'[k] = changes[k]
    PROVE  ChangeSavable(n)'
<1>1. PICK change : change = changes[n] /\ change = changes'[n]
    <2>1. n \in 1..n
        BY Shape
    <2> QED
        BY <2>1
<1>2. PICK e \in DOMAIN events : e = change.after.evidence /\ e \in DOMAIN events' /\ events'[e] = events[e]
    BY <1>1 DEF RecordInv, Grows
<1>3. Before(n, change.item)' = Before(n, change.item)
    <2>1. \A k \in 1..n - 1 : changes'[k] = changes[k]
        BY Shape
    <2> QED
        BY <2>1 DEF Before, Last
<1>4. /\ change.before = Before(n, change.item)
      /\ Provenance(change.after)
      /\ AsProposed(change)
      /\ IF change.before = {} THEN Begins(change.after)
         ELSE \A before \in change.before : Follows(change.item, before, change.after)
    BY <1>1 DEF ChangeSavable
<1>5. Provenance(change.after)'
    BY <1>2, <1>4 DEF Provenance
<1>6. AsProposed(change)'
    BY <1>2, <1>4 DEF AsProposed
<1>7. Begins(change.after) => Begins(change.after)'
    BY <1>2 DEF Begins
<1>8. \A before : Follows(change.item, before, change.after) =>
                  Follows(change.item, before, change.after)'
    BY <1>2 DEF Follows, MadeWith
<1>9. IF change.before = {} THEN Begins(change.after)'
      ELSE \A before \in change.before : Follows(change.item, before, change.after)'
    BY <1>4, <1>7, <1>8
<1>10. change.before = Before(n, change.item)'
    BY <1>3, <1>4
<1>11. changes'[n].before = Before(n, changes[n].item)'
    BY <1>1, <1>10 DEF Before, Last
<1>12. Provenance(changes[n].after)'
    BY <1>1, <1>5 DEF Provenance
<1>13. AsProposed(changes[n])'
    BY <1>1, <1>6 DEF AsProposed
<1>14. changes'[n].before = {} => Begins(changes[n].after)'
    BY <1>1, <1>9 DEF Begins
<1>15. changes'[n].before # {} =>
           \A before \in changes'[n].before : Follows(changes[n].item, before, changes[n].after)'
    BY <1>1, <1>9 DEF Follows, MadeWith
<1> QED
    BY <1>11, <1>12, <1>13, <1>14, <1>15 DEF ChangeSavable

LEMMA HistoryKept ==
    ASSUME TypeInv, RecordsInv, HistorySavable, Grows, items' = items, changes' = changes
    PROVE  HistorySavable'
<1>1. \A n \in DOMAIN changes : ChangeSavable(n)'
    BY ChangeKept, HistoryParts DEF RecordsInv
<1>2. \A i \in DOMAIN items : (Before(Len(changes) + 1, i) = {items[i]})'
    BY HistoryParts DEF Before, Last
<1>3. \A n \in 2..Len(changes') : changes'[n - 1].after.confirmedAt <= changes'[n].after.confirmedAt
    BY HistoryParts
<1> QED
    BY <1>1, <1>2, <1>3 DEF HistorySavable, ChangeSavable

\* What UsageSavable asks of a version that was used, and of two of them.
Applied(version, at, home) ==
    \E item \in Historical(version) :
        /\ item.active
        /\ item.confirmedAt <= at
        /\ item.scope = {} => item.context = home
Apart(v, w) ==
    \A i \in Historical(v), j \in Historical(w) : Target(i.value) # Target(j.value)

LEMMA UsageParts ==
    ASSUME NEW n
    PROVE  UsageSavable(n) <=>
             /\ \A version \in events[n].used : Applied(version, events[n].at, events[n].context)
             /\ \A v, w \in events[n].used : v # w => Apart(v, w)
    BY DEF UsageSavable, Applied, Apart

LEMMA UsagePartsNext ==
    ASSUME NEW n, NEW used, NEW at, NEW home,
           events'[n].used = used, events'[n].at = at, events'[n].context = home,
           \A version \in used : Applied(version, at, home)',
           \A v, w \in used : v # w => Apart(v, w)'
    PROVE  UsageSavable(n)'
<1>1. \A version \in events'[n].used : Applied(version, events[n].at, events[n].context)'
    BY DEF Applied
<1>2. \A v, w \in events'[n].used : v # w => Apart(v, w)'
    OBVIOUS
<1> QED
    BY <1>1, <1>2 DEF UsageSavable, Applied, Apart

\* Usage is kept while the versions used keep naming the same records.
LEMMA UsageKept ==
    ASSUME UsageInv, Grows,
           \A n \in DOMAIN events : \A version \in events[n].used :
                Historical(version)' = Historical(version),
           NEW new, \A n \in DOMAIN events' : n \in DOMAIN events \/ n = new,
           UsageSavable(new)'
    PROVE  UsageInv'
<1>1. ASSUME NEW n \in DOMAIN events
      PROVE  UsageSavable(n)'
    <2>1. PICK used, at, home : used = events[n].used /\ at = events[n].at /\ home = events[n].context
        OBVIOUS
    <2>2. UsageSavable(n) /\ events'[n] = events[n]
        BY DEF UsageInv, Grows
    <2>3. ASSUME NEW version \in used
          PROVE  Applied(version, at, home)'
        <3>1. Applied(version, at, home)
            BY <2>1, <2>2, UsageParts
        <3>2. Historical(version)' = Historical(version)
            BY <2>1
        <3> QED
            BY <3>1, <3>2 DEF Applied
    <2>4. ASSUME NEW v \in used, NEW w \in used, v # w
          PROVE  Apart(v, w)'
        <3>1. Apart(v, w)
            BY <2>1, <2>2, <2>4, UsageParts
        <3>2. Historical(v)' = Historical(v) /\ Historical(w)' = Historical(w)
            BY <2>1
        <3> QED
            BY <3>1, <3>2 DEF Apart
    <2>5. events'[n].used = used /\ events'[n].at = at /\ events'[n].context = home
        BY <2>1, <2>2
    <2> HIDE <2>1
    <2> QED
        BY <2>3, <2>4, <2>5, UsagePartsNext
<1> QED
    BY <1>1 DEF UsageInv

LEMMA AskFirstGrows ==
    ASSUME TypeInv, AskFirstIsKept, Grows,
           \A n \in DOMAIN events' : n \in DOMAIN events \/ n = This,
           events'[This].kind = "reply" /\ events'[This].asking # {} =>
                \E m \in 1..This - 1 :
                    /\ events[m].kind = "clarification"
                    /\ events[m].asking = events'[This].asking
                    /\ events[m].context = events'[This].context
                    /\ \A k \in m + 1..This - 1 : events[k].kind = "capability"
    PROVE  AskFirstIsKept'
<1>1. DOMAIN events = 1..Len(events) /\ Len(events) \in Nat /\ This = Len(events) + 1
    BY Shape DEF This
<1>2. ASSUME NEW n \in DOMAIN events, events[n].kind = "reply" /\ events[n].asking # {}
      PROVE  \E m \in 1..n - 1 :
                /\ events'[m].kind = "clarification"
                /\ events'[m].asking = events'[n].asking
                /\ events'[m].context = events'[n].context
                /\ \A k \in m + 1..n - 1 : events'[k].kind = "capability"
    <2>1. PICK m \in 1..n - 1 :
                /\ events[m].kind = "clarification"
                /\ events[m].asking = events[n].asking
                /\ events[m].context = events[n].context
                /\ \A k \in m + 1..n - 1 : events[k].kind = "capability"
        BY <1>2 DEF AskFirstIsKept
    <2>2. m \in DOMAIN events /\ \A k \in m + 1..n - 1 : k \in DOMAIN events
        BY <1>1
    <2> QED
        BY <2>1, <2>2 DEF Grows
<1>3. ASSUME events'[This].kind = "reply" /\ events'[This].asking # {}
      PROVE  \E m \in 1..This - 1 :
                /\ events'[m].kind = "clarification"
                /\ events'[m].asking = events'[This].asking
                /\ events'[m].context = events'[This].context
                /\ \A k \in m + 1..This - 1 : events'[k].kind = "capability"
    <2>1. PICK m \in 1..This - 1 :
                /\ events[m].kind = "clarification"
                /\ events[m].asking = events'[This].asking
                /\ events[m].context = events'[This].context
                /\ \A k \in m + 1..This - 1 : events[k].kind = "capability"
        BY <1>3
    <2>2. m \in DOMAIN events /\ \A k \in m + 1..This - 1 : k \in DOMAIN events
        BY <1>1
    <2> QED
        BY <2>1, <2>2 DEF Grows
<1> QED
    BY <1>2, <1>3 DEF AskFirstIsKept, Grows

LEMMA ValidKept ==
    ASSUME Grows, items' = items, NEW p, p.evidence \in DOMAIN events, Valid(p)
    PROVE  Valid(p)'
<1>1. PICK e \in DOMAIN events : e = p.evidence /\ events'[e] = events[e]
    BY DEF Grows
<1>2. ValidTarget(p) <=> ValidTarget(p)'
    BY DEF ValidTarget
<1>3. ValidAddition(p) <=> ValidAddition(p)'
    BY <1>1 DEF ValidAddition
<1>4. ValidReassessment(p) <=> ValidReassessment(p)'
    BY <1>1 DEF ValidReassessment, CrossObserved
<1> QED
    BY <1>1, <1>2, <1>3, <1>4 DEF Valid

LEMMA ProposalKept ==
    ASSUME TypeInv, Grows, items' = items, NEW p \in Pending, PendingPlace(p), Valid(p)
    PROVE  PendingPlace(p)' /\ Valid(p)'
<1>1. PICK e \in DOMAIN events, f \in DOMAIN events :
         e = p.evidence /\ f = p.id /\ events'[e] = events[e] /\ events'[f] = events[f]
    <2>1. p.id \in DOMAIN events /\ p.evidence \in DOMAIN events
        BY Shape DEF PendingPlace, Pending
    <2> QED
        BY <2>1 DEF Grows
<1>2. LastBefore(e, f) => LastBefore(e, f)'
    BY LastBeforeKept
<1>3. PendingPlace(p)'
    <2>1. p.at <= Now' /\ p.at <= Now
        <3>1. p.at \in Nat
            BY Bounds DEF Pending
        <3>2. p.at <= Now
            BY DEF PendingPlace
        <3>3. Now \in Nat /\ Now' \in Nat /\ Now <= Now'
            BY DEF Grows
        <3> QED
            BY <3>1, <3>2, <3>3
    <2> QED
        BY <1>1, <1>2, <2>1 DEF PendingPlace, Grows
<1>4. Valid(p)'
    BY <1>1, ValidKept
<1> QED
    BY <1>3, <1>4

LEMMA PendingKept ==
    ASSUME TypeInv, PendingInv, Grows, items' = items, pending' \subseteq pending
    PROVE  PendingInv'
<1>1. ASSUME NEW p \in pending'
      PROVE  PendingPlace(p)' /\ Valid(p)'
    BY Shape, ProposalKept DEF PendingInv
<1> QED
    BY <1>1 DEF PendingInv

\* The types after an event that changes no item.
LEMMA TypesGrow ==
    ASSUME TypeInv, Len(events) < MaxEvents, context' = context,
           NEW t, NEW kind, NEW used, NEW asking, NEW object, Fits(t, kind, used, asking, object),
           Happens(t, kind, used, asking, object),
           items' = items, changes' = changes,
           pending' \subseteq Pending, \A p, q \in pending' : p = q
    PROVE  TypeInv'
<1>1. /\ events' \in Seq(Event)
      /\ Len(events') = Len(events) + 1
      /\ Len(events') <= MaxEvents
    BY Happened
<1>2. Len(changes) \in Nat /\ Len(events) \in Nat
    BY Shape
<1> QED
    BY <1>1, <1>2 DEF TypeInv

\* An event that changes no item; what waits is as it was or as it should be.
LEMMA OtherEvent ==
    ASSUME IInv, Len(events) < MaxEvents, context' = context,
           NEW t, NEW kind, NEW used, NEW asking, NEW object, Fits(t, kind, used, asking, object),
           Happens(t, kind, used, asking, object),
           items' = items, changes' = changes,
           pending' \subseteq Pending, \A p, q \in pending' : p = q,
           pending' \subseteq pending \/ PendingInv',
           NEW new, new = This, UsageSavable(new)',
           kind = "reply" /\ asking # {} =>
                \E m \in 1..This - 1 :
                    /\ events[m].kind = "clarification"
                    /\ events[m].asking = asking
                    /\ events[m].context = context
                    /\ \A k \in m + 1..This - 1 : events[k].kind = "capability"
    PROVE  IInv'
<1>1. TypeInv /\ EventsInv /\ ItemsInv /\ RecordsInv /\ HistorySavable /\ PendingInv /\ UsageInv
      /\ AskFirstIsKept
    BY DEF IInv
<1>2. Grows
    BY <1>1, Growth
<1>3. TypeInv'
    BY <1>1, TypesGrow
<1>4. EventsInv'
    BY <1>1, EventsStep
<1>5. ItemsInv' /\ RecordsInv' /\ HistorySavable'
    BY <1>1, <1>2, ItemsKept, RecordsKept, HistoryKept
<1>6. PendingInv'
    BY <1>1, <1>2, PendingKept
<1>7. \A n \in DOMAIN events' : n \in DOMAIN events \/ n = This
    BY <1>1, Happened
<1>8. UsageInv'
    <2>1. \A version : Historical(version)' = Historical(version)
        BY DEF Historical
    <2> QED
        BY <1>1, <1>2, <1>7, <2>1, UsageKept
<1>9. AskFirstIsKept'
    <2>1. events'[This].kind = kind /\ events'[This].asking = asking /\ events'[This].context = context
        BY <1>1, Happened
    <2> QED
        BY <1>1, <1>2, <1>7, <2>1, AskFirstGrows
<1> QED
    BY <1>3, <1>4, <1>5, <1>6, <1>8, <1>9 DEF IInv

------------------------------------------------------------------------------
(* What is selected, and what it is recorded as *)

FirstOf(S) == {i \in S : \A j \in S \ {i} : Precedes(i, j)}

LEMMA FirstIsOne ==
    ASSUME TypeInv, NEW S, S \subseteq DOMAIN items, NEW i \in FirstOf(S), NEW j \in FirstOf(S)
    PROVE  i = j
<1> SUFFICES ASSUME i # j
             PROVE  FALSE
    OBVIOUS
<1>1. Precedes(i, j) /\ Precedes(j, i)
    BY DEF FirstOf
<1>2. i \in Nat /\ j \in Nat /\ items[i] \in Item /\ items[j] \in Item
    BY Shape DEF FirstOf
<1>3. /\ items[i].confirmedAt \in Nat /\ items[j].confirmedAt \in Nat
      /\ items[i].version \in Nat /\ items[j].version \in Nat
    BY <1>2, Bounds DEF Item
<1> QED
    BY <1>1, <1>2, <1>3 DEF Precedes

\* What is selected applies, and is one of each target.
LEMMA SelectedApplies ==
    ASSUME TypeInv, NEW words, NEW budget
    PROVE  /\ \A i \in Selected(words, budget) : i \in DOMAIN items /\ Applies(i, words)
           /\ \A i, j \in Selected(words, budget) :
                i # j => Target(items[i].value) # Target(items[j].value)
           /\ \E a, b : Selected(words, budget) \subseteq {a, b}
<1> DEFINE applicable == {i \in DOMAIN items : Applies(i, words)}
           one == {i \in applicable : Length(items[i].value) <= budget}
           two == {j \in applicable : \E i \in FirstOf(one) :
                        /\ Target(items[j].value) # Target(items[i].value)
                        /\ Length(items[i].value) + Length(items[j].value) <= budget}
<1>1. Selected(words, budget) = FirstOf(one) \cup FirstOf(two)
    BY DEF Selected, FirstOf
<1>2. one \subseteq applicable /\ two \subseteq applicable
    OBVIOUS
<1>3. \A j \in two : \E i \in FirstOf(one) : Target(items[j].value) # Target(items[i].value)
    OBVIOUS
<1> HIDE DEF one, two
<1>4. FirstOf(one) \subseteq one /\ FirstOf(two) \subseteq two /\ applicable \subseteq DOMAIN items
    BY DEF FirstOf
<1>5. \A i, j \in FirstOf(one) : i = j
    BY <1>2, <1>4, FirstIsOne
<1>6. \A i, j \in FirstOf(two) : i = j
    BY <1>2, <1>4, FirstIsOne
<1>7. \A i \in FirstOf(one), j \in FirstOf(two) : Target(items[j].value) # Target(items[i].value)
    BY <1>3, <1>4, <1>5
<1>8. \E a, b : Selected(words, budget) \subseteq {a, b}
    <2>1. \E a : FirstOf(one) \subseteq {a}
        BY <1>5
    <2>2. \E b : FirstOf(two) \subseteq {b}
        BY <1>6
    <2> QED
        BY <1>1, <2>1, <2>2
<1>9. \A i \in Selected(words, budget) : i \in DOMAIN items /\ Applies(i, words)
    BY <1>1, <1>2, <1>4
<1>10. \A i, j \in Selected(words, budget) :
            i # j => Target(items[i].value) # Target(items[j].value)
    BY <1>1, <1>5, <1>6, <1>7
<1> QED
    BY <1>8, <1>9, <1>10

LEMMA AtMostTwo ==
    ASSUME NEW a, NEW b, NEW S, S \subseteq {a, b}
    PROVE  Cardinality(S) <= 2
<1>1. IsFiniteSet({a}) /\ Cardinality({a}) = 1
    BY FS_Singleton
<1>2. IsFiniteSet({a} \cup {b}) /\ Cardinality({a} \cup {b}) <= 2
    BY <1>1, FS_AddElement
<1>3. {a} \cup {b} = {a, b}
    OBVIOUS
<1>4. Cardinality(S) <= Cardinality({a, b}) /\ Cardinality(S) \in Nat /\ Cardinality({a, b}) \in Nat
    BY <1>2, <1>3, FS_Subset, FS_CardinalityType
<1> QED
    BY <1>2, <1>3, <1>4

\* The usage that a selection is recorded as.
LEMMA SelectedFits ==
    ASSUME TypeInv, NEW words, NEW budget
    PROVE  /\ CurrentVersions(Selected(words, budget)) \in SUBSET Versions
           /\ AskFirst(Selected(words, budget)) \in SUBSET Versions
           /\ Cardinality(CurrentVersions(Selected(words, budget))) <= 2
           /\ \A v, w \in AskFirst(Selected(words, budget)) : v = w
<1> DEFINE selected == Selected(words, budget)
           asking == {i \in selected : items[i].value = "ask_first"}
<1>1. \A i \in selected : i \in DOMAIN items
    BY SelectedApplies
<1>2. \A i \in selected : <<i, items[i].version>> \in Versions
    BY <1>1, Shape DEF Item, Versions
<1>3. PICK a, b : selected \subseteq {a, b}
    BY SelectedApplies
<1>4. \A i, j \in asking : i = j
    BY SelectedApplies DEF Target
<1> HIDE DEF selected
<1>5. CurrentVersions(selected) \in SUBSET Versions
    BY <1>2 DEF CurrentVersions
<1>6. AskFirst(selected) \in SUBSET Versions
    BY <1>2 DEF AskFirst, CurrentVersions
<1>7. CurrentVersions(selected) \subseteq {<<a, items[a].version>>, <<b, items[b].version>>}
    BY <1>3 DEF CurrentVersions
<1>8. Cardinality(CurrentVersions(selected)) <= 2
    BY <1>7, AtMostTwo
<1>9. \A v, w \in AskFirst(selected) : v = w
    BY <1>4 DEF AskFirst, CurrentVersions
<1> QED
    BY <1>5, <1>6, <1>8, <1>9 DEF selected

\* The current version of an item names the item.
LEMMA CurrentIsHistorical ==
    ASSUME TypeInv, RecordsInv, NEW i \in DOMAIN items
    PROVE  Historical(<<i, items[i].version>>) = {items[i]}
<1>1. PICK version : version = <<i, items[i].version>>
    OBVIOUS
<1>2. version[1] = i /\ version[2] = items[i].version
    BY <1>1
<1>3. ASSUME NEW n \in DOMAIN changes, changes[n].item = i, changes[n].after.version = items[i].version
      PROVE  changes[n].after = items[i]
    BY <1>3 DEF RecordsInv, RecordInv
<1>4. PICK n \in DOMAIN changes : changes[n].item = i /\ changes[n].after = items[i]
    BY DEF RecordsInv
<1>5. Historical(version) = {items[i]}
    BY <1>2, <1>3, <1>4 DEF Historical
<1> QED
    BY <1>1, <1>5

\* What is recorded as used was confirmed before, and applied here.
LEMMA SelectedSavable ==
    ASSUME TypeInv, RecordsInv, ItemsInv, EventsInv, NEW words, NEW budget,
           NEW t \in Time, t >= Now,
           NEW version \in CurrentVersions(Selected(words, budget))
    PROVE  Applied(version, t, context)
<1>1. PICK i \in Selected(words, budget) : version = <<i, items[i].version>>
    BY DEF CurrentVersions
<1>2. i \in DOMAIN items /\ Applies(i, words)
    BY SelectedApplies
<1>3. Historical(version) = {items[i]}
    BY <1>1, <1>2, CurrentIsHistorical
<1>4. items[i].confirmedAt <= t
    <2>1. items[i].confirmedAt <= Now
        BY <1>2 DEF ItemsInv, ItemInv
    <2>2. items[i].confirmedAt \in Nat /\ t \in Nat /\ Now \in Nat
        BY <1>2, Shape, Bounds, NowProperties DEF Item
    <2> QED
        BY <2>1, <2>2
<1> QED
    BY <1>2, <1>3, <1>4 DEF Applied, Applies

LEMMA SelectedApart ==
    ASSUME TypeInv, RecordsInv, NEW words, NEW budget,
           NEW v \in CurrentVersions(Selected(words, budget)),
           NEW w \in CurrentVersions(Selected(words, budget)), v # w
    PROVE  Apart(v, w)
<1>1. PICK i \in Selected(words, budget) : v = <<i, items[i].version>>
    BY DEF CurrentVersions
<1>2. PICK j \in Selected(words, budget) : w = <<j, items[j].version>>
    BY DEF CurrentVersions
<1>3. i \in DOMAIN items /\ j \in DOMAIN items /\ Target(items[i].value) # Target(items[j].value)
    BY <1>1, <1>2, SelectedApplies
<1>4. Historical(v) = {items[i]} /\ Historical(w) = {items[j]}
    BY <1>1, <1>2, <1>3, CurrentIsHistorical
<1> QED
    BY <1>3, <1>4 DEF Apart

\* An answer directly follows the question for the same version.
LEMMA AnsweredFollows ==
    ASSUME TypeInv, EventsInv, NEW asking, \A v, w \in asking : v = w,
           Answered(asking) # {}
    PROVE  \E m \in 1..This - 1 :
                /\ events[m].kind = "clarification"
                /\ events[m].asking = asking
                /\ events[m].context = context
                /\ \A k \in m + 1..This - 1 : events[k].kind = "capability"
<1>1. PICK m \in Last(Exchanges) : events[m].kind = "clarification" /\ events[m].asking \cap asking # {}
    BY DEF Answered
<1>2. m \in Exchanges /\ \A k \in Exchanges : k <= m
    BY DEF Last
<1>3. m \in DOMAIN events /\ events[m].context = context
    BY <1>2 DEF Exchanges, Inputs
<1>4. DOMAIN events = 1..This - 1 /\ This \in Nat
    BY Shape DEF This
<1>5. events[m].asking = asking
    <2>1. \A v, w \in events[m].asking : v = w
        BY <1>3 DEF EventsInv, EventInv
    <2> QED
        BY <1>1, <2>1
<1>6. ASSUME NEW k \in m + 1..This - 1
      PROVE  events[k].kind = "capability"
    <2>1. k \in DOMAIN events /\ m < k
        BY <1>3, <1>4
    <2>2. events[k].context = context
        <3>1. events[m].context <= events[k].context /\ events[k].context <= context
            BY <1>3, <2>1 DEF EventsInv, EventInv
        <3>2. events[k].context \in Nat /\ context \in Nat
            BY <2>1, Shape, Bounds DEF Event, TypeInv
        <3> QED
            BY <1>3, <3>1, <3>2
    <2>3. ~(k <= m)
        BY <1>3, <1>4, <2>1
    <2> QED
        BY <1>2, <2>1, <2>2, <2>3 DEF Exchanges, Inputs
<1> QED
    BY <1>1, <1>3, <1>4, <1>5, <1>6

------------------------------------------------------------------------------
(* Inputs that change no item *)

LEMMA TalkKeeps ==
    ASSUME IInv, NEW t \in Time, NEW words, NEW budget, NEW intact, Talk(t, words, budget, intact)
    PROVE  IInv'
<1> DEFINE chosen == Selected(words, budget)
<1>1. TypeInv /\ EventsInv /\ ItemsInv /\ RecordsInv
    BY DEF IInv
<1>2. t >= Now /\ Len(events) < MaxEvents /\ items' = items /\ changes' = changes
      /\ pending' = pending /\ context' = context
    BY DEF Talk, Received
<1>3. PICK used, asking : used = CurrentVersions(chosen) /\ asking = AskFirst(chosen)
    OBVIOUS
<1>4. PICK kind \in {"reply", "clarification", "question", "refusal", "silence"} :
        /\ Happens(t, kind, used, asking, None)
        /\ kind = "reply" => asking = {} \/ Answered(asking) # {}
    BY <1>3 DEF Talk
<1>5. /\ used \in SUBSET Versions /\ asking \in SUBSET Versions
      /\ Cardinality(used) <= 2
      /\ \A v, w \in asking : v = w
    BY <1>1, <1>3, SelectedFits
<1>6. Fits(t, kind, used, asking, None)
    <2>1. kind \in Kinds /\ kind # "capability"
        BY DEF Kinds, Adaptable
    <2> QED
        BY <1>2, <1>5, <2>1 DEF Fits
<1>7. \A version \in used : Applied(version, t, context)
    BY <1>1, <1>2, <1>3, SelectedSavable
<1>8. \A v, w \in used : v # w => Apart(v, w)
    BY <1>1, <1>3, SelectedApart
<1>9. PICK new, home : new = This /\ home = context
    OBVIOUS
<1>10. UsageSavable(new)'
    <2>1. events'[new].used = used /\ events'[new].at = t /\ events'[new].context = home
        BY <1>1, <1>2, <1>4, <1>6, <1>9, Happened
    <2>2. ASSUME NEW version \in used
          PROVE  Applied(version, t, home)'
        <3>1. Applied(version, t, home)
            BY <1>7, <1>9
        <3> QED
            BY <1>2, <3>1 DEF Applied, Historical
    <2>3. ASSUME NEW v \in used, NEW w \in used, v # w
          PROVE  Apart(v, w)'
        <3>1. Apart(v, w)
            BY <1>8, <2>3
        <3>2. Historical(v)' = Historical(v) /\ Historical(w)' = Historical(w)
            BY <1>2 DEF Historical
        <3> QED
            BY <3>1, <3>2 DEF Apart
    <2> QED
        BY <2>1, <2>2, <2>3, UsagePartsNext
<1>11. kind = "reply" /\ asking # {} =>
            \E m \in 1..This - 1 :
                /\ events[m].kind = "clarification"
                /\ events[m].asking = asking
                /\ events[m].context = context
                /\ \A k \in m + 1..This - 1 : events[k].kind = "capability"
    BY <1>1, <1>4, <1>5, AnsweredFollows
<1>12. pending' \subseteq Pending /\ \A p, q \in pending' : p = q
    BY <1>1, <1>2 DEF TypeInv
<1> QED
    BY <1>2, <1>4, <1>6, <1>9, <1>10, <1>11, <1>12, OtherEvent

\* An event that uses nothing and changes no item.
LEMMA QuietEvent ==
    ASSUME IInv, Len(events) < MaxEvents, context' = context,
           NEW t, NEW kind, NEW object, Fits(t, kind, {}, {}, object),
           Happens(t, kind, {}, {}, object),
           items' = items, changes' = changes,
           pending' \subseteq Pending, \A p, q \in pending' : p = q,
           pending' \subseteq pending \/ PendingInv'
    PROVE  IInv'
<1>1. PICK new : new = This
    OBVIOUS
<1>2. events'[new].used = {}
    BY <1>1, Happened DEF IInv
<1>3. UsageSavable(new)'
    BY <1>2 DEF UsageSavable
<1> QED
    BY <1>1, <1>3, OtherEvent

LEMMA NothingFits ==
    ASSUME NEW t \in Time, NEW kind \in Kinds, NEW object \in Objects \cup {None},
           object # None <=> kind = "capability", kind # "capability" => t >= Now
    PROVE  Fits(t, kind, {}, {}, object)
<1>1. Cardinality({}) = 0
    BY FS_EmptySet
<1> QED
    BY <1>1 DEF Fits

LEMMA CapabilityResultKeeps ==
    ASSUME IInv, NEW t \in Time, NEW object \in Objects, CapabilityResult(t, object)
    PROVE  IInv'
<1>1. Fits(t, "capability", {}, {}, object)
    BY NothingFits, Bounds DEF Kinds
<1>2. pending' = pending /\ \A p, q \in pending : p = q
    BY DEF CapabilityResult, IInv, TypeInv
<1>3. pending' \subseteq Pending
    BY <1>2 DEF IInv, TypeInv
<1> QED
    BY <1>1, <1>2, <1>3, QuietEvent DEF CapabilityResult

LEMMA ManageKeeps ==
    ASSUME IInv, NEW t \in Time, Manage(t)
    PROVE  IInv'
<1>1. Fits(t, "management", {}, {}, None)
    BY NothingFits DEF Kinds, Manage, Received
<1>2. pending' = pending /\ \A p, q \in pending : p = q
    BY DEF Manage, IInv, TypeInv
<1>3. pending' \subseteq Pending
    BY <1>2 DEF IInv, TypeInv
<1> QED
    BY <1>1, <1>2, <1>3, QuietEvent DEF Manage, Received

LEMMA DropKeeps ==
    ASSUME IInv, NEW t \in Time, Drop(t)
    PROVE  IInv'
<1>1. Fits(t, "feedback", {}, {}, None)
    BY NothingFits DEF Kinds, Drop, Received
<1>2. pending' = {}
    BY DEF Drop
<1> QED
    BY <1>1, <1>2, QuietEvent DEF Drop, Received

LEMMA NewContextKeeps ==
    ASSUME IInv, NewContext
    PROVE  IInv'
<1>1. /\ context' = context + 1 /\ context < MaxContexts
      /\ events' = events /\ items' = items /\ changes' = changes /\ pending' = pending
    BY DEF NewContext
<1>2. TypeInv /\ EventsInv /\ ItemsInv /\ RecordsInv /\ HistorySavable /\ PendingInv /\ UsageInv
      /\ AskFirstIsKept
    BY DEF IInv
<1>3. Grows
    <2>1. Now' = Now /\ Now \in Nat
        BY <1>1, <1>2, NowProperties DEF Now, Inputs
    <2>2. \A n \in DOMAIN events : n < This
        BY <1>2, Shape DEF This
    <2> QED
        BY <1>1, <2>1, <2>2 DEF Grows
<1>4. TypeInv'
    BY <1>1, <1>2, Bounds DEF TypeInv
<1>5. EventsInv'
    <2>1. \A n \in DOMAIN events : events[n].context \in Nat /\ context \in Nat
        BY <1>2, Shape DEF Event, TypeInv
    <2>2. ASSUME NEW n \in DOMAIN events
          PROVE  EventInv(n)'
        BY <1>1, <1>2, <2>1 DEF EventsInv, EventInv
    <2> QED
        BY <1>1, <1>2, <2>2 DEF EventsInv, Inputs
<1>6. ItemsInv' /\ RecordsInv' /\ HistorySavable'
    BY <1>1, <1>2, <1>3, ItemsKept, RecordsKept, HistoryKept
<1>7. PendingInv'
    BY <1>1, <1>2, <1>3, PendingKept
<1>8. UsageInv'
    BY <1>1, <1>2 DEF UsageInv, UsageSavable, Historical
<1>9. AskFirstIsKept'
    BY <1>1, <1>2 DEF AskFirstIsKept
<1> QED
    BY <1>4, <1>5, <1>6, <1>7, <1>8, <1>9 DEF IInv

------------------------------------------------------------------------------
(* Reactions *)

LEMMA LastReplyIsLast ==
    ASSUME TypeInv, EventsInv, NEW e \in LastReply
    PROVE  /\ e \in DOMAIN events
           /\ events[e].kind \in Adaptable
           /\ events[e].at <= Now
           /\ LastBefore(e, This)
<1> DEFINE said == {n \in Exchanges : events[n].kind \in Adaptable \cup {"refusal"}}
<1>1. e \in Last(said) /\ events[e].kind \in Adaptable
    BY DEF LastReply
<1>2. e \in said /\ \A n \in said : n <= e
    BY <1>1 DEF Last
<1>3. e \in Inputs /\ e \in DOMAIN events /\ events[e].context = context
    BY <1>2 DEF Exchanges, Inputs
<1>4. DOMAIN events = 1..This - 1 /\ This \in Nat
    BY Shape DEF This
<1>5. ASSUME NEW n \in e + 1..This - 1, events[n].kind \in Adaptable \cup {"refusal"}
      PROVE  FALSE
    <2>1. n \in DOMAIN events /\ e < n /\ ~(n <= e)
        BY <1>3, <1>4
    <2>2. events[n].context = context
        <3>1. events[e].context <= events[n].context /\ events[n].context <= context
            BY <1>3, <2>1 DEF EventsInv, EventInv
        <3>2. events[n].context \in Nat /\ context \in Nat
            BY <2>1, Shape, Bounds DEF Event, TypeInv
        <3> QED
            BY <1>3, <3>1, <3>2
    <2>3. events[n].kind # "capability"
        BY <1>5 DEF Adaptable
    <2>4. n \in said
        BY <1>5, <2>1, <2>2, <2>3 DEF Exchanges, Inputs
    <2> QED
        BY <1>2, <2>1, <2>4
<1>6. events[e].at <= Now
    BY <1>3, NowProperties
<1> QED
    BY <1>1, <1>3, <1>5, <1>6 DEF LastBefore

LEMMA ProposeKeeps ==
    ASSUME IInv, NEW t \in Time, NEW operation \in {"add", "reassess", "reject"},
           NEW target \in Nat, NEW evidence \in DOMAIN events, NEW value \in Values,
           NEW scope \in SUBSET Topics,
           operation = "add" <=> target = 0,
           target # 0 => target \in DOMAIN items,
           events[evidence].at <= t,
           operation = "reject" => (events[evidence].object # None => scope = {}),
           operation # "reject" => /\ events[evidence].kind \in Adaptable \cup {"capability"}
                                   /\ LastBefore(evidence, This),
           Propose(t, operation, target, evidence, value, scope)
    PROVE  IInv'
<1>1. TypeInv /\ EventsInv
    BY DEF IInv
<1>2. PICK p : p = [id |-> This, operation |-> operation, at |-> t, context |-> context,
                    target |-> target, expected |-> IF target = 0 THEN 0 ELSE items[target].version,
                    evidence |-> evidence, value |-> value, scope |-> scope, expires |-> t + Ttl]
    OBVIOUS
<1>3. /\ t >= Now /\ Len(events) < MaxEvents
      /\ Valid(p) /\ pending' = {p}
      /\ Happens(t, "feedback", {}, {}, None)
      /\ items' = items /\ changes' = changes /\ context' = context
    BY <1>2 DEF Propose, Received
<1>4. Fits(t, "feedback", {}, {}, None)
    BY <1>3, NothingFits DEF Kinds
<1>5. Grows
    BY <1>1, <1>3, <1>4, Growth
<1>6. /\ This \in 1..MaxEvents /\ This \in DOMAIN events'
      /\ events'[This].context = context
      /\ events'[evidence] = events[evidence]
      /\ evidence < This
    BY <1>1, <1>3, <1>4, Happened
<1>7. p \in Pending
    <2>1. evidence \in 1..MaxEvents
        BY <1>1, Shape, Bounds DEF TypeInv
    <2>2. target = 0 \/ items[target].version \in Nat
        BY <1>1, Shape DEF Item
    <2>3. t + Ttl \in Nat
        BY Bounds
    <2>4. context \in 1..MaxContexts
        BY <1>1 DEF TypeInv
    <2> QED
        BY <1>2, <1>6, <2>1, <2>2, <2>3, <2>4 DEF Pending
<1>8. /\ p.id = This /\ p.operation = operation /\ p.at = t /\ p.context = context
      /\ p.target = target /\ p.evidence = evidence /\ p.scope = scope
    BY <1>2
<1> HIDE <1>2
<1>9. events[evidence].object # None => scope = {}
    <2>1. CASE operation = "reject"
        BY <2>1
    <2>2. CASE operation # "reject"
        <3>1. events[evidence].kind = "capability" => scope = {}
            BY <1>3, <1>8, <2>2 DEF Valid
        <3> QED
            BY <1>1, <3>1 DEF EventsInv, EventInv
    <2> QED
        BY <2>1, <2>2
<1>10. LastBefore(evidence, This) => LastBefore(p.evidence, p.id)'
    <2>1. PICK new : new = This
        OBVIOUS
    <2>2. \A n \in evidence + 1..new - 1 : n \in DOMAIN events
        BY <1>1, <2>1, Shape DEF This
    <2>3. LastBefore(evidence, new) => LastBefore(evidence, new)'
        BY <1>5, <2>2 DEF LastBefore, Grows
    <2> QED
        BY <1>8, <2>1, <2>3
<1>11. PendingPlace(p)'
    <2>1. Now' = t /\ t \in Nat
        BY <1>1, <1>3, <1>4, TimePasses, Bounds
    <2> QED
        BY <1>6, <1>8, <1>9, <1>10, <2>1 DEF PendingPlace
<1>12. Valid(p)'
    BY <1>3, <1>5, <1>8, ValidKept
<1>13. PendingInv'
    BY <1>3, <1>11, <1>12 DEF PendingInv
<1> QED
    BY <1>3, <1>4, <1>7, <1>13, QuietEvent

LEMMA AddKeeps ==
    ASSUME IInv, NEW t \in Time, Add(t)
    PROVE  IInv'
<1>1. TypeInv /\ EventsInv
    BY DEF IInv
<1>2. PICK value \in Values, scope \in SUBSET Topics,
           evidence \in LastReply \cup UNION {Results(object, t) : object \in Objects} :
        Propose(t, "add", 0, evidence, value, scope)
    BY DEF Add
<1>3. t >= Now /\ t \in Nat /\ Now \in Nat
    BY <1>1, <1>2, NowProperties, Bounds DEF Propose, Received
<1>4. CASE evidence \in LastReply
    <2>1. /\ evidence \in DOMAIN events /\ events[evidence].kind \in Adaptable
          /\ events[evidence].at <= Now /\ LastBefore(evidence, This)
        BY <1>1, <1>4, LastReplyIsLast
    <2>2. events[evidence].at <= t
        <3>1. events[evidence].at \in Nat
            BY <1>1, <2>1, Shape, Bounds DEF Event
        <3> QED
            BY <1>3, <2>1, <3>1
    <2> QED
        BY <1>2, <2>1, <2>2, ProposeKeeps
<1>5. CASE \E object \in Objects : evidence \in Results(object, t)
    <2>1. /\ evidence \in DOMAIN events /\ events[evidence].kind = "capability"
          /\ events[evidence].at <= t
        BY <1>5 DEF Results
    <2>2. LastBefore(evidence, This)
        BY <2>1 DEF LastBefore
    <2> QED
        BY <1>2, <2>1, <2>2, ProposeKeeps
<1> QED
    BY <1>4, <1>5

LEMMA ReassessKeeps ==
    ASSUME IInv, NEW t \in Time, Reassess(t)
    PROVE  IInv'
<1>1. TypeInv /\ EventsInv
    BY DEF IInv
<1>2. PICK i \in DOMAIN items, value \in Values, scope \in SUBSET Topics :
        \E evidence \in IF items[i].object = None THEN LastReply ELSE Last(Results(items[i].object, t)) :
            Propose(t, "reassess", i, evidence, value, scope)
    BY DEF Reassess
<1>3. PICK evidence :
        /\ evidence \in LastReply \/ evidence \in Results(items[i].object, t)
        /\ Propose(t, "reassess", i, evidence, value, scope)
    BY <1>2 DEF Last
<1>4. t >= Now /\ t \in Nat /\ Now \in Nat
    BY <1>1, <1>3, NowProperties, Bounds DEF Propose, Received
<1>5. i \in Nat /\ i # 0
    BY <1>1, Shape
<1>6. CASE evidence \in LastReply
    <2>1. /\ evidence \in DOMAIN events /\ events[evidence].kind \in Adaptable
          /\ events[evidence].at <= Now /\ LastBefore(evidence, This)
        BY <1>1, <1>6, LastReplyIsLast
    <2>2. events[evidence].at <= t
        <3>1. events[evidence].at \in Nat
            BY <1>1, <2>1, Shape, Bounds DEF Event
        <3> QED
            BY <1>4, <2>1, <3>1
    <2> QED
        BY <1>3, <1>5, <2>1, <2>2, ProposeKeeps
<1>7. CASE evidence \in Results(items[i].object, t)
    <2>1. /\ evidence \in DOMAIN events /\ events[evidence].kind = "capability"
          /\ events[evidence].at <= t
        BY <1>7 DEF Results
    <2>2. LastBefore(evidence, This)
        BY <2>1 DEF LastBefore
    <2> QED
        BY <1>3, <1>5, <2>1, <2>2, ProposeKeeps
<1> QED
    BY <1>3, <1>6, <1>7

LEMMA RejectKeeps ==
    ASSUME IInv, NEW t \in Time, Reject(t)
    PROVE  IInv'
<1>1. TypeInv /\ EventsInv /\ ItemsInv
    BY DEF IInv
<1>2. PICK i \in DOMAIN items :
        Propose(t, "reject", i, items[i].evidence, items[i].value, items[i].scope)
    BY DEF Reject
<1>3. t >= Now /\ t \in Nat /\ Now \in Nat
    BY <1>1, <1>2, NowProperties, Bounds DEF Propose, Received
<1>4. i \in Nat /\ i # 0 /\ items[i] \in Item
    BY <1>1, Shape
<1>5. ItemInv(items[i])
    BY <1>1 DEF ItemsInv
<1>6. PICK evidence, value, scope :
        evidence = items[i].evidence /\ value = items[i].value /\ scope = items[i].scope
    OBVIOUS
<1>7. evidence \in DOMAIN events /\ value \in Values /\ scope \in SUBSET Topics
    BY <1>4, <1>5, <1>6 DEF ItemInv, Item
<1>8. events[evidence].object # None => scope = {}
    BY <1>5, <1>6 DEF ItemInv, Provenance
<1>9. events[evidence].at <= t
    <2>1. items[i].confirmedAt >= events[evidence].at /\ items[i].confirmedAt <= Now
        BY <1>5, <1>6 DEF ItemInv, Provenance
    <2>2. items[i].confirmedAt \in Nat /\ events[evidence].at \in Nat
        BY <1>1, <1>4, <1>7, Shape, Bounds DEF Item, Event
    <2> QED
        BY <1>3, <2>1, <2>2
<1>10. Propose(t, "reject", i, evidence, value, scope)
    BY <1>2, <1>6
<1> QED
    BY <1>4, <1>7, <1>8, <1>9, <1>10, ProposeKeeps

------------------------------------------------------------------------------
(* Confirmations *)

\* Where the change is, and the home context it has there.
Place(p) == IF p.target = 0 THEN Len(items) + 1 ELSE p.target
Home(p) == IF p.target = 0 THEN p.context ELSE items[p.target].context

\* What the item is after the change: made by the proposal, or ended.
Made(p, t, item) ==
    /\ item.version = NextVersion(p)
    /\ item.context = Home(p)
    /\ item.feedback = p.id
    /\ item.confirmation = This
    /\ item.confirmedAt = t
    /\ item.evidence = p.evidence
    /\ item.object = events[p.evidence].object
    /\ item.active <=> p.operation # "reject"
    /\ p.operation # "reject" => item.value = p.value /\ item.scope = p.scope
    /\ p.operation = "reject" => item.value = items[p.target].value /\ item.scope = items[p.target].scope

LEMMA Targets ==
    ASSUME TypeInv, NEW p \in Pending, PendingPlace(p), Valid(p)
    PROVE  /\ p.target # 0 => /\ p.target \in DOMAIN items
                              /\ items[p.target].version = p.expected
                              /\ items[p.target].active
           /\ Place(p) \in Nat \ {0}
           /\ p.target = 0 => Place(p) \notin DOMAIN items
           /\ p.target # 0 => Place(p) = p.target
           /\ NextVersion(p) \in Nat \ {0}
           /\ p.target # 0 => items[p.target].version < NextVersion(p)
           /\ p.target = 0 => NextVersion(p) = 1
<1>1. p.target # 0 => ValidTarget(p)
    BY DEF PendingPlace, Valid
<1>2. Len(items) \in Nat /\ DOMAIN items = 1..Len(items) /\ \A i \in DOMAIN items : items[i].version \in Nat \ {0}
    BY Shape DEF Item
<1> QED
    BY <1>1, <1>2 DEF ValidTarget, Place, NextVersion

LEMMA FormedIsItem ==
    ASSUME TypeInv, NEW p \in Pending, PendingPlace(p), Valid(p), NEW t \in Time,
           This \in 1..MaxEvents, NEW home \in 1..MaxContexts
    PROVE  Formed(p, t, home) \in Item
<1>1. events[p.evidence].object \in Objects \cup {None} /\ p.evidence \in 1..MaxEvents
    <2>1. p.evidence \in DOMAIN events
        BY Shape DEF PendingPlace, Pending
    <2> QED
        BY <2>1, Shape DEF Event, Pending
<1>2. NextVersion(p) \in Nat \ {0}
    BY Targets
<1>3. p.id \in 1..MaxEvents /\ p.value \in Values /\ p.scope \in SUBSET Topics
    BY DEF Pending
<1> QED
    BY <1>1, <1>2, <1>3 DEF Formed, Item

LEMMA EndedIsItem ==
    ASSUME TypeInv, NEW p \in Pending, PendingPlace(p), Valid(p), NEW t \in Time,
           This \in 1..MaxEvents, p.target # 0
    PROVE  Ended(p, t) \in Item
<1>1. NextVersion(p) \in Nat \ {0} /\ p.target \in DOMAIN items
    BY Targets
<1>2. items[p.target] \in Item /\ p.id \in 1..MaxEvents
    BY <1>1, Shape DEF Pending
<1> QED
    BY <1>1, <1>2 DEF Ended, Item

LEMMA AdoptedIsOne ==
    ASSUME TypeInv, ItemsInv, NEW p \in Pending, PendingPlace(p), Valid(p), NEW t \in Time,
           This \in 1..MaxEvents
    PROVE  /\ Adopted(p, t) \in Seq(Item)
           /\ DOMAIN Adopted(p, t) = DOMAIN items \cup {Place(p)}
           /\ \A j \in DOMAIN items : j # Place(p) => Adopted(p, t)[j] = items[j]
           /\ Adopted(p, t)[Place(p)] \in Item
           /\ Made(p, t, Adopted(p, t)[Place(p)])
<1>1. Len(items) \in Nat /\ DOMAIN items = 1..Len(items) /\ items \in Seq(Item)
    BY Shape DEF TypeInv
<1>2. CASE p.operation = "add"
    <2>1. p.target = 0 /\ Place(p) = Len(items) + 1
        BY <1>2 DEF PendingPlace, Place
    <2>2. PICK item : item = Formed(p, t, p.context)
        OBVIOUS
    <2>3. item \in Item
        BY <2>2, FormedIsItem DEF Pending
    <2>4. Adopted(p, t) = Append(items, item)
        BY <1>2, <2>2 DEF Adopted
    <2>5. /\ Append(items, item) \in Seq(Item)
          /\ Len(Append(items, item)) = Len(items) + 1
          /\ \A j \in 1..Len(items) : Append(items, item)[j] = items[j]
          /\ Append(items, item)[Len(items) + 1] = item
        BY <1>1, <2>3, AppendProperties
    <2>6. DOMAIN Append(items, item) = 1..Len(items) + 1
        BY <2>5, LenProperties
    <2>7. Made(p, t, item)
        BY <1>2, <2>1, <2>2 DEF Made, Formed, Home
    <2> QED
        BY <1>1, <2>1, <2>3, <2>4, <2>5, <2>6, <2>7
<1>3. ASSUME p.operation # "add", NEW item \in Item, Adopted(p, t) = [items EXCEPT ![p.target] = item],
             Made(p, t, item)
      PROVE  /\ Adopted(p, t) \in Seq(Item)
             /\ DOMAIN Adopted(p, t) = DOMAIN items \cup {Place(p)}
             /\ \A j \in DOMAIN items : j # Place(p) => Adopted(p, t)[j] = items[j]
             /\ Adopted(p, t)[Place(p)] \in Item
             /\ Made(p, t, Adopted(p, t)[Place(p)])
    <2>1. p.target # 0 /\ p.target \in DOMAIN items /\ Place(p) = p.target
        BY <1>3, Targets DEF PendingPlace
    <2>2. [items EXCEPT ![p.target] = item] \in Seq(Item)
        BY <1>1, <2>1, ExceptSeq
    <2>3. /\ DOMAIN [items EXCEPT ![p.target] = item] = DOMAIN items
          /\ [items EXCEPT ![p.target] = item][p.target] = item
          /\ \A j \in DOMAIN items : j # p.target => [items EXCEPT ![p.target] = item][j] = items[j]
        BY <2>1
    <2> QED
        BY <1>3, <2>1, <2>2, <2>3
<1>4. CASE p.operation = "reassess"
    <2>1. p.target # 0 /\ p.target \in DOMAIN items
        BY <1>4, Targets DEF PendingPlace
    <2>2. PICK item : item = Formed(p, t, items[p.target].context)
        OBVIOUS
    <2>3. item \in Item
        <3>1. items[p.target].context \in 1..MaxContexts
            BY <2>1, Shape DEF Item
        <3> QED
            BY <2>2, <3>1, FormedIsItem
    <2>4. Adopted(p, t) = [items EXCEPT ![p.target] = item]
        BY <1>4, <2>2 DEF Adopted
    <2>5. Made(p, t, item)
        BY <1>4, <2>1, <2>2 DEF Made, Formed, Home
    <2> QED
        BY <1>3, <1>4, <2>3, <2>4, <2>5
<1>5. CASE p.operation = "reject"
    <2>1. p.target # 0 /\ p.target \in DOMAIN items
        BY <1>5, Targets DEF PendingPlace
    <2>2. PICK item : item = Ended(p, t)
        OBVIOUS
    <2>3. item \in Item
        BY <2>1, <2>2, EndedIsItem
    <2>4. Adopted(p, t) = [items EXCEPT ![p.target] = item]
        BY <1>5, <2>2 DEF Adopted
    <2>5. items[p.target].evidence = p.evidence /\ items[p.target].object = events[p.evidence].object
        BY <1>5, <2>1 DEF Valid, ItemsInv, ItemInv, Provenance
    <2>6. Made(p, t, item)
        <3>1. items[p.target] \in Item
            BY <2>1, Shape
        <3>2. /\ item.version = NextVersion(p) /\ item.active = FALSE /\ item.feedback = p.id
              /\ item.confirmation = This /\ item.confirmedAt = t
              /\ item.context = items[p.target].context /\ item.value = items[p.target].value
              /\ item.scope = items[p.target].scope /\ item.object = items[p.target].object
              /\ item.evidence = items[p.target].evidence
            BY <2>2, <3>1 DEF Ended, Item
        <3> QED
            BY <1>5, <2>1, <2>5, <3>2 DEF Made, Home
    <2> QED
        BY <1>3, <1>5, <2>3, <2>4, <2>6
<1> QED
    BY <1>2, <1>4, <1>5 DEF Pending

\* What the item rests on, whichever change it was.
LEMMA MadeRests ==
    ASSUME TypeInv, EventsInv, ItemsInv, NEW p \in Pending, PendingPlace(p), Valid(p),
           NEW t \in Time, t >= Now, NEW item \in Item, Made(p, t, item)
    PROVE  /\ item.object # None => item.scope = {}
           /\ item.context # events[p.evidence].context => item.scope # {} /\ item.object = None
           /\ t >= events[p.evidence].at
           /\ item.active => events[p.evidence].context = p.context
<1>1. p.evidence \in DOMAIN events
    BY Shape DEF PendingPlace, Pending
<1>2. t >= events[p.evidence].at
    <2>1. p.at >= events[p.evidence].at /\ p.at <= Now
        BY DEF PendingPlace
    <2>2. p.at \in Nat /\ events[p.evidence].at \in Nat /\ t \in Nat /\ Now \in Nat
        BY <1>1, Shape, Bounds, NowProperties DEF Pending, Event
    <2> QED
        BY <2>1, <2>2
<1>3. CASE p.operation = "reject"
    <2>1. p.target # 0 /\ p.target \in DOMAIN items
        BY <1>3, Targets DEF PendingPlace
    <2>2. ItemInv(items[p.target]) /\ items[p.target].evidence = p.evidence
        BY <1>3, <2>1 DEF ItemsInv, Valid
    <2>3. item.context = items[p.target].context /\ item.scope = items[p.target].scope
          /\ item.object = events[p.evidence].object /\ ~item.active
        BY <1>3, <2>1 DEF Made, Home
    <2> QED
        BY <1>2, <2>2, <2>3 DEF ItemInv, Provenance
<1>4. CASE p.operation = "add"
    <2>1. item.context = p.context /\ item.scope = p.scope /\ item.object = events[p.evidence].object
        BY <1>4 DEF Made, Home, PendingPlace
    <2>2. events[p.evidence].context = p.context
        BY <1>4 DEF Valid
    <2> QED
        BY <1>2, <2>1, <2>2 DEF PendingPlace
<1>5. CASE p.operation = "reassess"
    <2>1. p.target # 0
        BY <1>5 DEF PendingPlace
    <2>2. item.context = items[p.target].context /\ item.scope = p.scope
          /\ item.object = events[p.evidence].object
        BY <1>5, <2>1 DEF Made, Home
    <2>3. events[p.evidence].context = p.context /\ ValidReassessment(p)
        BY <1>5 DEF Valid
    <2>4. item.context # p.context => p.scope # {} /\ item.object = None
        BY <2>2, <2>3 DEF ValidReassessment, CrossObserved
    <2> QED
        BY <1>2, <2>2, <2>3, <2>4 DEF PendingPlace
<1> QED
    BY <1>3, <1>4, <1>5 DEF Pending

\* What has happened when a proposal is confirmed.
Confirms(p, t) ==
    /\ p \in pending
    /\ t \in Time /\ t >= Now /\ Len(events) < MaxEvents
    /\ Fits(t, "feedback", {}, {}, None)
    /\ Happens(t, "feedback", {}, {}, None)
    /\ p.context = context
    /\ items' = Adopted(p, t)
    /\ changes' = Append(changes, Completed(p, t))
    /\ pending' = {}
    /\ context' = context

LEMMA ConfirmConfirms ==
    ASSUME IInv, NEW t \in Time, Confirm(t)
    PROVE  \E p \in pending : InTime(p, t) /\ Confirms(p, t)
<1>1. PICK p \in pending :
        /\ InTime(p, t)
        /\ p.context = context
        /\ IF Valid(p)
           THEN /\ items' = Adopted(p, t)
                /\ changes' = Append(changes, Completed(p, t))
           ELSE UNCHANGED <<items, changes>>
        /\ pending' = Unresolved(p)
    BY DEF Confirm
<1>2. Valid(p)
    BY DEF IInv, PendingInv
<1>3. pending' = {}
    BY <1>1 DEF Unresolved, IInv, TypeInv
<1>4. t >= Now /\ Len(events) < MaxEvents /\ Happens(t, "feedback", {}, {}, None) /\ context' = context
    BY DEF Confirm, Received
<1>5. Fits(t, "feedback", {}, {}, None)
    BY <1>4, NothingFits DEF Kinds
<1> QED
    BY <1>1, <1>2, <1>3, <1>4, <1>5 DEF Confirms

\* The change as the steps below use it: item i becomes after; before is what
\* it was, if there was one.
ChangesTo(p, t, i, before, after) ==
    /\ i \in Nat \ {0} /\ after \in Item /\ before \subseteq Item
    /\ Made(p, t, after)
    /\ items' \in Seq(Item)
    /\ DOMAIN items' = DOMAIN items \cup {i}
    /\ \A j \in DOMAIN items : j # i => items'[j] = items[j]
    /\ items'[i] = after
    /\ \/ i \notin DOMAIN items /\ p.target = 0 /\ before = {} /\ after.version = 1
       \/ /\ i \in DOMAIN items /\ p.target = i /\ before = {items[i]}
          /\ items[i].version = p.expected /\ items[i].version < after.version
    /\ Len(changes') = Len(changes) + 1
    /\ DOMAIN changes' = 1..Len(changes) + 1
    /\ \A n \in 1..Len(changes) : changes'[n] = changes[n]
    /\ changes'[Len(changes) + 1] = [item |-> i, before |-> before, after |-> after, proposal |-> p]
    /\ changes' \in Seq(Change)

LEMMA ConfirmChanges ==
    ASSUME IInv, NEW p \in pending, NEW t, Confirms(p, t)
    PROVE  \E i, before, after : ChangesTo(p, t, i, before, after)
<1>1. TypeInv /\ ItemsInv /\ p \in Pending /\ PendingPlace(p) /\ Valid(p)
    BY DEF IInv, PendingInv, TypeInv
<1>2. /\ t \in Time /\ Len(events) < MaxEvents
      /\ Fits(t, "feedback", {}, {}, None) /\ Happens(t, "feedback", {}, {}, None)
      /\ items' = Adopted(p, t) /\ changes' = Append(changes, Completed(p, t))
    BY DEF Confirms
<1>3. This \in 1..MaxEvents
    BY <1>1, <1>2, Happened
<1>4. PICK i, after : i = Place(p) /\ after = Adopted(p, t)[Place(p)]
    OBVIOUS
<1>5. PICK before : before = IF p.target = 0 THEN {} ELSE {items[i]}
    OBVIOUS
<1>6. /\ items' \in Seq(Item) /\ DOMAIN items' = DOMAIN items \cup {i}
      /\ \A j \in DOMAIN items : j # i => items'[j] = items[j]
      /\ items'[i] = after /\ after \in Item /\ Made(p, t, after)
    BY <1>1, <1>2, <1>3, <1>4, AdoptedIsOne
<1>7. /\ i \in Nat \ {0}
      /\ p.target = 0 => i \notin DOMAIN items /\ NextVersion(p) = 1
      /\ p.target # 0 => /\ i = p.target /\ i \in DOMAIN items
                         /\ items[i].version = p.expected /\ items[i].version < NextVersion(p)
    BY <1>1, <1>4, Targets
<1>8. after.version = NextVersion(p)
    BY <1>6 DEF Made
<1>9. before \subseteq Item
    BY <1>1, <1>5, <1>7, Shape
<1>10. PICK change : change = [item |-> i, before |-> before, after |-> after, proposal |-> p]
    OBVIOUS
<1>11. Completed(p, t) = change
    BY <1>4, <1>5, <1>10 DEF Completed, Place
<1>12. change \in Change
    BY <1>1, <1>6, <1>7, <1>9, <1>10 DEF Change
<1>13. /\ Len(changes') = Len(changes) + 1
       /\ \A n \in 1..Len(changes) : changes'[n] = changes[n]
       /\ changes'[Len(changes) + 1] = change
       /\ changes' \in Seq(Change)
    BY <1>1, <1>2, <1>11, <1>12, AppendProperties DEF TypeInv
<1>14. DOMAIN changes' = 1..Len(changes) + 1
    BY <1>13, LenProperties
<1>15. \/ i \notin DOMAIN items /\ p.target = 0 /\ before = {} /\ after.version = 1
       \/ /\ i \in DOMAIN items /\ p.target = i /\ before = {items[i]}
          /\ items[i].version = p.expected /\ items[i].version < after.version
    BY <1>5, <1>7, <1>8
<1> QED
    BY <1>6, <1>7, <1>9, <1>10, <1>13, <1>14, <1>15 DEF ChangesTo

LEMMA ConfirmFacts ==
    ASSUME IInv, NEW p \in pending, NEW t, Confirms(p, t)
    PROVE  /\ TypeInv /\ EventsInv /\ ItemsInv /\ RecordsInv /\ HistorySavable /\ UsageInv /\ AskFirstIsKept
           /\ p \in Pending /\ PendingPlace(p) /\ Valid(p)
           /\ Grows /\ Now' = t /\ t \in Nat /\ t \in Time /\ t >= Now
           /\ This \in DOMAIN events' /\ events'[This].context = context
           /\ events'[This].used = {} /\ events'[This].kind = "feedback"
           /\ \A n \in DOMAIN events' : n \in DOMAIN events \/ n = This
           /\ p.evidence \in DOMAIN events /\ p.id \in DOMAIN events
<1>1. /\ TypeInv /\ EventsInv /\ ItemsInv /\ RecordsInv /\ HistorySavable /\ UsageInv /\ AskFirstIsKept
      /\ p \in Pending /\ PendingPlace(p) /\ Valid(p)
    BY DEF IInv, PendingInv, TypeInv
<1>2. /\ t \in Time /\ t >= Now /\ Len(events) < MaxEvents
      /\ Fits(t, "feedback", {}, {}, None) /\ Happens(t, "feedback", {}, {}, None)
    BY DEF Confirms
<1>3. Grows
    BY <1>1, <1>2, Growth
<1>4. Now' = t
    BY <1>1, <1>2, TimePasses
<1>5. /\ This \in DOMAIN events' /\ events'[This].context = context
      /\ events'[This].used = {} /\ events'[This].kind = "feedback"
      /\ \A n \in DOMAIN events' : n \in DOMAIN events \/ n = This
    BY <1>1, <1>2, Happened
<1>6. p.evidence \in DOMAIN events /\ p.id \in DOMAIN events
    BY <1>1, Shape DEF PendingPlace, Pending
<1> QED
    BY <1>1, <1>2, <1>3, <1>4, <1>5, <1>6, Bounds

LEMMA ConfirmTypes ==
    ASSUME IInv, NEW p \in pending, NEW t, Confirms(p, t),
           NEW i, NEW before, NEW after, ChangesTo(p, t, i, before, after)
    PROVE  TypeInv'
<1>1. TypeInv
    BY DEF IInv
<1>2. /\ events' \in Seq(Event)
      /\ Len(events') = Len(events) + 1
      /\ Len(events') <= MaxEvents
    BY <1>1, Happened DEF Confirms
<1>3. Len(changes) \in Nat /\ Len(events) \in Nat
    BY <1>1, Shape
<1>4. items' \in Seq(Item) /\ changes' \in Seq(Change) /\ Len(changes') = Len(changes) + 1
    BY DEF ChangesTo
<1>5. pending' = {} /\ context' = context
    BY DEF Confirms
<1> QED
    BY <1>1, <1>2, <1>3, <1>4, <1>5 DEF TypeInv

\* The item that is made or ended rests on what the proposal rested on.
LEMMA ConfirmItem ==
    ASSUME IInv, NEW p \in pending, NEW t, Confirms(p, t),
           NEW i, NEW before, NEW after, ChangesTo(p, t, i, before, after)
    PROVE  ItemInv(after)'
<1>1. PICK new : new = This
    OBVIOUS
<1>2. /\ TypeInv /\ EventsInv /\ ItemsInv /\ p \in Pending /\ PendingPlace(p) /\ Valid(p)
      /\ Grows /\ Now' = t /\ t \in Nat /\ t \in Time /\ t >= Now
      /\ new \in DOMAIN events' /\ events'[new].context = context
      /\ p.evidence \in DOMAIN events /\ p.id \in DOMAIN events
    BY <1>1, ConfirmFacts
<1>3. after \in Item /\ Made(p, t, after)
    BY DEF ChangesTo
<1>4. PICK e \in DOMAIN events, f \in DOMAIN events :
        /\ e = p.evidence /\ f = p.id
        /\ e \in DOMAIN events' /\ f \in DOMAIN events'
        /\ events'[e] = events[e] /\ events'[f] = events[f]
        /\ f < new
    BY <1>1, <1>2 DEF Grows
<1>5. /\ after.evidence = e /\ after.feedback = f /\ after.confirmation = new
      /\ after.confirmedAt = t /\ after.object = events[e].object
      /\ after.active <=> p.operation # "reject"
    BY <1>1, <1>3, <1>4 DEF Made
<1>6. e < f /\ events[f].context = p.context
    BY <1>2, <1>4 DEF PendingPlace
<1>7. /\ after.object # None => after.scope = {}
      /\ after.context # events[e].context => after.scope # {} /\ after.object = None
      /\ t >= events[e].at
      /\ after.active => events[e].context = p.context
    BY <1>2, <1>3, <1>4, MadeRests
<1>8. e # f /\ e # new
    BY <1>1, <1>2, <1>4, <1>6, Shape
<1>9. Provenance(after)'
    BY <1>4, <1>5, <1>7, <1>8 DEF Provenance
<1>10. after.active => LastBefore(e, f)'
    <2>1. after.active => LastBefore(e, f)
        BY <1>2, <1>4, <1>5 DEF PendingPlace
    <2> QED
        BY <1>2, <2>1, LastBeforeKept
<1>11. p.context = context
    BY DEF Confirms
<1>12. after.confirmedAt <= Now'
    BY <1>2, <1>5
<1> QED
    BY <1>2, <1>4, <1>5, <1>6, <1>7, <1>9, <1>10, <1>11, <1>12 DEF ItemInv

LEMMA ConfirmItems ==
    ASSUME IInv, NEW p \in pending, NEW t, Confirms(p, t),
           NEW i, NEW before, NEW after, ChangesTo(p, t, i, before, after)
    PROVE  ItemsInv'
<1>1. ItemInv(after)' /\ items'[i] = after
    BY ConfirmItem DEF ChangesTo
<1>2. TypeInv /\ ItemsInv /\ Grows
    BY ConfirmFacts
<1>3. ASSUME NEW j \in DOMAIN items, j # i
      PROVE  ItemInv(items[j])'
    <2>1. PICK item \in Item : item = items[j]
        BY <1>2, Shape
    <2>2. ItemInv(item)'
        BY <1>2, <2>1, ItemKept DEF ItemsInv
    <2>3. items'[j] = item
        BY <1>3, <2>1 DEF ChangesTo
    <2> QED
        BY <2>2, <2>3 DEF ItemInv, Provenance, LastBefore
<1>4. ItemInv(items[i])'
    BY <1>1 DEF ItemInv, Provenance, LastBefore
<1>5. \A j \in DOMAIN items' : j = i \/ j \in DOMAIN items
    BY DEF ChangesTo
<1> QED
    BY <1>3, <1>4, <1>5 DEF ItemsInv

LEMMA ConfirmRecords ==
    ASSUME IInv, NEW p \in pending, NEW t, Confirms(p, t),
           NEW i, NEW before, NEW after, ChangesTo(p, t, i, before, after)
    PROVE  RecordsInv'
<1>1. TypeInv /\ RecordsInv /\ Grows /\ Now' = t /\ t \in Nat
    BY ConfirmFacts
<1>2. Len(changes) \in Nat /\ DOMAIN changes = 1..Len(changes)
    BY <1>1, Shape
<1>3. ASSUME NEW n \in DOMAIN changes
      PROVE  RecordInv(changes[n])'
    <2>1. PICK change : change = changes[n] /\ changes'[n] = change
        BY <1>2 DEF ChangesTo
    <2>2. RecordInv(change)
        BY <1>1, <2>1 DEF RecordsInv
    <2>3. change.after.confirmedAt <= Now'
        <3>1. change.after.confirmedAt \in Nat
            BY <1>1, <2>1, Shape, Bounds DEF Change, Item
        <3>2. change.after.confirmedAt <= Now
            BY <2>2 DEF RecordInv
        <3>3. Now \in Nat /\ Now' \in Nat /\ Now <= Now'
            BY <1>1 DEF Grows
        <3> QED
            BY <3>1, <3>2, <3>3
    <2>4. /\ change.item \in DOMAIN items'
          /\ change.after.version <= items'[change.item].version
          /\ change.after.version = items'[change.item].version => change.after = items'[change.item]
        <3>1. change.item \in DOMAIN items /\ change.item \in DOMAIN items'
            BY <2>2 DEF RecordInv, ChangesTo
        <3>2. CASE change.item # i
            BY <2>2, <3>1, <3>2 DEF RecordInv, ChangesTo
        <3>3. CASE change.item = i
            <4>1. items'[i] = after /\ items[i].version < after.version
                BY <3>1, <3>3 DEF ChangesTo
            <4>2. change.after.version <= items[i].version
                BY <2>2, <3>3 DEF RecordInv
            <4>3. change.after.version \in Nat /\ items[i].version \in Nat /\ after.version \in Nat
                BY <1>1, <2>1, <3>1, <3>3, Shape DEF Change, Item, ChangesTo
            <4> QED
                BY <3>1, <3>3, <4>1, <4>2, <4>3
        <3> QED
            BY <3>2, <3>3
    <2>5. change.after.evidence \in DOMAIN events'
        BY <1>1, <2>2 DEF RecordInv, Grows
    <2>6. RecordInv(change)'
        BY <2>3, <2>4, <2>5 DEF RecordInv
    <2> QED
        BY <2>1, <2>6 DEF RecordInv
<1>4. PICK new : new = Len(changes) + 1
    OBVIOUS
<1>5. /\ changes'[new].item = i /\ changes'[new].after = after
      /\ new \in DOMAIN changes' /\ i \in DOMAIN items' /\ items'[i] = after
    BY <1>2, <1>4 DEF ChangesTo
<1>6. RecordInv(changes[new])'
    <2>1. after.evidence \in DOMAIN events' /\ after.confirmedAt <= Now'
        BY ConfirmItem DEF ItemInv
    <2>2. after.version \in Nat
        BY DEF ChangesTo, Item
    <2> QED
        BY <1>5, <2>1, <2>2 DEF RecordInv
<1>7. \A n \in DOMAIN changes' : n \in DOMAIN changes \/ n = new
    BY <1>2, <1>4 DEF ChangesTo
<1>8. ASSUME NEW j \in DOMAIN items'
      PROVE  \E n \in DOMAIN changes' : changes'[n].item = j /\ changes'[n].after = items'[j]
    <2>1. CASE j = i
        BY <1>5, <2>1
    <2>2. CASE j # i
        <3>1. j \in DOMAIN items /\ items'[j] = items[j]
            BY <2>2 DEF ChangesTo
        <3>2. PICK n \in DOMAIN changes : changes[n].item = j /\ changes[n].after = items[j]
            BY <1>1, <3>1 DEF RecordsInv
        <3>3. changes'[n] = changes[n] /\ n \in DOMAIN changes'
            BY <1>2 DEF ChangesTo
        <3> QED
            BY <3>1, <3>2, <3>3
    <2> QED
        BY <2>1, <2>2
<1> QED
    BY <1>3, <1>6, <1>7, <1>8 DEF RecordsInv

\* The history before a change, once there is one more.
Only(after) == {after}
LEMMA BeforeNext ==
    ASSUME TypeInv, NEW p, NEW t, NEW i, NEW before, NEW after, ChangesTo(p, t, i, before, after),
           NEW j, NEW len, len = Len(changes)
    PROVE  /\ Before(len + 1, j)' = Before(len + 1, j)
           /\ j = i => Before(len + 2, j)' = Only(after)
           /\ j # i => Before(len + 2, j)' = Before(len + 1, j)
<1>1. len \in Nat /\ DOMAIN changes = 1..len
    BY Shape
<1>2. \A n \in 1..len : changes'[n] = changes[n]
    BY DEF ChangesTo
<1>3. changes'[len + 1].item = i /\ changes'[len + 1].after = after
    BY DEF ChangesTo
<1>4. (len + 1) - 1 = len /\ (len + 2) - 1 = len + 1
    BY <1>1
<1>5. PICK old : old = {k \in 1..len : changes[k].item = j}
    OBVIOUS
<1>6. PICK all : all = {k \in 1..len + 1 : changes'[k].item = j}
    OBVIOUS
<1>7. {k \in 1..len : changes'[k].item = j} = old
    BY <1>2, <1>5
<1>8. Before(len + 1, j) = {changes[m].after : m \in Last(old)}
    BY <1>4, <1>5 DEF Before
<1>9. Before(len + 1, j)' = {changes'[m].after : m \in Last(old)}
    BY <1>4, <1>7 DEF Before, Last
<1>10. Before(len + 2, j)' = {changes'[m].after : m \in Last(all)}
    BY <1>4, <1>6 DEF Before, Last
<1>11. Last(old) \subseteq 1..len
    BY <1>5 DEF Last
<1>12. Before(len + 1, j)' = Before(len + 1, j)
    BY <1>2, <1>8, <1>9, <1>11
<1>13. CASE j = i
    <2>1. len + 1 \in all /\ \A k \in all : k <= len + 1
        BY <1>1, <1>3, <1>6, <1>13
    <2>2. \A k \in all : k \in Nat
        BY <1>1, <1>6
    <2>3. Last(all) = {len + 1}
        <3>1. \A k \in all : len + 1 <= k => k = len + 1
            BY <1>1, <2>1, <2>2
        <3> QED
            BY <2>1, <3>1 DEF Last
    <2>4. Before(len + 2, j)' = {changes'[m].after : m \in {len + 1}}
        BY <1>10, <2>3
    <2>5. Before(len + 2, j)' = Only(after)
        BY <1>3, <2>4 DEF Only
    <2> QED
        BY <1>12, <1>13, <2>5
<1>14. CASE j # i
    <2>1. all = old
        <3>1. \A k \in 1..len + 1 : k \in 1..len \/ k = len + 1
            BY <1>1
        <3>2. \A k \in 1..len : k \in 1..len + 1
            BY <1>1
        <3>3. \A k \in all : k \in old
            BY <1>2, <1>3, <1>5, <1>6, <1>14, <3>1
        <3>4. \A k \in old : k \in all
            BY <1>2, <1>5, <1>6, <3>2
        <3> QED
            BY <3>3, <3>4
    <2> QED
        BY <1>9, <1>10, <1>12, <1>14, <2>1
<1> QED
    BY <1>13, <1>14

\* The new record says what was proposed, and follows what the item was.
LEMMA RecordAsProposed ==
    ASSUME IInv, NEW p \in pending, NEW t, Confirms(p, t),
           NEW i, NEW before, NEW after, ChangesTo(p, t, i, before, after),
           NEW change, change = [item |-> i, before |-> before, after |-> after, proposal |-> p]
    PROVE  AsProposed(change)'
<1>1. /\ p \in Pending /\ PendingPlace(p) /\ Valid(p) /\ Grows /\ p.evidence \in DOMAIN events
    BY ConfirmFacts
<1>2. PICK e \in DOMAIN events : e = p.evidence /\ events'[e] = events[e]
    BY <1>1 DEF Grows
<1>3. /\ after.evidence = e /\ after.feedback = p.id
      /\ after.active <=> p.operation # "reject"
      /\ p.operation # "reject" => after.value = p.value /\ after.scope = p.scope
    BY <1>2 DEF ChangesTo, Made
<1>4. change.item = i /\ change.before = before /\ change.after = after /\ change.proposal = p
    OBVIOUS
<1>5. p.operation # "reject" => p.context = events[e].context
    BY <1>1, <1>2 DEF Valid
<1>6. p.at >= events[e].at /\ (p.operation = "add" <=> p.target = 0)
    BY <1>1, <1>2 DEF PendingPlace
<1>7. IF p.operation = "add" THEN before = {} /\ p.target = 0
      ELSE \E b \in before : p.target = i /\ p.expected = b.version
    BY <1>6 DEF ChangesTo
<1> HIDE DEF ChangesTo
<1> QED
    BY <1>2, <1>3, <1>4, <1>5, <1>6, <1>7 DEF AsProposed

LEMMA RecordBegins ==
    ASSUME IInv, NEW p \in pending, NEW t, Confirms(p, t),
           NEW i, NEW before, NEW after, ChangesTo(p, t, i, before, after), before = {}
    PROVE  Begins(after)'
<1>1. /\ PendingPlace(p) /\ Valid(p) /\ Grows /\ p.evidence \in DOMAIN events
    BY ConfirmFacts
<1>2. PICK e \in DOMAIN events : e = p.evidence /\ events'[e] = events[e]
    BY <1>1 DEF Grows
<1>3. p.target = 0 /\ after.version = 1
    BY DEF ChangesTo
<1>4. p.operation = "add" /\ events[e].context = p.context
    BY <1>1, <1>2, <1>3 DEF PendingPlace, Valid
<1>5. after.evidence = e /\ after.active /\ after.context = p.context
    BY <1>2, <1>3, <1>4 DEF ChangesTo, Made, Home
<1> QED
    BY <1>2, <1>3, <1>4, <1>5 DEF Begins

LEMMA RecordFollows ==
    ASSUME IInv, NEW p \in pending, NEW t, Confirms(p, t),
           NEW i, NEW before, NEW after, ChangesTo(p, t, i, before, after), before # {}
    PROVE  \A b \in before : Follows(i, b, after)'
<1>1. /\ TypeInv /\ EventsInv /\ ItemsInv
      /\ p \in Pending /\ PendingPlace(p) /\ Valid(p) /\ Grows /\ p.evidence \in DOMAIN events
      /\ t \in Nat /\ t >= Now
    BY ConfirmFacts
<1>2. PICK e \in DOMAIN events : e = p.evidence /\ events'[e] = events[e]
    BY <1>1 DEF Grows
<1>3. i \in DOMAIN items /\ p.target = i /\ before = {items[i]} /\ p.expected = items[i].version
    BY DEF ChangesTo
<1>4. PICK b : b = items[i]
    OBVIOUS
<1>5. b \in Item /\ ItemInv(b)
    BY <1>1, <1>3, <1>4, Shape DEF ItemsInv
<1>6. p.target # 0 /\ p.operation # "add"
    BY <1>1, <1>3, Shape DEF PendingPlace
<1>7. Made(p, t, after)
    BY DEF ChangesTo
<1>8. /\ after.context = b.context /\ after.evidence = e /\ after.confirmedAt = t
      /\ after.object = events[e].object
      /\ after.active <=> p.operation # "reject"
      /\ p.operation # "reject" => after.value = p.value /\ after.scope = p.scope
      /\ p.operation = "reject" => after.value = b.value /\ after.scope = b.scope
    BY <1>2, <1>3, <1>4, <1>6, <1>7 DEF Made, Home
<1>9. b.confirmedAt <= t
    <2>1. b.confirmedAt <= Now /\ b.confirmedAt \in Nat /\ Now \in Nat
        BY <1>1, <1>5, Bounds, NowProperties DEF ItemInv, Item
    <2> QED
        BY <1>1, <2>1
<1>10. CASE p.operation = "reject"
    <2>1. b.evidence = e
        BY <1>1, <1>2, <1>3, <1>4, <1>10 DEF Valid
    <2>2. b.object = events[e].object
        BY <1>5, <2>1 DEF ItemInv, Provenance
    <2>3. Follows(i, b, after)'
        BY <1>2, <1>8, <1>9, <1>10, <2>1, <2>2 DEF Follows
    <2> QED
        BY <1>3, <1>4, <2>3
<1>11. CASE p.operation # "reject"
    <2>1. ValidReassessment(p) /\ events[e].context = p.context
        BY <1>1, <1>2, <1>6, <1>11 DEF Valid
    <2>2. /\ Target(b.value) = Target(p.value) /\ e # b.evidence
          /\ events[e].at >= b.confirmedAt /\ events[e].object = b.object
        BY <1>2, <1>3, <1>4, <2>1 DEF ValidReassessment
    <2>3. b.context # p.context => p.scope = b.scope /\ CrossObserved(b, i, e)
        BY <1>2, <1>3, <1>4, <2>1 DEF ValidReassessment
    <2>4. events[e].kind \in Adaptable \cup {"capability"}
        BY <1>1, <1>2, <1>11 DEF PendingPlace
    <2>5. CrossObserved(b, i, e) => MadeWith(i, b, e)'
        BY <1>2, <2>4 DEF CrossObserved, MadeWith
    <2>6. b.context # events'[e].context => b.scope = after.scope /\ MadeWith(i, b, e)'
        BY <1>2, <1>8, <1>11, <2>1, <2>3, <2>5
    <2>7. Follows(i, b, after)'
        BY <1>2, <1>8, <1>9, <1>11, <2>2, <2>6 DEF Follows, MadeWith
    <2> QED
        BY <1>3, <1>4, <2>7
<1> QED
    BY <1>10, <1>11

LEMMA ConfirmHistory ==
    ASSUME IInv, NEW p \in pending, NEW t, Confirms(p, t),
           NEW i, NEW before, NEW after, ChangesTo(p, t, i, before, after)
    PROVE  HistorySavable'
<1>1. /\ TypeInv /\ RecordsInv /\ HistorySavable /\ Grows /\ t \in Nat /\ t >= Now
    BY ConfirmFacts
<1>2. PICK len : len = Len(changes)
    OBVIOUS
<1>3. len \in Nat /\ DOMAIN changes = 1..len
    BY <1>1, <1>2, Shape
<1>4. /\ Len(changes') = len + 1 /\ DOMAIN changes' = 1..len + 1
      /\ \A n \in 1..len : changes'[n] = changes[n]
    BY <1>2 DEF ChangesTo
<1>5. PICK change : change = [item |-> i, before |-> before, after |-> after, proposal |-> p]
    OBVIOUS
<1>6. changes'[len + 1] = change
    BY <1>2, <1>5 DEF ChangesTo
<1>7. change.item = i /\ change.before = before /\ change.after = after
    BY <1>5
<1>8. \A j : /\ Before(len + 1, j)' = Before(len + 1, j)
             /\ j = i => Before(len + 2, j)' = Only(after)
             /\ j # i => Before(len + 2, j)' = Before(len + 1, j)
    <2>1. TypeInv /\ ChangesTo(p, t, i, before, after) /\ len = Len(changes)
        BY <1>1, <1>2
    <2> TAKE j
    <2>2. Before(len + 1, j)' = Before(len + 1, j)
        BY ONLY <2>1, BeforeNext
    <2>3. j = i => Before(len + 2, j)' = Only(after)
        BY ONLY <2>1, BeforeNext
    <2>4. j # i => Before(len + 2, j)' = Before(len + 1, j)
        BY ONLY <2>1, BeforeNext
    <2> QED
        BY <2>2, <2>3, <2>4
<1>9. \A j \in DOMAIN items : Before(len + 1, j) = {items[j]}
    BY <1>1, <1>2, HistoryParts
<1>10. before = Before(len + 1, i)
    <2>1. CASE i \in DOMAIN items
        BY <1>9, <2>1 DEF ChangesTo
    <2>2. CASE i \notin DOMAIN items
        <3>1. \A k \in 1..len : changes[k].item # i
            BY <1>1, <1>3, <2>2 DEF RecordsInv, RecordInv
        <3>2. {k \in 1..(len + 1) - 1 : changes[k].item = i} = {}
            BY <1>3, <3>1
        <3>3. Before(len + 1, i) = {}
            BY <3>2 DEF Before, Last
        <3> QED
            BY <2>2, <3>3 DEF ChangesTo
    <2> QED
        BY <2>1, <2>2
<1>11. \A n \in 1..len : ChangeSavable(n)'
    <2> SUFFICES ASSUME NEW n \in 1..len
                 PROVE  ChangeSavable(n)'
        OBVIOUS
    <2>1. ChangeSavable(n) /\ RecordInv(changes[n])
        BY <1>1, <1>3, HistoryParts DEF RecordsInv
    <2>2. n \in DOMAIN changes /\ n \in DOMAIN changes' /\ \A k \in 1..n : changes'[k] = changes[k]
        BY <1>3, <1>4
    <2> QED
        BY <1>1, <2>1, <2>2, ChangeKept
<1>12. PICK new : new = len + 1
    OBVIOUS
<1>13. ChangeSavable(new)'
    <2>1. changes'[new].before = Before(new, changes[new].item)'
        <3>1. Before(new, i)' = before
            BY <1>8, <1>10, <1>12
        <3> QED
            BY <1>6, <1>7, <1>12, <3>1 DEF Before, Last
    <2>2. Provenance(after)'
        BY ConfirmItem DEF ItemInv
    <2>3. AsProposed(change)'
        BY <1>5, RecordAsProposed
    <2>4. before = {} => Begins(after)'
        BY RecordBegins
    <2>5. before # {} => \A b \in before : Follows(i, b, after)'
        BY RecordFollows
    <2>6. changes'[new] = change
        BY <1>6, <1>12
    <2>7. Provenance(changes[new].after)'
        BY <1>7, <2>2, <2>6 DEF Provenance
    <2>8. AsProposed(changes[new])'
        BY <2>3, <2>6 DEF AsProposed
    <2>9. changes'[new].before = {} => Begins(changes[new].after)'
        BY <1>7, <2>4, <2>6 DEF Begins
    <2>10. changes'[new].before # {} =>
               \A b \in changes'[new].before : Follows(changes[new].item, b, changes[new].after)'
        BY <1>7, <2>5, <2>6 DEF Follows, MadeWith
    <2> QED
        BY <2>1, <2>7, <2>8, <2>9, <2>10 DEF ChangeSavable
<1>14. \A n \in DOMAIN changes' : ChangeSavable(n)'
    <2>1. \A n \in 1..len + 1 : n \in 1..len \/ n = new
        BY <1>3, <1>12
    <2> QED
        BY <1>4, <1>11, <1>13, <2>1
<1>15. \A n \in 2..Len(changes') : changes'[n - 1].after.confirmedAt <= changes'[n].after.confirmedAt
    <2> SUFFICES ASSUME NEW n \in 2..len + 1
                 PROVE  changes'[n - 1].after.confirmedAt <= changes'[n].after.confirmedAt
        BY <1>4
    <2>1. n - 1 \in 1..len /\ changes'[n - 1] = changes[n - 1]
        BY <1>3, <1>4
    <2>2. CASE n \in 1..len
        <3>1. n \in 2..Len(changes)
            BY <1>2, <1>3, <2>2
        <3>2. changes[n - 1].after.confirmedAt <= changes[n].after.confirmedAt
            BY <1>1, <3>1, HistoryParts
        <3> QED
            BY <1>4, <2>1, <2>2, <3>2
    <2>3. CASE n = len + 1
        <3>1. changes'[n].after.confirmedAt = t
            BY <1>6, <1>7, <2>3 DEF ChangesTo, Made
        <3>2. changes[n - 1].after.confirmedAt <= Now
            BY <1>1, <1>3, <2>1 DEF RecordsInv, RecordInv
        <3>3. changes[n - 1].after.confirmedAt \in Nat /\ Now \in Nat
            BY <1>1, <1>2, <2>1, Shape, Bounds DEF Change, Item, Grows
        <3> QED
            BY <1>1, <2>1, <3>1, <3>2, <3>3
    <2> QED
        BY <1>3, <2>2, <2>3
<1>16. \A j \in DOMAIN items' : Before(Len(changes) + 1, j)' = {items'[j]}
    <2> SUFFICES ASSUME NEW j \in DOMAIN items'
                 PROVE  Before(Len(changes) + 1, j)' = {items'[j]}
        OBVIOUS
    <2>1. Before(len + 2, j)' = {items'[j]}
        <3>1. CASE j = i
            BY <1>8, <3>1 DEF ChangesTo, Only
        <3>2. CASE j # i
            BY <1>8, <1>9, <3>2 DEF ChangesTo
        <3> QED
            BY <3>1, <3>2
    <2>2. Len(changes') + 1 = len + 2
        BY <1>3, <1>4
    <2> QED
        BY <2>1, <2>2 DEF Before, Last
<1> QED
    BY <1>14, <1>15, <1>16 DEF HistorySavable, ChangeSavable

\* The new record is of a version that no event can have used.
LEMMA ConfirmUsage ==
    ASSUME IInv, NEW p \in pending, NEW t, Confirms(p, t),
           NEW i, NEW before, NEW after, ChangesTo(p, t, i, before, after)
    PROVE  UsageInv'
<1>1. PICK new : new = This
    OBVIOUS
<1>2. /\ TypeInv /\ RecordsInv /\ UsageInv /\ Grows
      /\ events'[new].used = {}
      /\ \A n \in DOMAIN events' : n \in DOMAIN events \/ n = new
    BY <1>1, ConfirmFacts
<1>3. PICK len : len = Len(changes)
    OBVIOUS
<1>4. len \in Nat /\ DOMAIN changes = 1..len /\ DOMAIN changes' = 1..len + 1
    BY <1>2, <1>3, Shape DEF ChangesTo
<1>5. /\ \A n \in 1..len : changes'[n] = changes[n]
      /\ changes'[len + 1].item = i /\ changes'[len + 1].after = after
    BY <1>3 DEF ChangesTo
<1>6. ASSUME NEW n \in DOMAIN events, NEW version \in events[n].used
      PROVE  Historical(version)' = Historical(version)
    <2>1. \E item \in Historical(version) : item.active
        BY <1>2 DEF UsageInv, UsageSavable
    <2>2. PICK k \in DOMAIN changes :
            changes[k].item = version[1] /\ changes[k].after.version = version[2]
        BY <2>1 DEF Historical
    <2>3. version[1] \in DOMAIN items /\ version[2] <= items[version[1]].version
        BY <1>2, <2>2 DEF RecordsInv, RecordInv
    <2>4. ~(i = version[1] /\ after.version = version[2])
        <3> SUFFICES ASSUME i = version[1], after.version = version[2]
                     PROVE  FALSE
            OBVIOUS
        <3>1. items[i].version < after.version
            BY <2>3 DEF ChangesTo
        <3>2. items[i].version \in Nat /\ after.version \in Nat
            BY <1>2, <2>3, Shape DEF Item, ChangesTo
        <3> QED
            BY <2>3, <3>1, <3>2
    <2>5. PICK old : old = {m \in DOMAIN changes :
                            changes[m].item = version[1] /\ changes[m].after.version = version[2]}
        OBVIOUS
    <2>6. PICK all : all = {m \in DOMAIN changes' :
                            changes'[m].item = version[1] /\ changes'[m].after.version = version[2]}
        OBVIOUS
    <2>7. \A m \in all : m \in old
        <3>1. \A m \in 1..len + 1 : m \in 1..len \/ m = len + 1
            BY <1>4
        <3> QED
            BY <1>4, <1>5, <2>4, <2>5, <2>6, <3>1
    <2>8. \A m \in old : m \in all
        <3>1. \A m \in 1..len : m \in 1..len + 1
            BY <1>4
        <3> QED
            BY <1>4, <1>5, <2>5, <2>6, <3>1
    <2>9. all = old /\ old \subseteq 1..len
        BY <1>4, <2>5, <2>7, <2>8
    <2>10. Historical(version) = {changes[m].after : m \in old}
        BY <2>5 DEF Historical
    <2>11. Historical(version)' = {changes'[m].after : m \in all}
        BY <2>6 DEF Historical
    <2> QED
        BY <1>5, <2>9, <2>10, <2>11
<1>7. UsageSavable(new)'
    BY <1>2 DEF UsageSavable
<1> QED
    BY <1>2, <1>6, <1>7, UsageKept

LEMMA ConfirmKeeps ==
    ASSUME IInv, NEW t \in Time, Confirm(t)
    PROVE  IInv'
<1>1. PICK p \in pending : Confirms(p, t)
    BY ConfirmConfirms
<1>2. PICK i, before, after : ChangesTo(p, t, i, before, after)
    BY <1>1, ConfirmChanges
<1>3. TypeInv' /\ ItemsInv' /\ RecordsInv'
    BY <1>1, <1>2, ConfirmTypes, ConfirmItems, ConfirmRecords
<1>4. HistorySavable' /\ UsageInv'
    BY <1>1, <1>2, ConfirmHistory, ConfirmUsage
<1>5. EventsInv'
    BY <1>1, ConfirmFacts, EventsStep DEF Confirms
<1>6. PendingInv'
    BY <1>1 DEF Confirms, PendingInv
<1>7. AskFirstIsKept'
    BY <1>1, ConfirmFacts, AskFirstGrows
<1> QED
    BY <1>3, <1>4, <1>5, <1>6, <1>7 DEF IInv

LEMMA InitKeeps ==
    ASSUME Init
    PROVE  IInv
<1>1. events = <<>> /\ items = <<>> /\ changes = <<>> /\ pending = {} /\ context = 1
    BY DEF Init
<1>2. /\ <<>> \in Seq(Event) /\ <<>> \in Seq(Item) /\ <<>> \in Seq(Change)
      /\ Len(<<>>) = 0
    OBVIOUS
<1>3. DOMAIN events = {} /\ DOMAIN items = {} /\ DOMAIN changes = {}
    BY <1>1
<1>4. TypeInv
    BY <1>1, <1>2, Bounds DEF TypeInv
<1>5. EventsInv /\ AskFirstIsKept
    BY <1>3 DEF EventsInv, Inputs, AskFirstIsKept
<1>6. ItemsInv /\ RecordsInv /\ UsageInv /\ PendingInv
    BY <1>1, <1>3 DEF ItemsInv, RecordsInv, UsageInv, PendingInv
<1>7. HistorySavable
    <2>1. 2..Len(changes) = {}
        BY <1>1, <1>2
    <2> QED
        BY <1>3, <2>1 DEF HistorySavable
<1> QED
    BY <1>4, <1>5, <1>6, <1>7 DEF IInv

LEMMA NothingKeeps ==
    ASSUME IInv, UNCHANGED vars
    PROVE  IInv'
<1>1. /\ events' = events /\ items' = items /\ changes' = changes /\ pending' = pending
      /\ context' = context
    BY DEF vars
<1>2. TypeInv /\ EventsInv /\ ItemsInv /\ RecordsInv /\ HistorySavable /\ PendingInv /\ UsageInv
      /\ AskFirstIsKept
    BY DEF IInv
<1>3. Grows
    <2>1. Now' = Now /\ Now \in Nat
        BY <1>1, <1>2, NowProperties DEF Now, Inputs
    <2>2. \A n \in DOMAIN events : n < This
        BY <1>2, Shape DEF This
    <2> QED
        BY <1>1, <2>1, <2>2 DEF Grows
<1>4. TypeInv'
    BY <1>1, <1>2 DEF TypeInv
<1>5. EventsInv'
    BY <1>1, <1>2 DEF EventsInv, EventInv, Inputs
<1>6. ItemsInv' /\ RecordsInv' /\ HistorySavable'
    BY <1>1, <1>2, <1>3, ItemsKept, RecordsKept, HistoryKept
<1>7. PendingInv'
    BY <1>1, <1>2, <1>3, PendingKept
<1>8. UsageInv'
    BY <1>1, <1>2 DEF UsageInv, UsageSavable, Historical
<1>9. AskFirstIsKept'
    BY <1>1, <1>2 DEF AskFirstIsKept
<1> QED
    BY <1>4, <1>5, <1>6, <1>7, <1>8, <1>9 DEF IInv

LEMMA StepKeeps ==
    ASSUME IInv, [Next]_vars
    PROVE  IInv'
<1>1. CASE NewContext
    BY <1>1, NewContextKeeps
<1>2. ASSUME NEW t \in Time, Input(t)
      PROVE  IInv'
    <2>1. CASE \E words \in SUBSET (Topics \cup Objects), budget \in Budgets, intact \in BOOLEAN :
                    Talk(t, words, budget, intact)
        BY <2>1, TalkKeeps
    <2>2. CASE \E object \in Objects : CapabilityResult(t, object)
        BY <2>2, CapabilityResultKeeps
    <2>3. CASE Manage(t)
        BY <2>3, ManageKeeps
    <2>4. CASE Add(t)
        BY <2>4, AddKeeps
    <2>5. CASE Reassess(t)
        BY <2>5, ReassessKeeps
    <2>6. CASE Reject(t)
        BY <2>6, RejectKeeps
    <2>7. CASE Confirm(t)
        BY <2>7, ConfirmKeeps
    <2>8. CASE Drop(t)
        BY <2>8, DropKeeps
    <2> QED
        BY <1>2, <2>1, <2>2, <2>3, <2>4, <2>5, <2>6, <2>7, <2>8 DEF Input
<1>3. CASE UNCHANGED vars
    BY <1>3, NothingKeeps
<1> QED
    BY <1>1, <1>2, <1>3 DEF Next

\* The invariant is inductive: it holds at first, and every step keeps it.
THEOREM Inductive == Spec => []IInv
<1>1. Init => IInv
    BY InitKeeps
<1>2. IInv /\ [Next]_vars => IInv'
    BY StepKeeps
<1> QED
    BY <1>1, <1>2, PTL DEF Spec

------------------------------------------------------------------------------
(* What follows in every state *)

\* The types hold in every state, for every number of topics, inputs and contexts.
THEOREM TypeCorrect == Spec => []TypeOK
<1>1. IInv => TypeOK
    <2> SUFFICES ASSUME IInv
                 PROVE  TypeOK
        OBVIOUS
    <2>1. TypeInv /\ EventsInv
        BY DEF IInv
    <2>2. Len(changes) <= MaxEvents
        BY <2>1, Shape, Bounds DEF TypeInv
    <2>3. \A n \in DOMAIN changes : changes[n].after \in Item /\ changes[n].proposal \in Pending
        BY <2>1, Shape DEF Change
    <2>4. \A n \in DOMAIN events : Cardinality(events[n].used) <= 2
        BY <2>1 DEF EventsInv, EventInv
    <2> QED
        BY <2>1, <2>2, <2>3, <2>4 DEF TypeInv, TypeOK
<1> QED
    BY <1>1, Inductive, PTL

\* What waits for its confirmation can be confirmed as it was proposed, whatever
\* has been said, shown or begun since.
THEOREM PendingIsValid == Spec => []PendingStaysValid
<1>1. IInv => PendingStaysValid
    BY DEF IInv, PendingInv, PendingStaysValid
<1> QED
    BY <1>1, Inductive, PTL

\* An active experience rests on the last reply before the reaction to it, and
\* reaction and confirmation belong to the dialogue of that reply.
THEOREM EvidenceIsLast == Spec => []EvidenceIsTheLastReply
<1>1. IInv => EvidenceIsTheLastReply
    BY DEF IInv, ItemsInv, ItemInv, LastBefore, EvidenceIsTheLastReply
<1> QED
    BY <1>1, Inductive, PTL

\* A reply under an "ask first" directly follows the question for it.
THEOREM AskFirstKept == Spec => []AskFirstIsKept
<1>1. IInv => AskFirstIsKept
    BY DEF IInv
<1> QED
    BY <1>1, Inductive, PTL

\* The proposal that waits passes the validation of the snapshot.
LEMMA PendingCanBeSaved ==
    ASSUME IInv, NEW p \in pending
    PROVE  PendingSavable(p)
<1>1. TypeInv /\ EventsInv /\ RecordsInv /\ p \in Pending /\ PendingPlace(p) /\ Valid(p)
    BY DEF IInv, PendingInv, TypeInv
<1>2. PICK e \in DOMAIN events : e = p.evidence
    BY <1>1, Shape DEF PendingPlace, Pending
<1>3. /\ p.operation # "reject" => p.context = events[e].context
      /\ p.at >= events[e].at
      /\ p.id # e
      /\ events[e].object # None => p.scope = {}
    <2>1. e < p.id /\ p.id \in Nat /\ e \in Nat
        BY <1>1, <1>2, Shape DEF PendingPlace
    <2> QED
        BY <1>1, <1>2, <2>1 DEF PendingPlace, Valid
<1>4. ASSUME p.operation # "add"
      PROVE  \E target \in Historical(<<p.target, p.expected>>) :
                /\ target.active
                /\ p.operation # "reject" /\ target.context # p.context =>
                      target.scope = p.scope /\ MadeWith(p.target, target, e)
                /\ IF p.operation = "reject" THEN e = target.evidence
                   ELSE /\ Target(p.value) = Target(target.value)
                        /\ e # target.evidence
                        /\ events[e].at >= target.confirmedAt
    <2>1. p.target \in DOMAIN items /\ items[p.target].version = p.expected /\ items[p.target].active
        BY <1>1, <1>4, Targets DEF PendingPlace
    <2>2. Historical(<<p.target, p.expected>>) = {items[p.target]}
        BY <1>1, <2>1, CurrentIsHistorical
    <2>3. PICK target : target = items[p.target]
        OBVIOUS
    <2>4. p.operation = "reject" => e = target.evidence
        BY <1>1, <1>2, <2>3 DEF Valid
    <2>5. ASSUME p.operation # "reject"
          PROVE  /\ target.context # p.context => target.scope = p.scope /\ MadeWith(p.target, target, e)
                 /\ Target(p.value) = Target(target.value)
                 /\ e # target.evidence
                 /\ events[e].at >= target.confirmedAt
        <3>1. ValidReassessment(p)
            BY <1>1, <1>4, <2>5 DEF Valid
        <3>2. events[e].kind \in Adaptable \cup {"capability"}
            BY <1>1, <1>2, <2>5 DEF PendingPlace
        <3>3. target.context # p.context => p.scope = target.scope /\ CrossObserved(target, p.target, e)
            BY <1>2, <2>3, <3>1 DEF ValidReassessment
        <3>4. CrossObserved(target, p.target, e) => MadeWith(p.target, target, e)
            BY <3>2 DEF CrossObserved, MadeWith
        <3> QED
            BY <1>2, <2>3, <3>1, <3>3, <3>4 DEF ValidReassessment
    <2>6. target \in Historical(<<p.target, p.expected>>) /\ target.active
        BY <2>1, <2>2, <2>3
    <2> QED
        BY <2>4, <2>5, <2>6
<1> QED
    BY <1>2, <1>3, <1>4 DEF PendingSavable

\* The rules by which Memory changes and those by which a snapshot is validated
\* agree, on every state that any sequence of inputs leads to.
THEOREM EveryStateIsSavable == Spec => []EveryStateCanBeSaved
<1>1. IInv => EveryStateCanBeSaved
    BY PendingCanBeSaved DEF IInv, UsageInv, EveryStateCanBeSaved, Savable
<1> QED
    BY <1>1, Inductive, PTL

------------------------------------------------------------------------------
(* What no step does *)

LEMMA OnlyConfirmChanges ==
    ASSUME [Next]_vars, ~\E t \in Time : Confirm(t)
    PROVE  items' = items
<1>1. CASE NewContext \/ UNCHANGED vars
    BY <1>1 DEF NewContext, vars
<1>2. ASSUME NEW t \in Time, Input(t)
      PROVE  items' = items
    BY <1>2 DEF Input, Talk, CapabilityResult, Manage, Add, Reassess, Reject, Propose, Drop
<1> QED
    BY <1>1, <1>2 DEF Next

\* What HomeIsKept says of a step.
HomeStep ==
    \A i \in DOMAIN items :
        LET item == items[i]
        IN  /\ items'[i].context = item.context
            /\ items'[i] # item /\ items'[i].active /\ context # item.context =>
                /\ items'[i].scope = item.scope
                /\ <<i, item.version>> \in events[items'[i].evidence].used

LEMMA ConfirmKeepsHome ==
    ASSUME IInv, NEW t \in Time, Confirm(t)
    PROVE  HomeStep
<1>1. PICK p \in pending : Confirms(p, t)
    BY ConfirmConfirms
<1>2. PICK i, before, after : ChangesTo(p, t, i, before, after)
    BY <1>1, ConfirmChanges
<1>3. TypeInv /\ PendingPlace(p) /\ Valid(p) /\ p.context = context
    BY <1>1, ConfirmFacts DEF Confirms
<1>4. ASSUME NEW j \in DOMAIN items
      PROVE  /\ items'[j].context = items[j].context
             /\ items'[j] # items[j] /\ items'[j].active /\ context # items[j].context =>
                    /\ items'[j].scope = items[j].scope
                    /\ <<j, items[j].version>> \in events[items'[j].evidence].used
    <2>1. CASE j # i
        BY <1>2, <2>1 DEF ChangesTo
    <2>2. CASE j = i
        <3>1. items'[i] = after /\ p.target = i /\ Made(p, t, after)
            BY <1>2, <1>4, <2>2 DEF ChangesTo
        <3>2. p.target # 0 /\ p.operation # "add"
            BY <1>3, <1>4, <2>2, <3>1, Shape DEF PendingPlace
        <3>3. after.context = items[i].context /\ after.evidence = p.evidence
            BY <3>1, <3>2 DEF Made, Home
        <3>4. ASSUME after.active, context # items[i].context
              PROVE  after.scope = items[i].scope /\ <<i, items[i].version>> \in events[p.evidence].used
            <4>1. p.operation # "reject" /\ after.scope = p.scope
                BY <3>1, <3>4 DEF Made
            <4>2. ValidReassessment(p)
                BY <1>3, <3>2, <4>1 DEF Valid
            <4> QED
                BY <1>3, <3>1, <3>4, <4>1, <4>2 DEF ValidReassessment, CrossObserved
        <3> QED
            BY <2>2, <3>1, <3>3, <3>4
    <2> QED
        BY <2>1, <2>2
<1> QED
    BY <1>4 DEF HomeStep

\* An experience keeps its dialogue, and another one changes it only by a reply
\* that was made with it.
THEOREM HomeStays == Spec => HomeIsKept
<1>1. ASSUME IInv, [Next]_vars
      PROVE  HomeStep
    <2>1. CASE \E t \in Time : Confirm(t)
        BY <1>1, <2>1, ConfirmKeepsHome
    <2>2. CASE ~\E t \in Time : Confirm(t)
        BY <1>1, <2>2, OnlyConfirmChanges DEF HomeStep
    <2> QED
        BY <2>1, <2>2
<1>2. IInv /\ [Next]_vars => [HomeStep]_vars
    BY <1>1
<1>3. Spec => [][HomeStep]_vars
    BY <1>2, Inductive, PTL DEF Spec
<1> QED
    BY <1>3 DEF HomeIsKept, HomeStep

------------------------------------------------------------------------------
(* Every step is one that ConfirmedChange allows *)

\* How ConfirmedChange sees an item, and a proposal.
Entry(i, item) == [key |-> <<i, item.version>>, fact |-> Fact(item.value, item.scope),
                   proposed |-> item.feedback, confirmed |-> item.confirmation]
Waits(p) == [by |-> p.id, fact |-> Fact(p.value, p.scope), expires |-> p.expires,
             over |-> IF p.target = 0 THEN {} ELSE {<<p.target, p.expected>>}]

LEMMA HeldIs ==
    /\ \A h : h \in Held <=> \E i \in DOMAIN items : items[i].active /\ h = Entry(i, items[i])
    /\ \A h : h \in Held' <=> \E i \in DOMAIN items' : items'[i].active /\ h = Entry(i, items'[i])
<1>1. Held = {Entry(i, items[i]) : i \in {j \in DOMAIN items : items[j].active}}
    BY DEF Held, Entry
<1>2. Held' = {Entry(i, items'[i]) : i \in {j \in DOMAIN items' : items'[j].active}}
    BY DEF Held, Entry, Fact
<1> QED
    BY <1>1, <1>2

LEMMA KeysAre ==
    \A key : key \in Promise!HeldKeys <=>
                \E i \in DOMAIN items : items[i].active /\ key = <<i, items[i].version>>
<1>1. \A i, item : Entry(i, item).key = <<i, item.version>>
    BY DEF Entry
<1> QED
    BY <1>1, HeldIs DEF Promise!HeldKeys

LEMMA OpenIs ==
    /\ Open = {Waits(p) : p \in pending}
    /\ Open' = {Waits(p) : p \in pending'}
    BY DEF Open, Waits, Fact

LEMMA Handles ==
    ASSUME TypeInv, EventsInv, Len(events) < MaxEvents,
           NEW t, NEW kind, NEW used, NEW asking, NEW object, Fits(t, kind, used, asking, object),
           Happens(t, kind, used, asking, object)
    PROVE  Promise!Handled /\ Len(events)' = This
<1>1. Len(events') = Len(events) + 1 /\ This = Len(events) + 1
    BY Happened DEF This
<1>2. Now' \in Nat /\ Now \in Nat /\ Now <= Now'
    BY TimePasses, NowProperties
<1>3. Now' >= Now
    BY <1>2
<1> QED
    BY <1>1, <1>2, <1>3 DEF Promise!Handled

LEMMA Ignores ==
    ASSUME TypeInv, EventsInv, Len(events) < MaxEvents,
           NEW t, NEW kind, NEW used, NEW asking, NEW object, Fits(t, kind, used, asking, object),
           Happens(t, kind, used, asking, object), items' = items, pending' = pending
    PROVE  Promise!Ignore
<1>1. Promise!Handled
    BY Handles
<1>2. Open' = Open /\ Held' = Held
    BY DEF Open, Held, Fact
<1> QED
    BY <1>1, <1>2 DEF Promise!Ignore

LEMMA TalkIgnores ==
    ASSUME IInv, NEW t \in Time, NEW words, NEW budget, NEW intact, Talk(t, words, budget, intact)
    PROVE  Promise!Ignore
<1> DEFINE chosen == Selected(words, budget)
<1>1. TypeInv /\ EventsInv
    BY DEF IInv
<1>2. t >= Now /\ Len(events) < MaxEvents /\ items' = items /\ pending' = pending
    BY DEF Talk, Received
<1>3. PICK used, asking : used = CurrentVersions(chosen) /\ asking = AskFirst(chosen)
    OBVIOUS
<1>4. PICK kind \in {"reply", "clarification", "question", "refusal", "silence"} :
        Happens(t, kind, used, asking, None)
    BY <1>3 DEF Talk
<1>5. /\ used \in SUBSET Versions /\ asking \in SUBSET Versions
      /\ Cardinality(used) <= 2
      /\ \A v, w \in asking : v = w
    BY <1>1, <1>3, SelectedFits
<1>6. Fits(t, kind, used, asking, None)
    <2>1. kind \in Kinds /\ kind # "capability"
        BY DEF Kinds, Adaptable
    <2> QED
        BY <1>2, <1>5, <2>1 DEF Fits
<1> QED
    BY <1>1, <1>2, <1>4, <1>6, Ignores

\* A reaction: the proposal is about a version that is held.
LEMMA ProposeProposes ==
    ASSUME IInv, IInv', NEW t \in Time, NEW operation, NEW target, NEW evidence, NEW value, NEW scope,
           operation = "add" <=> target = 0, target # 0 => target \in DOMAIN items,
           Propose(t, operation, target, evidence, value, scope)
    PROVE  Promise!Propose
<1>1. TypeInv /\ EventsInv
    BY DEF IInv
<1>2. PICK p : p = [id |-> This, operation |-> operation, at |-> t, context |-> context,
                    target |-> target, expected |-> IF target = 0 THEN 0 ELSE items[target].version,
                    evidence |-> evidence, value |-> value, scope |-> scope, expires |-> t + Ttl]
    OBVIOUS
<1>3. /\ t >= Now /\ Len(events) < MaxEvents
      /\ \A q \in pending : t >= q.expires
      /\ Valid(p) /\ pending' = {p}
      /\ Happens(t, "feedback", {}, {}, None)
      /\ items' = items
    BY <1>2 DEF Propose, Received
<1>4. Fits(t, "feedback", {}, {}, None)
    BY <1>3, NothingFits DEF Kinds
<1>5. Promise!Handled /\ Len(events)' = This
    BY <1>1, <1>3, <1>4, Handles
<1>6. Now' = t
    BY <1>1, <1>3, <1>4, TimePasses
<1>7. p \in Pending
    BY <1>3 DEF IInv, TypeInv
<1>8. /\ p.id = This /\ p.operation = operation /\ p.target = target
      /\ p.target # 0 => p.expected = items[target].version
      /\ p.expires = t + Ttl
    BY <1>2
<1> HIDE <1>2
<1>9. PICK o : o = Waits(p)
    OBVIOUS
<1>10. o.by = p.id /\ o.fact = <<p.value, p.scope>> /\ o.expires = p.expires
       /\ o.over = IF p.target = 0 THEN {} ELSE {<<p.target, p.expected>>}
    BY <1>9 DEF Waits, Fact
<1>11. Open' = {o}
    BY <1>3, <1>9, OpenIs
<1>12. \A q \in Open : Now' >= q.expires
    <2>1. \A q \in pending : Waits(q).expires = q.expires
        BY DEF Waits
    <2> QED
        BY <1>3, <1>6, <2>1, OpenIs
<1>13. Held' = Held
    BY <1>3 DEF Held, Fact
<1>14. o.over \subseteq Promise!HeldKeys
    <2>1. CASE p.target = 0
        BY <1>10, <2>1
    <2>2. CASE p.target # 0
        <3>1. ValidTarget(p)
            BY <1>3, <1>8, <2>2 DEF Valid
        <3>2. <<p.target, p.expected>> \in Promise!HeldKeys
            BY <3>1, KeysAre DEF ValidTarget
        <3> QED
            BY <1>10, <2>2, <3>2
    <2> QED
        BY <2>1, <2>2
<1>15. o.over \subseteq Versions
    <2>1. \A key \in Promise!HeldKeys : key \in Versions
        BY <1>1, KeysAre, Shape DEF Item, Versions
    <2> QED
        BY <1>14, <2>1
<1>16. o.expires > Now'
    <2>1. t \in Nat /\ Ttl \in Nat \ {0}
        BY Bounds
    <2> QED
        BY <1>6, <1>8, <1>10, <2>1
<1>17. Promise!Proposal(o)
    <2>1. o.by \in Nat
        BY <1>1, <1>8, <1>10, Shape
    <2>2. \A k, l \in o.over : k = l
        BY <1>10
    <2>3. o.fact \in Values \X (SUBSET Topics)
        BY <1>7, <1>10 DEF Pending
    <2> QED
        BY <1>15, <2>1, <2>2, <2>3 DEF Promise!Proposal
<1> QED
    BY <1>5, <1>8, <1>10, <1>11, <1>12, <1>13, <1>14, <1>16, <1>17 DEF Promise!Propose

LEMMA ReactionProposes ==
    ASSUME IInv, IInv', NEW t \in Time, Add(t) \/ Reassess(t) \/ Reject(t)
    PROVE  Promise!Propose
<1>1. PICK operation, target, evidence, value, scope :
        /\ Propose(t, operation, target, evidence, value, scope)
        /\ \/ operation = "add" /\ target = 0
           \/ operation \in {"reassess", "reject"} /\ target \in DOMAIN items
    BY DEF Add, Reassess, Reject
<1>2. 0 \notin DOMAIN items
    BY Shape DEF IInv
<1> QED
    BY <1>1, <1>2, ProposeProposes

\* A confirmation: the item that was proposed is held, under a version that was
\* not; or the item that was rejected is not held any more.
LEMMA ConfirmationConfirms ==
    ASSUME IInv, NEW t \in Time, Confirm(t)
    PROVE  Promise!Confirm
<1>1. PICK p \in pending : InTime(p, t) /\ Confirms(p, t)
    BY ConfirmConfirms
<1>2. PICK i, before, after : ChangesTo(p, t, i, before, after)
    BY <1>1, ConfirmChanges
<1>3. /\ TypeInv /\ EventsInv /\ p \in Pending /\ PendingPlace(p) /\ Valid(p)
      /\ Now' = t /\ t \in Nat /\ p.id \in DOMAIN events
    BY <1>1, ConfirmFacts
<1>4. Promise!Handled /\ Len(events)' = This
    BY <1>1, <1>3, Handles DEF Confirms
<1>5. Open' = {}
    BY <1>1, OpenIs DEF Confirms
<1>6. PICK o : o = Waits(p)
    OBVIOUS
<1>7. /\ o.by = p.id /\ o.fact = Fact(p.value, p.scope) /\ o.expires = p.expires
      /\ o.over = IF p.target = 0 THEN {} ELSE {<<p.target, p.expected>>}
    BY <1>6 DEF Waits
<1>8. o \in Open
    BY <1>6, OpenIs
<1>9. o.by < This /\ Now' < o.expires
    <2>1. p.id < This
        BY <1>1, ConfirmFacts DEF Grows
    <2> QED
        BY <1>1, <1>3, <1>7, <2>1 DEF InTime
<1>10. p.target # 0 => /\ p.target \in DOMAIN items /\ items[p.target].version = p.expected
                       /\ items[p.target].active
    BY <1>3, Targets
<1>11. o.over \subseteq Promise!HeldKeys
    BY <1>7, <1>10, KeysAre
<1>12. /\ p.target = 0 => i \notin DOMAIN items
       /\ p.target # 0 => i = p.target
       /\ i \in DOMAIN items => items[i].version < after.version
       /\ \A j \in DOMAIN items : j # i => items'[j] = items[j]
       /\ DOMAIN items' = DOMAIN items \cup {i} /\ items'[i] = after
       /\ after \in Item /\ i \in Nat \ {0}
    BY <1>2, <1>3, Shape DEF ChangesTo
<1>13. /\ after.active <=> p.operation # "reject"
       /\ p.operation # "reject" => after.value = p.value /\ after.scope = p.scope
       /\ after.feedback = p.id /\ after.confirmation = This
    BY <1>2 DEF ChangesTo, Made
<1>14. PICK kept : kept = {h \in Held : h.key \notin o.over}
    OBVIOUS
<1>15. \A h : h \in kept <=> \E j \in DOMAIN items : j # i /\ items[j].active /\ h = Entry(j, items[j])
    <2>1. ASSUME NEW j \in DOMAIN items
          PROVE  <<j, items[j].version>> \notin o.over <=> j # i
        BY <1>7, <1>10, <1>12
    <2>2. ASSUME NEW j \in DOMAIN items
          PROVE  Entry(j, items[j]).key \notin o.over <=> j # i
        <3>1. PICK key : key = <<j, items[j].version>>
            OBVIOUS
        <3>2. Entry(j, items[j]).key = key
            BY <3>1 DEF Entry
        <3>3. key \notin o.over <=> j # i
            BY <2>1, <3>1
        <3> HIDE <3>1
        <3> QED
            BY ONLY <3>2, <3>3
    <2>3. \A h : h \in Held <=> \E j \in DOMAIN items : items[j].active /\ h = Entry(j, items[j])
        BY HeldIs
    <2>4. \A h : h \in kept <=> h \in Held /\ h.key \notin o.over
        BY <1>14
    <2> QED
        BY ONLY <2>2, <2>3, <2>4
<1>16. CASE p.operation = "reject"
    <2>1. \A h : h \in Held' <=> h \in kept
        BY <1>12, <1>13, <1>15, <1>16, HeldIs
    <2>2. Held' = kept
        BY <2>1
    <2>3. o.over # {}
        BY <1>3, <1>7, <1>16 DEF PendingPlace
    <2> QED
        BY <1>4, <1>5, <1>8, <1>9, <1>11, <1>14, <2>2, <2>3 DEF Promise!Confirm
<1>17. CASE p.operation # "reject"
    <2>1. PICK h : h = Entry(i, after)
        OBVIOUS
    <2>2. /\ h.key = <<i, after.version>> /\ h.fact = Fact(after.value, after.scope)
          /\ h.proposed = after.feedback /\ h.confirmed = after.confirmation
        BY <2>1 DEF Entry
    <2>3. \A g : g \in Held' <=> g \in kept \/ g = h
        BY <1>12, <1>13, <1>15, <1>17, <2>1, HeldIs
    <2>4. Held' = kept \cup {h} /\ h \in Held'
        BY <2>3
    <2>5. h.key \in Versions \ Promise!HeldKeys
        <3>1. h.key \in Versions
            BY <1>12, <2>2 DEF Item, Versions
        <3>2. ASSUME NEW j \in DOMAIN items, h.key = <<j, items[j].version>>
              PROVE  FALSE
            <4>1. j = i /\ items[i].version = after.version
                BY <2>2, <3>2
            <4>2. items[i].version \in Nat /\ items[i].version < after.version
                BY <1>3, <1>12, <3>2, <4>1, Shape DEF Item
            <4> QED
                BY <4>1, <4>2
        <3> QED
            BY <3>1, <3>2, KeysAre
    <2>6. h.fact = o.fact /\ h.proposed = o.by /\ h.confirmed = This
        BY <1>7, <1>13, <1>17, <2>2
    <2> QED
        BY <1>4, <1>5, <1>8, <1>9, <1>11, <1>14, <2>4, <2>5, <2>6 DEF Promise!Confirm
<1> QED
    BY <1>16, <1>17

LEMMA DropDrops ==
    ASSUME IInv, NEW t \in Time, Drop(t)
    PROVE  Promise!Drop
<1>1. Fits(t, "feedback", {}, {}, None)
    BY NothingFits DEF Kinds, Drop, Received
<1>2. Promise!Handled
    BY <1>1, Handles DEF Drop, Received, IInv
<1>3. Open # {} /\ Open' = {} /\ Held' = Held
    BY OpenIs DEF Drop, Held, Fact
<1> QED
    BY <1>2, <1>3 DEF Promise!Drop

LEMMA Implements == IInv /\ IInv' /\ [Next]_vars => [Promise!Next]_(Promise!abstractVars)
<1> SUFFICES ASSUME IInv, IInv', [Next]_vars
             PROVE  [Promise!Next]_(Promise!abstractVars)
    OBVIOUS
<1>1. CASE NewContext \/ UNCHANGED vars
    <2>1. events' = events /\ items' = items /\ pending' = pending
        BY <1>1 DEF NewContext, vars
    <2> QED
        BY <2>1 DEF Promise!abstractVars, Now, Inputs, Open, Held, Fact
<1>2. ASSUME NEW t \in Time, Input(t)
      PROVE  Promise!Next
    <2>1. CASE \E words \in SUBSET (Topics \cup Objects), budget \in Budgets, intact \in BOOLEAN :
                    Talk(t, words, budget, intact)
        BY <2>1, TalkIgnores DEF Promise!Next
    <2>2. ASSUME NEW object \in Objects, CapabilityResult(t, object)
          PROVE  Promise!Ignore
        <3>1. Fits(t, "capability", {}, {}, object)
            BY NothingFits, Bounds DEF Kinds
        <3> QED
            BY <2>2, <3>1, Ignores DEF CapabilityResult, IInv
    <2>3. ASSUME Manage(t)
          PROVE  Promise!Ignore
        <3>1. Fits(t, "management", {}, {}, None)
            BY <2>3, NothingFits DEF Kinds, Manage, Received
        <3> QED
            BY <2>3, <3>1, Ignores DEF Manage, Received, IInv
    <2>4. CASE Add(t) \/ Reassess(t) \/ Reject(t)
        BY <2>4, ReactionProposes DEF Promise!Next
    <2>5. CASE Confirm(t)
        BY <2>5, ConfirmationConfirms DEF Promise!Next
    <2>6. CASE Drop(t)
        BY <2>6, DropDrops DEF Promise!Next
    <2> QED
        BY <1>2, <2>1, <2>2, <2>3, <2>4, <2>5, <2>6 DEF Input, Promise!Next
<1> QED
    BY <1>1, <1>2 DEF Next

\* ExperienceDialogue implements ConfirmedChange: nothing applies, changes or
\* ends but by a reaction and a later confirmation in time, of the version held.
THEOREM ConfirmedApart == Spec => ConfirmedSeparately
<1>1. Init => Promise!Init
    BY DEF Init, Promise!Init, Now, Inputs, Open, Held
<1>2. Spec => Promise!Spec
    BY <1>1, Implements, Inductive, PTL DEF Spec, Promise!Spec
<1> QED
    BY <1>2 DEF ConfirmedSeparately
================================================================================
