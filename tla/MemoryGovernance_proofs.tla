----------------------- MODULE MemoryGovernance_proofs -----------------------
(***************************************************************************)
(* What governance promises about every item of Memory, for any meanings,  *)
(* number of inputs, items and generations.                                *)
(*                                                                         *)
(* A state of Memory is Sound when a deleted item has left nothing in it:  *)
(* each candidate that names an item is one of its sources, so that        *)
(* redacting the sources reaches all of them.  Later orders the states of  *)
(* Memory: items are never lost, versions only grow and name one content,  *)
(* and what is deleted stays deleted.  The checkpoints and the memory in   *)
(* use are a chain of it (OrderInv).  What any of them calls completed is  *)
(* deleted in all of them and in no page (GoneInv); this is inductive only *)
(* with what the steps of a running deletion know of the checkpoints       *)
(* (DeletionInv).                                                          *)
(***************************************************************************)
EXTENDS MemoryGovernance, SequenceTheorems, WellFoundedInduction, TLAPS

\* A pending confirmation pins an item that is there, in its version.
PinsCurrent(s) ==
    \A pin \in s.pending :
        /\ pin[1] \in DOMAIN s.items
        /\ ~s.items[pin[1]].deleted
        /\ s.items[pin[1]].version = pin[2]

\* Candidates and corrections belong to an item, and a deleted item has left
\* nothing in any of them.
ItemSound(item) ==
    IF item.deleted THEN ~item.active /\ item.meaning = Redacted ELSE item.meaning \in Meanings
CandidateSound(s, c) ==
    LET candidate == s.candidates[c]
    IN  /\ candidate.item \in DOMAIN s.items
        /\ c \in s.items[candidate.item].sources
        /\ s.items[candidate.item].deleted => candidate.meaning = Redacted
CorrectionSound(s, r) ==
    /\ r.item \in DOMAIN s.items
    /\ s.items[r.item].deleted => r.previous = Redacted /\ r.replacement = Redacted

Sound(s) ==
    /\ \A i \in DOMAIN s.items : ItemSound(s.items[i])
    /\ \A c \in DOMAIN s.candidates : CandidateSound(s, c)
    /\ \A r \in s.corrections : CorrectionSound(s, r)
    /\ \A d \in s.deletions, i \in ItemIds :
          i \in d.items => i \in DOMAIN s.items /\ s.items[i].deleted
    /\ PinsCurrent(s)

\* The items that s calls physically deleted.
Finished(s) == {i \in ItemIds : \E d \in s.deletions : d.status = "completed" /\ i \in d.items}

\* No item is lost, a version names one content, deletion is for good.
Succeeds(old, new) ==
    /\ old.version <= new.version
    /\ old.version = new.version => old = new
    /\ old.deleted => new.deleted
Later(s, t) ==
    /\ DOMAIN s.items \subseteq DOMAIN t.items
    /\ \A i \in DOMAIN s.items : Succeeds(s.items[i], t.items[i])

States == {memory} \cup {checkpoints[k] : k \in DOMAIN checkpoints}

TypeInv ==
    /\ TypeOK
    /\ \A s \in States : Len(s.items) <= MaxItems /\ Len(s.candidates) <= inputs

SoundInv == \A s \in States : Sound(s)

OrderInv ==
    /\ \A k, n \in DOMAIN checkpoints : k < n => Later(checkpoints[k], checkpoints[n])
    /\ up => \A k \in DOMAIN checkpoints : Later(checkpoints[k], memory)

GoneInv ==
    \A s, t \in States : \A i \in Finished(s) :
        i \notin pages /\ (i \in DOMAIN t.items => t.items[i].deleted)

DeletionInv ==
    /\ pc # "idle" => up
    /\ pc = "idle" => deleting = {}
    /\ \A i \in deleting : i \in DOMAIN memory.items /\ memory.items[i].deleted
    /\ pc \in {"prune_old", "compact"} => Newest = memory
    /\ pc = "compact" => Len(checkpoints) = 1

IInv == TypeInv /\ SoundInv /\ OrderInv /\ GoneInv /\ DeletionInv
-----------------------------------------------------------------------------
(* Lemmas about the operators *)

\* A set of natural numbers that is not empty has a least element.
LEMMA LeastExists ==
    ASSUME NEW S \in SUBSET Nat, S # {}
    PROVE  \E i \in S : \A j \in S : i <= j
<1> DEFINE R == OpToRel(<, Nat)
<1>1. \A a, b \in Nat : <<a, b>> \in R <=> a < b
    BY DEF OpToRel
<1>2. IsWellFoundedOn(R, Nat)
    BY NatLessThanWellFounded
<1> HIDE DEF R
<1>3. PICK i \in S : \A j \in S : ~(<<j, i>> \in R)
    BY <1>2, WFMin
<1>4. ASSUME NEW j \in S
      PROVE  i <= j
    <2>1. i \in Nat /\ j \in Nat
        OBVIOUS
    <2>2. ~(<<j, i>> \in R)
        BY <1>3
    <2>3. ~(j < i)
        BY <1>1, <2>1, <2>2
    <2> QED
        BY <2>1, <2>3
<1> QED
    BY <1>4

\* A function on 1..n is a sequence of length n.
LEMMA SeqOfFunction ==
    ASSUME NEW S, NEW n \in Nat, NEW f \in [1..n -> S]
    PROVE  f \in Seq(S) /\ Len(f) = n /\ DOMAIN f = 1..n
    OBVIOUS

\* The fields of a snapshot, and the places of its sequences.
LEMMA SnapshotShape ==
    ASSUME NEW s \in Snapshot
    PROVE  /\ s.items \in Seq(Item)
           /\ Len(s.items) \in Nat
           /\ DOMAIN s.items = 1..Len(s.items)
           /\ \A i \in DOMAIN s.items : s.items[i] \in Item
           /\ s.candidates \in Seq(Candidate)
           /\ Len(s.candidates) \in Nat
           /\ DOMAIN s.candidates = 1..Len(s.candidates)
           /\ \A c \in DOMAIN s.candidates : s.candidates[c] \in Candidate
           /\ s.corrections \in SUBSET Correction
           /\ s.deletions \in SUBSET Deletion
           /\ s.pending \in SUBSET (ItemIds \X (Nat \ {0}))
<1>1. /\ s.items \in Seq(Item)
      /\ s.candidates \in Seq(Candidate)
      /\ s.corrections \in SUBSET Correction
      /\ s.deletions \in SUBSET Deletion
      /\ s.pending \in SUBSET (ItemIds \X (Nat \ {0}))
    BY DEF Snapshot
<1>2. /\ Len(s.items) \in Nat
      /\ DOMAIN s.items = 1..Len(s.items)
      /\ \A i \in 1..Len(s.items) : s.items[i] \in Item
    BY <1>1, LenProperties, ElementOfSeq
<1>3. /\ Len(s.candidates) \in Nat
      /\ DOMAIN s.candidates = 1..Len(s.candidates)
      /\ \A c \in 1..Len(s.candidates) : s.candidates[c] \in Candidate
    BY <1>1, LenProperties, ElementOfSeq
<1> QED
    BY <1>1, <1>2, <1>3

\* In a sound state an item is held exactly if it is not deleted.
LEMMA SoundHolds ==
    ASSUME NEW s \in Snapshot, Sound(s), NEW i \in ItemIds
    PROVE  Holds(s, i) <=> (i \in DOMAIN s.items /\ ~s.items[i].deleted)
<1>1. CASE i \notin DOMAIN s.items
    BY <1>1 DEF Holds
<1>2. CASE i \in DOMAIN s.items /\ ~s.items[i].deleted
    <2>1. s.items[i].meaning \in Meanings
        BY <1>2 DEF Sound, ItemSound
    <2> QED
        BY <1>2, <2>1, RedactedAssumption DEF Holds
<1>3. CASE i \in DOMAIN s.items /\ s.items[i].deleted
    <2>1. s.items[i].meaning = Redacted
        BY <1>3 DEF Sound, ItemSound
    <2>2. \A c \in DOMAIN s.candidates :
             s.candidates[c].item = i => s.candidates[c].meaning = Redacted
        BY <1>3 DEF Sound, CandidateSound
    <2>3. \A r \in s.corrections :
             r.item = i => r.previous = Redacted /\ r.replacement = Redacted
        BY <1>3 DEF Sound, CorrectionSound
    <2> QED
        BY <1>3, <2>1, <2>2, <2>3 DEF Holds
<1> QED
    BY <1>1, <1>2, <1>3

LEMMA LaterReflexive ==
    ASSUME NEW s \in Snapshot
    PROVE  Later(s, s)
<1>1. \A i \in DOMAIN s.items : s.items[i].version \in Nat
    BY SnapshotShape DEF Item
<1> QED
    BY <1>1 DEF Later, Succeeds

LEMMA LaterTransitive ==
    ASSUME NEW s \in Snapshot, NEW t \in Snapshot, NEW u \in Snapshot,
           Later(s, t), Later(t, u)
    PROVE  Later(s, u)
<1>1. DOMAIN s.items \subseteq DOMAIN t.items /\ DOMAIN t.items \subseteq DOMAIN u.items
    BY DEF Later
<1>2. ASSUME NEW i \in DOMAIN s.items
      PROVE  Succeeds(s.items[i], u.items[i])
    <2>1. Succeeds(s.items[i], t.items[i]) /\ Succeeds(t.items[i], u.items[i])
        BY <1>1 DEF Later
    <2>2. /\ s.items[i].version \in Nat
          /\ t.items[i].version \in Nat
          /\ u.items[i].version \in Nat
        BY <1>1, SnapshotShape DEF Item
    <2> QED
        BY <2>1, <2>2 DEF Succeeds
<1> QED
    BY <1>1, <1>2 DEF Later

\* The n newest of a sequence are the last n of it, in their order.
LEMMA NewestOfProperties ==
    ASSUME NEW S, NEW saved \in Seq(S), saved # <<>>, NEW n \in Nat \ {0}
    PROVE  /\ NewestOf(saved, n) \in Seq(S)
           /\ NewestOf(saved, n) # <<>>
           /\ Len(NewestOf(saved, n)) = IF Len(saved) <= n THEN Len(saved) ELSE n
           /\ \E shift \in Nat :
                 /\ Len(saved) = Len(NewestOf(saved, n)) + shift
                 /\ \A k \in 1..Len(NewestOf(saved, n)) : NewestOf(saved, n)[k] = saved[k + shift]
<1>1. Len(saved) \in Nat \ {0} /\ DOMAIN saved = 1..Len(saved)
    BY EmptySeq, LenProperties
<1>2. CASE Len(saved) <= n
    <2>1. NewestOf(saved, n) = saved
        BY <1>2 DEF NewestOf
    <2>2. \A k \in 1..Len(saved) : k + 0 = k
        OBVIOUS
    <2>3. /\ Len(saved) = Len(saved) + 0
          /\ \A k \in 1..Len(saved) : saved[k] = saved[k + 0]
        BY <1>1, <2>2
    <2>4. \E shift \in Nat :
             /\ Len(saved) = Len(NewestOf(saved, n)) + shift
             /\ \A k \in 1..Len(NewestOf(saved, n)) : NewestOf(saved, n)[k] = saved[k + shift]
        BY <2>1, <2>3
    <2> QED
        BY <1>2, <2>1, <2>4
<1>3. CASE ~(Len(saved) <= n)
    <2> DEFINE m == Len(saved) - n
    <2>1. m \in Nat /\ Len(saved) = n + m
        BY <1>1, <1>3
    <2>2. NewestOf(saved, n) = SubSeq(saved, m + 1, Len(saved))
        BY <1>3 DEF NewestOf
    <2>3. \A k \in (m + 1)..Len(saved) : saved[k] \in S
        BY <1>1, <2>1, ElementOfSeq
    <2> HIDE DEF m
    <2>4. /\ SubSeq(saved, m + 1, Len(saved)) \in Seq(S)
          /\ Len(SubSeq(saved, m + 1, Len(saved))) = n
          /\ \A k \in 1..n : SubSeq(saved, m + 1, Len(saved))[k] = saved[(m + 1) + k - 1]
        BY <1>1, <2>1, <2>3, SubSeqProperties
    <2>5. \A k \in 1..n : (m + 1) + k - 1 = k + m
        BY <2>1
    <2>6. SubSeq(saved, m + 1, Len(saved)) # <<>>
        BY <2>4, EmptySeq
    <2>7. \A k \in 1..n : NewestOf(saved, n)[k] = saved[k + m]
        BY <2>2, <2>4, <2>5
    <2>8. \E shift \in Nat :
             /\ Len(saved) = Len(NewestOf(saved, n)) + shift
             /\ \A k \in 1..Len(NewestOf(saved, n)) : NewestOf(saved, n)[k] = saved[k + shift]
        BY <2>1, <2>2, <2>4, <2>7
    <2> QED
        BY <1>3, <2>2, <2>4, <2>6, <2>8
<1> QED
    BY <1>2, <1>3

-----------------------------------------------------------------------------
(* What a text input does to Memory *)

MemoryInv ==
    /\ memory \in Snapshot
    /\ inputs \in 0..MaxInputs
    /\ Len(memory.items) <= MaxItems
    /\ Len(memory.candidates) <= inputs
    /\ Sound(memory)

Served ==
    /\ memory' \in Snapshot
    /\ Len(memory'.items) <= MaxItems
    /\ Len(memory'.candidates) <= inputs + 1
    /\ Sound(memory')
    /\ Later(memory, memory')
    /\ Finished(memory') \subseteq Finished(memory)
    /\ deleting' \subseteq ItemIds
    /\ \A i \in deleting' : i \in DOMAIN memory'.items /\ memory'.items[i].deleted

\* What the items, candidates, corrections, deletions and pins have to meet.
LEMMA ServedParts ==
    ASSUME MemoryInv,
           NEW items, items \in Seq(Item),
           Len(memory.items) <= Len(items), Len(items) <= MaxItems,
           \A i \in 1..Len(items) : ItemSound(items[i]),
           \A i \in 1..Len(memory.items) : Succeeds(memory.items[i], items[i]),
           NEW candidates, candidates \in Seq(Candidate),
           Len(candidates) <= inputs + 1,
           \A c \in 1..Len(candidates) :
              /\ candidates[c].item \in 1..Len(items)
              /\ c \in items[candidates[c].item].sources
              /\ items[candidates[c].item].deleted => candidates[c].meaning = Redacted,
           NEW corrections \in SUBSET Correction,
           \A r \in corrections :
              /\ r.item \in 1..Len(items)
              /\ items[r.item].deleted => r.previous = Redacted /\ r.replacement = Redacted,
           NEW deletions \in SUBSET Deletion,
           \A d \in deletions, i \in ItemIds :
              i \in d.items => i \in 1..Len(items) /\ items[i].deleted,
           \A d \in deletions : d.status = "completed" => d \in memory.deletions,
           NEW pending \in SUBSET (ItemIds \X (Nat \ {0})),
           \A pin \in pending :
              /\ pin[1] \in 1..Len(items)
              /\ ~items[pin[1]].deleted
              /\ items[pin[1]].version = pin[2],
           memory' = [items |-> items, candidates |-> candidates, corrections |-> corrections,
                      deletions |-> deletions, pending |-> pending],
           deleting' \subseteq ItemIds,
           \A i \in deleting' : i \in 1..Len(items) /\ items[i].deleted
    PROVE  Served
<1>1. /\ memory'.items = items
      /\ memory'.candidates = candidates
      /\ memory'.corrections = corrections
      /\ memory'.deletions = deletions
      /\ memory'.pending = pending
      /\ memory' \in Snapshot
    BY DEF Snapshot
<1>2. /\ DOMAIN items = 1..Len(items)
      /\ DOMAIN candidates = 1..Len(candidates)
      /\ Len(items) \in Nat
    BY LenProperties
<1>3. /\ DOMAIN memory.items = 1..Len(memory.items)
      /\ Len(memory.items) \in Nat
    BY SnapshotShape DEF MemoryInv
<1>4. Sound(memory')
    <2>1. \A c \in DOMAIN memory'.candidates : CandidateSound(memory', c)
        BY <1>1, <1>2 DEF CandidateSound
    <2>2. \A r \in memory'.corrections : CorrectionSound(memory', r)
        BY <1>1, <1>2 DEF CorrectionSound
    <2>3. PinsCurrent(memory')
        BY <1>1, <1>2 DEF PinsCurrent
    <2> QED
        BY <1>1, <1>2, <2>1, <2>2, <2>3 DEF Sound
<1>5. Later(memory, memory')
    BY <1>1, <1>2, <1>3 DEF Later
<1>6. Finished(memory') \subseteq Finished(memory)
    BY <1>1 DEF Finished
<1> QED
    BY <1>1, <1>2, <1>4, <1>5, <1>6 DEF Served

\* The places and the parts of the memory in use.
LEMMA MemoryShape ==
    ASSUME MemoryInv
    PROVE  /\ memory = [items |-> memory.items, candidates |-> memory.candidates,
                        corrections |-> memory.corrections, deletions |-> memory.deletions,
                        pending |-> memory.pending]
           /\ memory.items \in Seq(Item)
           /\ Len(memory.items) \in Nat
           /\ DOMAIN memory.items = 1..Len(memory.items)
           /\ 1..Len(memory.items) \subseteq ItemIds
           /\ memory.candidates \in Seq(Candidate)
           /\ Len(memory.candidates) \in Nat
           /\ DOMAIN memory.candidates = 1..Len(memory.candidates)
           /\ memory.corrections \in SUBSET Correction
           /\ memory.deletions \in SUBSET Deletion
           /\ memory.pending \in SUBSET (ItemIds \X (Nat \ {0}))
<1>1. memory = [items |-> memory.items, candidates |-> memory.candidates,
                corrections |-> memory.corrections, deletions |-> memory.deletions,
                pending |-> memory.pending]
    BY DEF MemoryInv, Snapshot
<1>2. 1..Len(memory.items) \subseteq ItemIds
    BY SnapshotShape, GovernanceBounds DEF MemoryInv, ItemIds
<1> QED
    BY <1>1, <1>2, SnapshotShape DEF MemoryInv

\* An item of the memory in use, field by field.
LEMMA ItemShape ==
    ASSUME MemoryInv, NEW i \in 1..Len(memory.items)
    PROVE  /\ memory.items[i] \in Item
           /\ memory.items[i].version \in Nat \ {0}
           /\ memory.items[i].meaning \in Texts
           /\ memory.items[i].active \in BOOLEAN
           /\ memory.items[i].deleted \in BOOLEAN
           /\ memory.items[i].sources \in SUBSET (1..MaxInputs)
           /\ ItemSound(memory.items[i])
<1>1. memory.items[i] \in Item /\ ItemSound(memory.items[i])
    BY MemoryShape, ElementOfSeq DEF MemoryInv, Sound
<1> QED
    BY <1>1 DEF Item

\* What the sound memory in use says of its candidates, corrections and
\* deletions, over the places of its items.
LEMMA MemorySound ==
    ASSUME MemoryInv
    PROVE  /\ \A c \in 1..Len(memory.candidates) :
                 /\ memory.candidates[c] \in Candidate
                 /\ memory.candidates[c].item \in 1..Len(memory.items)
                 /\ c \in memory.items[memory.candidates[c].item].sources
                 /\ memory.items[memory.candidates[c].item].deleted =>
                       memory.candidates[c].meaning = Redacted
           /\ \A r \in memory.corrections :
                 /\ r.item \in 1..Len(memory.items)
                 /\ memory.items[r.item].deleted =>
                       r.previous = Redacted /\ r.replacement = Redacted
           /\ \A d \in memory.deletions, i \in ItemIds :
                 i \in d.items => i \in 1..Len(memory.items) /\ memory.items[i].deleted
           /\ \A pin \in memory.pending :
                 /\ pin[1] \in 1..Len(memory.items)
                 /\ ~memory.items[pin[1]].deleted
                 /\ memory.items[pin[1]].version = pin[2]
<1>1. /\ DOMAIN memory.items = 1..Len(memory.items)
      /\ DOMAIN memory.candidates = 1..Len(memory.candidates)
      /\ \A c \in 1..Len(memory.candidates) : memory.candidates[c] \in Candidate
    BY MemoryShape, ElementOfSeq
<1>2. \A c \in DOMAIN memory.candidates : CandidateSound(memory, c)
    BY DEF MemoryInv, Sound
<1>3. \A r \in memory.corrections : CorrectionSound(memory, r)
    BY DEF MemoryInv, Sound
<1>4. PinsCurrent(memory)
    BY DEF MemoryInv, Sound
<1>5. \A d \in memory.deletions, i \in ItemIds :
         i \in d.items => i \in DOMAIN memory.items /\ memory.items[i].deleted
    BY DEF MemoryInv, Sound
<1> QED
    BY <1>1, <1>2, <1>3, <1>4, <1>5 DEF CandidateSound, CorrectionSound, PinsCurrent

\* An item that stays as it is succeeds itself.
LEMMA SucceedsItself ==
    ASSUME MemoryInv, NEW i \in 1..Len(memory.items)
    PROVE  Succeeds(memory.items[i], memory.items[i])
    BY ItemShape DEF Succeeds

\* What a revision of one item keeps.
Revises(old, new) ==
    /\ new \in Item
    /\ ItemSound(new)
    /\ Succeeds(old, new)
    /\ new.deleted = old.deleted
    /\ new.sources = old.sources

\* The items are revised in place: no version goes back, no source is dropped,
\* none is deleted; and the corrections gain at most some of items not deleted.
LEMMA RevisionServed ==
    ASSUME MemoryInv, Unasked, deleting' = {},
           NEW items, items \in Seq(Item), Len(items) = Len(memory.items),
           \A i \in 1..Len(memory.items) : Revises(memory.items[i], items[i]),
           NEW corrections \in SUBSET Correction,
           \A r \in corrections : r \in memory.corrections \/
              (r.item \in 1..Len(memory.items) /\ ~memory.items[r.item].deleted),
           memory' = [memory EXCEPT !.items = items, !.corrections = corrections]
    PROVE  Served
<1>1. memory' = [items |-> items, candidates |-> memory.candidates,
                 corrections |-> corrections, deletions |-> memory.deletions, pending |-> {}]
    BY MemoryShape DEF Unasked
<1>2. Len(memory.candidates) <= inputs + 1 /\ Len(memory.items) <= MaxItems
    BY MemoryShape DEF MemoryInv
<1>3. \A c \in 1..Len(memory.candidates) :
         /\ memory.candidates[c].item \in 1..Len(items)
         /\ c \in items[memory.candidates[c].item].sources
         /\ items[memory.candidates[c].item].deleted => memory.candidates[c].meaning = Redacted
    BY MemorySound DEF Revises
<1>4. \A r \in corrections :
         /\ r.item \in 1..Len(items)
         /\ items[r.item].deleted => r.previous = Redacted /\ r.replacement = Redacted
    BY MemorySound DEF Revises
<1>5. \A d \in memory.deletions, i \in ItemIds :
         i \in d.items => i \in 1..Len(items) /\ items[i].deleted
    BY MemorySound DEF Revises
<1>6. \A i \in 1..Len(items) : ItemSound(items[i])
    BY DEF Revises
<1>7. \A i \in 1..Len(memory.items) : Succeeds(memory.items[i], items[i])
    BY DEF Revises
<1>8. /\ Len(memory.items) <= Len(items) /\ Len(items) <= MaxItems
      /\ {} \in SUBSET (ItemIds \X (Nat \ {0}))
      /\ memory.candidates \in Seq(Candidate)
      /\ memory.deletions \in SUBSET Deletion
      /\ deleting' \subseteq ItemIds
    BY <1>2, MemoryShape
<1> QED
    BY ONLY MemoryInv, deleting' = {}, items \in Seq(Item), corrections \in SUBSET Correction,
       <1>1, <1>2, <1>3, <1>4, <1>5, <1>6, <1>7, <1>8, ServedParts

LEMMA RevisesItself ==
    ASSUME MemoryInv, NEW i \in 1..Len(memory.items)
    PROVE  Revises(memory.items[i], memory.items[i])
    BY ItemShape, SucceedsItself DEF Revises

LEMMA ItemRevised ==
    ASSUME NEW item \in Item, ItemSound(item)
    PROVE  /\ Revises(item, Reevaluated(item))
           /\ Revises(item, Withdrawn(item))
           /\ \A m \in Meanings : item.active => Revises(item, Corrected(item, m))
<1>1. /\ item.version \in Nat \ {0} /\ item.version + 1 \in Nat \ {0}
      /\ item.version # item.version + 1
      /\ item.meaning \in Texts /\ item.active \in BOOLEAN /\ item.deleted \in BOOLEAN
      /\ item.sources \in SUBSET (1..MaxInputs)
    BY DEF Item
<1>2. Revises(item, Reevaluated(item))
    <2> DEFINE new == Reevaluated(item)
    <2>1. /\ new \in Item
          /\ new.version = item.version + 1 /\ new.meaning = item.meaning
          /\ new.active = item.active /\ new.deleted = item.deleted
          /\ new.sources = item.sources
        BY <1>1 DEF Reevaluated, Item
    <2> HIDE DEF new
    <2>2. Succeeds(item, new)
        BY <1>1, <2>1 DEF Succeeds
    <2>3. ItemSound(new)
        BY <2>1 DEF ItemSound
    <2> QED
        BY <2>1, <2>2, <2>3 DEF Revises, new
<1>3. Revises(item, Withdrawn(item))
    <2> DEFINE new == Withdrawn(item)
    <2>1. /\ new \in Item
          /\ new.version = item.version + 1 /\ new.meaning = item.meaning
          /\ new.active = FALSE /\ new.deleted = item.deleted
          /\ new.sources = item.sources
        BY <1>1 DEF Withdrawn, Item
    <2> HIDE DEF new
    <2>2. Succeeds(item, new)
        BY <1>1, <2>1 DEF Succeeds
    <2>3. ItemSound(new)
        BY <2>1 DEF ItemSound
    <2> QED
        BY <2>1, <2>2, <2>3 DEF Revises, new
<1>4. ASSUME NEW m \in Meanings, item.active
      PROVE  Revises(item, Corrected(item, m))
    <2> DEFINE new == Corrected(item, m)
    <2>1. /\ new \in Item
          /\ new.version = item.version + 1 /\ new.meaning = m
          /\ new.active = item.active /\ new.deleted = item.deleted
          /\ new.sources = item.sources
        BY <1>1 DEF Corrected, Item, Texts
    <2> HIDE DEF new
    <2>2. Succeeds(item, new)
        BY <1>1, <2>1 DEF Succeeds
    <2>3. ItemSound(new)
        BY <1>4, <2>1 DEF ItemSound
    <2> QED
        BY <2>1, <2>2, <2>3 DEF Revises, new
<1> QED
    BY <1>2, <1>3, <1>4

LEMMA TalkServed ==
    ASSUME MemoryInv, Talk
    PROVE  Served
<1>1. memory' = memory /\ deleting' = {}
    BY DEF Talk, Serve
<1>2. Later(memory, memory)
    BY LaterReflexive DEF MemoryInv
<1>3. Len(memory.candidates) <= inputs + 1
    BY MemoryShape DEF MemoryInv
<1> QED
    BY <1>1, <1>2, <1>3 DEF Served, MemoryInv

LEMMA ReevaluateServed ==
    ASSUME MemoryInv, NEW targets, Reevaluate(targets)
    PROVE  Served
<1> DEFINE items == [i \in DOMAIN memory.items |->
                        IF i \in targets THEN Reevaluated(memory.items[i]) ELSE memory.items[i]]
<1>1. /\ Unasked /\ deleting' = {}
      /\ memory' = [memory EXCEPT !.items = items]
    BY DEF Reevaluate, Serve
<1>2. memory' = [memory EXCEPT !.items = items, !.corrections = memory.corrections]
    BY <1>1, MemoryShape
<1>3. \A i \in 1..Len(memory.items) : Revises(memory.items[i], items[i])
    BY MemoryShape, ItemShape, ItemRevised, RevisesItself
<1>4. items \in [1..Len(memory.items) -> Item]
    BY <1>3, MemoryShape DEF Revises
<1> HIDE DEF items
<1>5. items \in Seq(Item) /\ Len(items) = Len(memory.items)
    BY <1>4, MemoryShape, SeqOfFunction
<1> QED
    BY <1>1, <1>2, <1>3, <1>5, MemoryShape, RevisionServed

LEMMA WithdrawServed ==
    ASSUME MemoryInv, NEW targets, Withdraw(targets)
    PROVE  Served
<1> DEFINE items == [i \in DOMAIN memory.items |->
                        IF i \in targets THEN Withdrawn(memory.items[i]) ELSE memory.items[i]]
<1>1. /\ Unasked /\ deleting' = {}
      /\ memory' = [memory EXCEPT !.items = items]
    BY DEF Withdraw, WithdrawalAllowed, Serve
<1>2. memory' = [memory EXCEPT !.items = items, !.corrections = memory.corrections]
    BY <1>1, MemoryShape
<1>3. \A i \in 1..Len(memory.items) : Revises(memory.items[i], items[i])
    BY MemoryShape, ItemShape, ItemRevised, RevisesItself
<1>4. items \in [1..Len(memory.items) -> Item]
    BY <1>3, MemoryShape DEF Revises
<1> HIDE DEF items
<1>5. items \in Seq(Item) /\ Len(items) = Len(memory.items)
    BY <1>4, MemoryShape, SeqOfFunction
<1> QED
    BY <1>1, <1>2, <1>3, <1>5, MemoryShape, RevisionServed

LEMMA CorrectServed ==
    ASSUME MemoryInv, NEW i \in Active, NEW m \in Meanings, Correct(i, m)
    PROVE  Served
<1> DEFINE new == Corrected(memory.items[i], m)
           items == [memory.items EXCEPT ![i] = new]
           entry == [item |-> i, version |-> new.version,
                     previous |-> memory.items[i].meaning, replacement |-> m]
<1>1. i \in 1..Len(memory.items) /\ memory.items[i].active /\ i \in ItemIds
    BY MemoryShape DEF Active
<1>2. /\ Unasked /\ deleting' = {}
      /\ memory' = [memory EXCEPT !.items[i] = new,
                                  !.corrections = memory.corrections \cup {entry}]
    BY DEF Correct, Serve
<1>3. ~memory.items[i].deleted
    BY <1>1, ItemShape DEF ItemSound
<1>4. Revises(memory.items[i], new)
    BY <1>1, ItemShape, ItemRevised
<1>5. entry \in Correction /\ entry.item = i
    BY <1>1, <1>4, ItemShape DEF Correction, Revises, Item, Texts
<1> HIDE DEF new, entry
<1>6. memory' = [memory EXCEPT !.items = items, !.corrections = memory.corrections \cup {entry}]
    BY <1>2, MemoryShape
<1>7. /\ items \in Seq(Item) /\ Len(items) = Len(memory.items)
      /\ \A j \in 1..Len(memory.items) : items[j] = IF j = i THEN new ELSE memory.items[j]
    BY <1>1, <1>4, MemoryShape, ExceptSeq DEF Revises
<1> HIDE DEF items
<1>8. \A j \in 1..Len(memory.items) : Revises(memory.items[j], items[j])
    BY <1>4, <1>7, RevisesItself
<1>9. /\ memory.corrections \cup {entry} \in SUBSET Correction
      /\ \A r \in memory.corrections \cup {entry} : r \in memory.corrections \/
            (r.item \in 1..Len(memory.items) /\ ~memory.items[r.item].deleted)
    BY <1>1, <1>3, <1>5, MemoryShape
<1> QED
    BY <1>2, <1>6, <1>7, <1>8, <1>9, RevisionServed

\* Only the pins change.
LEMMA PendingServed ==
    ASSUME MemoryInv, deleting' = {},
           NEW pending \in SUBSET (ItemIds \X (Nat \ {0})),
           \A pin \in pending :
              /\ pin[1] \in 1..Len(memory.items)
              /\ ~memory.items[pin[1]].deleted
              /\ memory.items[pin[1]].version = pin[2],
           memory' = [memory EXCEPT !.pending = pending]
    PROVE  Served
<1>1. memory' = [items |-> memory.items, candidates |-> memory.candidates,
                 corrections |-> memory.corrections, deletions |-> memory.deletions,
                 pending |-> pending]
    BY MemoryShape
<1>2. Len(memory.candidates) <= inputs + 1 /\ Len(memory.items) <= MaxItems
    BY MemoryShape DEF MemoryInv
<1>3. \A i \in 1..Len(memory.items) :
         ItemSound(memory.items[i]) /\ Succeeds(memory.items[i], memory.items[i])
    BY ItemShape, SucceedsItself
<1>4. Len(memory.items) <= Len(memory.items) /\ deleting' \subseteq ItemIds
    BY MemoryShape
<1> QED
    BY <1>1, <1>2, <1>3, <1>4, MemoryShape, MemorySound, ServedParts

LEMMA CancelDeletionServed ==
    ASSUME MemoryInv, CancelDeletion
    PROVE  Served
<1>1. memory' = [memory EXCEPT !.pending = {}] /\ deleting' = {}
    BY DEF CancelDeletion, Serve
<1>2. /\ {} \in SUBSET (ItemIds \X (Nat \ {0}))
      /\ \A pin \in {} :
            /\ pin[1] \in 1..Len(memory.items)
            /\ ~memory.items[pin[1]].deleted
            /\ memory.items[pin[1]].version = pin[2]
    OBVIOUS
<1> QED
    BY ONLY MemoryInv, <1>1, <1>2, PendingServed

LEMMA RequestDeletionServed ==
    ASSUME MemoryInv, NEW targets \in SUBSET Live, RequestDeletion(targets)
    PROVE  Served
<1> DEFINE pending == {<<i, memory.items[i].version>> : i \in targets}
<1>1. memory' = [memory EXCEPT !.pending = pending] /\ deleting' = {}
    BY DEF RequestDeletion, Serve
<1>2. \A i \in targets :
         /\ i \in 1..Len(memory.items) /\ i \in ItemIds
         /\ ~memory.items[i].deleted
         /\ memory.items[i].version \in Nat \ {0}
    BY MemoryShape, ItemShape DEF Live
<1>3. pending \in SUBSET (ItemIds \X (Nat \ {0}))
    BY <1>2
<1>4. \A pin \in pending :
         /\ pin[1] \in 1..Len(memory.items)
         /\ ~memory.items[pin[1]].deleted
         /\ memory.items[pin[1]].version = pin[2]
    BY <1>2
<1> QED
    BY <1>1, <1>3, <1>4, PendingServed

\* The candidate of this input is entered as a source of the item it became
\* part of.
LEMMA RetainServed ==
    ASSUME MemoryInv, inputs < MaxInputs, NEW m \in Meanings, Retain(m)
    PROVE  Served
<1> DEFINE c == Len(memory.candidates) + 1
           same == Matching(Active, {m})
           first == CHOOSE i \in same : \A j \in same : i <= j
           place == IF same # {} THEN first ELSE Len(memory.items) + 1
           candidate == [meaning |-> m, item |-> place]
           candidates == Append(memory.candidates, candidate)
           adopted == [version |-> 1, meaning |-> m, active |-> TRUE,
                       deleted |-> FALSE, sources |-> {c}]
           items == IF same # {} THEN [memory.items EXCEPT ![place] = Merged(memory.items[place], c)]
                    ELSE Append(memory.items, adopted)
<1>1. /\ Unasked /\ deleting' = {} /\ place \in ItemIds
      /\ memory' = [memory EXCEPT !.candidates = candidates, !.items = items]
    BY DEF Retain, Serve
<1>2. same # {} => place \in same
    <2>1. same \in SUBSET Nat
        BY MemoryShape DEF Matching, Active
    <2> HIDE DEF same
    <2> QED
        BY <2>1, LeastExists
<1>3. same # {} => /\ place \in 1..Len(memory.items)
                   /\ memory.items[place].active
                   /\ memory.items[place].meaning = m
    BY <1>2, MemoryShape DEF Matching, Active
<1>4. c \in 1..MaxInputs /\ c <= inputs + 1
    BY MemoryShape, GovernanceBounds DEF MemoryInv
<1>5. candidate \in Candidate /\ candidate.item = place /\ candidate.meaning = m
    BY <1>1 DEF Candidate, Texts
<1>6. adopted \in Item /\ ItemSound(adopted) /\ adopted.sources = {c} /\ ~adopted.deleted
    BY <1>4 DEF Item, Texts, ItemSound
<1> HIDE DEF c, same, first, place, candidate, adopted
<1>7. /\ candidates \in Seq(Candidate)
      /\ Len(candidates) = c
      /\ \A k \in 1..Len(memory.candidates) : candidates[k] = memory.candidates[k]
      /\ candidates[c] = candidate
    BY <1>5, MemoryShape, AppendProperties DEF c
\* In both cases the place is that of an item not deleted, with this source.
<1>8. /\ items \in Seq(Item)
      /\ Len(memory.items) <= Len(items) /\ Len(items) <= MaxItems
      /\ \A i \in 1..Len(items) : ItemSound(items[i])
      /\ \A i \in 1..Len(memory.items) :
            /\ Succeeds(memory.items[i], items[i])
            /\ items[i].deleted = memory.items[i].deleted
            /\ items[i].version = memory.items[i].version \/ i = place
            /\ memory.items[i].sources \subseteq items[i].sources
      /\ place \in 1..Len(items)
      /\ c \in items[place].sources
      /\ ~items[place].deleted
    <2>1. CASE same # {}
        <3> DEFINE old == memory.items[place]
                   new == Merged(old, c)
        <3>1. place \in 1..Len(memory.items) /\ old.active
            BY <1>3, <2>1
        <3>2. ~old.deleted
            BY <3>1, ItemShape DEF ItemSound
        <3>3. /\ new \in Item
              /\ new.version = old.version + 1 /\ new.meaning = old.meaning
              /\ new.deleted = old.deleted
              /\ new.sources = old.sources \cup {c}
            <4>1. /\ old \in Item /\ old.version + 1 \in Nat \ {0}
                  /\ old.sources \cup {c} \in SUBSET (1..MaxInputs)
                BY <1>4, <3>1, ItemShape
            <4> HIDE DEF old
            <4> QED
                BY <4>1 DEF Merged, Item
        <3>4. old.version \in Nat /\ ItemSound(old)
            BY <3>1, ItemShape
        <3> HIDE DEF old, new
        <3>5. Succeeds(old, new) /\ ItemSound(new)
            BY <3>2, <3>3, <3>4 DEF Succeeds, ItemSound
        <3>6. items = [memory.items EXCEPT ![place] = new]
            BY <2>1 DEF new, old
        <3> HIDE DEF items
        <3>7. /\ items \in Seq(Item) /\ Len(items) = Len(memory.items)
              /\ \A j \in 1..Len(memory.items) : items[j] = IF j = place THEN new ELSE memory.items[j]
            BY <3>1, <3>3, <3>6, MemoryShape, ExceptSeq
        <3>8. Len(memory.items) <= Len(items) /\ Len(items) <= MaxItems
            BY <3>7, MemoryShape DEF MemoryInv
        <3>9. \A i \in 1..Len(memory.items) :
                 /\ ItemSound(items[i])
                 /\ Succeeds(memory.items[i], items[i])
                 /\ items[i].deleted = memory.items[i].deleted
                 /\ items[i].version = memory.items[i].version \/ i = place
                 /\ memory.items[i].sources \subseteq items[i].sources
            BY <3>3, <3>5, <3>7, ItemShape, SucceedsItself DEF old
        <3>10. items[place] = new
            BY <3>1, <3>7
        <3> QED
            BY <3>1, <3>2, <3>3, <3>7, <3>8, <3>9, <3>10
    <2>2. CASE same = {}
        <3>1. items = Append(memory.items, adopted) /\ place = Len(memory.items) + 1
            BY <2>2 DEF place
        <3> HIDE DEF items
        <3>2. /\ items \in Seq(Item) /\ Len(items) = Len(memory.items) + 1
              /\ \A j \in 1..Len(memory.items) : items[j] = memory.items[j]
              /\ items[place] = adopted
            BY <1>6, <3>1, MemoryShape, AppendProperties
        <3>3. Len(items) \in Nat /\ Len(items) = place /\ place <= MaxItems
            BY <1>1, <3>1, <3>2, MemoryShape, GovernanceBounds DEF ItemIds
        <3>4. \A i \in 1..Len(items) : i \in 1..Len(memory.items) \/ i = place
            BY <3>1, <3>3, MemoryShape
        <3>5. \A i \in 1..Len(items) : ItemSound(items[i])
            BY <1>6, <3>2, <3>4, ItemShape
        <3>6. \A i \in 1..Len(memory.items) :
                 /\ Succeeds(memory.items[i], items[i])
                 /\ items[i].deleted = memory.items[i].deleted
                 /\ items[i].version = memory.items[i].version
                 /\ memory.items[i].sources \subseteq items[i].sources
            BY <3>2, SucceedsItself
        <3>7. /\ Len(memory.items) <= Len(items) /\ Len(items) <= MaxItems
              /\ place \in 1..Len(items)
            BY <3>1, <3>2, <3>3, MemoryShape
        <3> QED
            BY <1>6, <3>2, <3>5, <3>6, <3>7
    <2> QED
        BY <2>1, <2>2
<1> HIDE DEF items
<1>9. memory' = [items |-> items, candidates |-> candidates, corrections |-> memory.corrections,
                 deletions |-> memory.deletions, pending |-> {}]
    BY <1>1, MemoryShape DEF Unasked
<1> HIDE DEF candidates
<1>10. Len(items) \in Nat /\ 1..Len(memory.items) \subseteq 1..Len(items)
    BY <1>8, MemoryShape, LenProperties
<1>11. \A k \in 1..Len(candidates) :
          /\ candidates[k].item \in 1..Len(items)
          /\ k \in items[candidates[k].item].sources
          /\ items[candidates[k].item].deleted => candidates[k].meaning = Redacted
    <2> TAKE k \in 1..Len(candidates)
    <2>1. CASE k = c
        BY <1>5, <1>7, <1>8, <2>1
    <2>2. CASE k \in 1..Len(memory.candidates)
        <3>1. /\ candidates[k] = memory.candidates[k]
              /\ candidates[k].item \in 1..Len(memory.items)
            BY <1>7, <2>2, MemorySound
        <3> QED
            BY <1>8, <1>10, <2>2, <3>1, MemorySound
    <2> QED
        BY <1>7, <2>1, <2>2, MemoryShape DEF c
<1>12. /\ \A r \in memory.corrections :
             /\ r.item \in 1..Len(items)
             /\ items[r.item].deleted => r.previous = Redacted /\ r.replacement = Redacted
       /\ \A d \in memory.deletions, i \in ItemIds :
             i \in d.items => i \in 1..Len(items) /\ items[i].deleted
    BY <1>8, <1>10, MemorySound
<1>13. /\ Len(candidates) <= inputs + 1
       /\ {} \in SUBSET (ItemIds \X (Nat \ {0}))
       /\ deleting' \subseteq ItemIds
    BY <1>1, <1>4, <1>7
<1>14. \A i \in 1..Len(memory.items) : Succeeds(memory.items[i], items[i])
    BY <1>8
<1>15. /\ items \in Seq(Item) /\ candidates \in Seq(Candidate)
       /\ Len(memory.items) <= Len(items) /\ Len(items) <= MaxItems
       /\ \A i \in 1..Len(items) : ItemSound(items[i])
       /\ memory.corrections \in SUBSET Correction
       /\ memory.deletions \in SUBSET Deletion
       /\ \A d \in memory.deletions : d.status = "completed" => d \in memory.deletions
    BY <1>7, <1>8, MemoryShape
<1>16. /\ \A pin \in {} :
             /\ pin[1] \in 1..Len(items)
             /\ ~items[pin[1]].deleted
             /\ items[pin[1]].version = pin[2]
       /\ \A i \in deleting' : i \in 1..Len(items) /\ items[i].deleted
    BY <1>1
<1> QED
    BY ONLY MemoryInv, <1>9, <1>11, <1>12, <1>13, <1>14, <1>15, <1>16, ServedParts

LEMMA ItemDeleted ==
    ASSUME NEW item \in Item, ItemSound(item)
    PROVE  /\ Tombstone(item) \in Item
           /\ ItemSound(Tombstone(item))
           /\ Succeeds(item, Tombstone(item))
           /\ Tombstone(item).deleted
           /\ Tombstone(item).sources = item.sources
<1> DEFINE new == Tombstone(item)
<1>1. item.version \in Nat /\ item.version + 1 \in Nat \ {0}
    BY DEF Item
<1>2. /\ new \in Item
      /\ new.version = item.version + 1 /\ new.meaning = Redacted
      /\ new.active = FALSE /\ new.deleted = TRUE
      /\ new.sources = item.sources
    BY <1>1 DEF Tombstone, Item, Texts
<1> HIDE DEF new
<1>3. Succeeds(item, new) /\ ItemSound(new)
    BY <1>1, <1>2 DEF Succeeds, ItemSound
<1> QED
    BY <1>2, <1>3 DEF new

\* Redacting the sources of the targets reaches every candidate of theirs.
LEMMA CandidatesRedacted ==
    ASSUME MemoryInv, NEW targets \in SUBSET (1..Len(memory.items))
    PROVE  /\ RedactedCandidates(targets) \in Seq(Candidate)
           /\ Len(RedactedCandidates(targets)) = Len(memory.candidates)
           /\ \A c \in 1..Len(memory.candidates) :
                 LET candidate == RedactedCandidates(targets)[c]
                 IN  /\ candidate.item = memory.candidates[c].item
                     /\ candidate.meaning \in {memory.candidates[c].meaning, Redacted}
                     /\ candidate.item \in targets => candidate.meaning = Redacted
<1> DEFINE candidates == RedactedCandidates(targets)
<1>1. DOMAIN candidates = 1..Len(memory.candidates)
    BY MemoryShape DEF RedactedCandidates
<1>2. ASSUME NEW c \in 1..Len(memory.candidates)
      PROVE  /\ candidates[c] \in Candidate
             /\ candidates[c].item = memory.candidates[c].item
             /\ candidates[c].meaning \in {memory.candidates[c].meaning, Redacted}
             /\ candidates[c].item \in targets => candidates[c].meaning = Redacted
    <2> DEFINE old == memory.candidates[c]
    <2>1. candidates[c] = IF \E i \in targets : c \in memory.items[i].sources
                          THEN [old EXCEPT !.meaning = Redacted] ELSE old
        BY MemoryShape DEF RedactedCandidates
    <2>2. old \in Candidate /\ c \in memory.items[old.item].sources
        BY MemorySound
    <2> HIDE DEF old, candidates
    <2>3. /\ candidates[c] \in Candidate
          /\ candidates[c].item = old.item
          /\ candidates[c].meaning \in {old.meaning, Redacted}
        BY <2>1, <2>2 DEF Candidate, Texts
    <2>4. old.item \in targets => candidates[c].meaning = Redacted
        BY <2>1, <2>2 DEF Candidate
    <2> QED
        BY <2>3, <2>4 DEF old
<1>3. candidates \in [1..Len(memory.candidates) -> Candidate]
    <2>1. candidates = [c \in 1..Len(memory.candidates) |-> candidates[c]]
        BY <1>1 DEF RedactedCandidates
    <2> HIDE DEF candidates
    <2> QED
        BY <1>2, <2>1
<1> HIDE DEF candidates
<1>4. candidates \in Seq(Candidate) /\ Len(candidates) = Len(memory.candidates)
    BY <1>3, MemoryShape, SeqOfFunction
<1> QED
    BY <1>2, <1>4 DEF candidates

LEMMA CorrectionsRedacted ==
    ASSUME MemoryInv, NEW targets \in SUBSET (1..Len(memory.items))
    PROVE  /\ RedactedCorrections(targets) \in SUBSET Correction
           /\ \A r \in RedactedCorrections(targets) :
                 /\ r.item \in 1..Len(memory.items)
                 /\ r.item \in targets \/ memory.items[r.item].deleted =>
                       r.previous = Redacted /\ r.replacement = Redacted
<1> DEFINE new(r) == IF r.item \in targets
                     THEN [r EXCEPT !.previous = Redacted, !.replacement = Redacted] ELSE r
<1>1. ASSUME NEW r \in memory.corrections
      PROVE  /\ new(r) \in Correction
             /\ new(r).item \in 1..Len(memory.items)
             /\ new(r).item \in targets \/ memory.items[new(r).item].deleted =>
                   new(r).previous = Redacted /\ new(r).replacement = Redacted
    <2>1. /\ r \in Correction
          /\ r.item \in 1..Len(memory.items)
          /\ memory.items[r.item].deleted => r.previous = Redacted /\ r.replacement = Redacted
        BY MemoryShape, MemorySound
    <2>2. CASE r.item \notin targets
        BY <2>1, <2>2
    <2>3. CASE r.item \in targets
        <3>1. /\ new(r) \in Correction /\ new(r).item = r.item
              /\ new(r).previous = Redacted /\ new(r).replacement = Redacted
            BY <2>1, <2>3 DEF Correction, Texts
        <3> QED
            BY <2>1, <3>1
    <2> QED
        BY <2>2, <2>3
<1>2. RedactedCorrections(targets) = {new(r) : r \in memory.corrections}
    BY DEF RedactedCorrections
<1> HIDE DEF new
<1> QED
    BY <1>1, <1>2

LEMMA ConfirmDeletionServed ==
    ASSUME MemoryInv, ConfirmDeletion
    PROVE  Served
<1> DEFINE targets == PinnedTargets
           items == [i \in DOMAIN memory.items |->
                        IF i \in targets THEN Tombstone(memory.items[i]) ELSE memory.items[i]]
           candidates == RedactedCandidates(targets)
           corrections == RedactedCorrections(targets)
           record == [items |-> targets, status |-> "partial"]
           deletions == IF targets = {} THEN memory.deletions ELSE memory.deletions \cup {record}
<1>1. /\ deleting' = targets
      /\ memory' = [memory EXCEPT !.pending = {}, !.items = items, !.candidates = candidates,
                                  !.corrections = corrections, !.deletions = deletions]
    BY DEF ConfirmDeletion, Serve
<1>2. memory' = [items |-> items, candidates |-> candidates, corrections |-> corrections,
                 deletions |-> deletions, pending |-> {}]
    BY <1>1, MemoryShape
<1>3. targets \in SUBSET (1..Len(memory.items)) /\ targets \in SUBSET ItemIds
    BY MemoryShape DEF PinnedTargets, Live
<1> HIDE DEF targets
<1>4. ASSUME NEW i \in 1..Len(memory.items)
      PROVE  /\ items[i] \in Item
             /\ ItemSound(items[i])
             /\ Succeeds(memory.items[i], items[i])
             /\ items[i].deleted <=> (i \in targets \/ memory.items[i].deleted)
             /\ items[i].sources = memory.items[i].sources
    BY MemoryShape, ItemShape, ItemDeleted, SucceedsItself
<1>5. items \in [1..Len(memory.items) -> Item]
    BY <1>4, MemoryShape
<1> HIDE DEF items
<1>6. items \in Seq(Item) /\ Len(items) = Len(memory.items)
    BY <1>5, MemoryShape, SeqOfFunction
<1>7. /\ candidates \in Seq(Candidate)
      /\ Len(candidates) = Len(memory.candidates)
      /\ \A c \in 1..Len(memory.candidates) :
            /\ candidates[c].item = memory.candidates[c].item
            /\ candidates[c].meaning \in {memory.candidates[c].meaning, Redacted}
            /\ candidates[c].item \in targets => candidates[c].meaning = Redacted
    BY <1>3, CandidatesRedacted
<1> HIDE DEF candidates
<1>8. \A c \in 1..Len(candidates) :
         /\ candidates[c].item \in 1..Len(items)
         /\ c \in items[candidates[c].item].sources
         /\ items[candidates[c].item].deleted => candidates[c].meaning = Redacted
    BY <1>4, <1>6, <1>7, MemorySound
<1>9. /\ corrections \in SUBSET Correction
      /\ \A r \in corrections :
            /\ r.item \in 1..Len(items)
            /\ items[r.item].deleted => r.previous = Redacted /\ r.replacement = Redacted
    BY <1>3, <1>4, <1>6, CorrectionsRedacted
<1> HIDE DEF corrections
<1>10. record \in Deletion /\ record.items = targets /\ record.status = "partial"
    BY <1>3 DEF Deletion
<1> HIDE DEF record
<1>11. deletions \in SUBSET Deletion
    BY <1>10, MemoryShape
<1>12. \A d \in deletions, i \in ItemIds :
          i \in d.items => i \in 1..Len(items) /\ items[i].deleted
    BY <1>3, <1>4, <1>6, <1>10, MemorySound
<1>13. \A d \in deletions : d.status = "completed" => d \in memory.deletions
    BY <1>10
<1> HIDE DEF deletions
<1>14. /\ Len(memory.items) <= Len(items) /\ Len(items) <= MaxItems
       /\ Len(candidates) <= inputs + 1
    BY <1>6, <1>7, MemoryShape DEF MemoryInv
<1>15. /\ deleting' \subseteq ItemIds
       /\ \A i \in deleting' : i \in 1..Len(items) /\ items[i].deleted
    BY <1>1, <1>3, <1>4, <1>6
<1>16. /\ {} \in SUBSET (ItemIds \X (Nat \ {0}))
       /\ \A pin \in {} :
             /\ pin[1] \in 1..Len(items)
             /\ ~items[pin[1]].deleted
             /\ items[pin[1]].version = pin[2]
    OBVIOUS
<1>17. /\ \A i \in 1..Len(items) : ItemSound(items[i])
       /\ \A i \in 1..Len(memory.items) : Succeeds(memory.items[i], items[i])
    BY <1>4, <1>6
<1> QED
    BY ONLY MemoryInv, <1>2, <1>6, <1>7, <1>8, <1>9, <1>11, <1>12, <1>13, <1>14, <1>15, <1>16,
            <1>17, ServedParts

-----------------------------------------------------------------------------
(* The steps *)

LEMMA Basics ==
    ASSUME IInv
    PROVE  /\ MemoryInv
           /\ memory \in States
           /\ Len(checkpoints) \in Nat \ {0}
           /\ DOMAIN checkpoints = 1..Len(checkpoints)
           /\ \A k \in 1..Len(checkpoints) : checkpoints[k] \in States
           /\ Newest \in States
           /\ \A s \in States :
                 /\ s \in Snapshot
                 /\ Len(s.items) <= MaxItems
                 /\ Len(s.candidates) <= inputs
                 /\ Sound(s)
           /\ \A s \in States : s = memory \/ \E k \in 1..Len(checkpoints) : s = checkpoints[k]
<1>1. /\ Len(checkpoints) \in Nat \ {0}
      /\ DOMAIN checkpoints = 1..Len(checkpoints)
      /\ \A k \in 1..Len(checkpoints) : checkpoints[k] \in Snapshot
    BY EmptySeq, LenProperties, ElementOfSeq DEF IInv, TypeInv, TypeOK
<1>2. /\ memory \in States
      /\ \A k \in 1..Len(checkpoints) : checkpoints[k] \in States
      /\ \A s \in States : s = memory \/ \E k \in 1..Len(checkpoints) : s = checkpoints[k]
    BY <1>1 DEF States
<1>3. Newest \in States
    BY <1>1, <1>2 DEF Newest
<1>4. \A s \in States :
         /\ s \in Snapshot
         /\ Len(s.items) <= MaxItems
         /\ Len(s.candidates) <= inputs
         /\ Sound(s)
    BY <1>1, <1>2 DEF IInv, TypeInv, TypeOK, SoundInv
<1>5. MemoryInv
    BY <1>2, <1>4 DEF MemoryInv, IInv, TypeInv, TypeOK
<1> QED
    BY <1>1, <1>2, <1>3, <1>4, <1>5

\* A step keeps the bounds and soundness if every state after it was one before
\* it, or is a sound memory.
LEMMA StatesKept ==
    ASSUME IInv, TypeOK', inputs <= inputs',
           \A s \in States' : \/ s \in States
                              \/ /\ Len(s.items) <= MaxItems
                                 /\ Len(s.candidates) <= inputs'
                                 /\ Sound(s)
    PROVE  TypeInv' /\ SoundInv'
<1>1. \A s \in States : Len(s.candidates) \in Nat
    BY Basics, SnapshotShape
<1>2. inputs \in Nat /\ inputs' \in Nat
    BY DEF IInv, TypeInv, TypeOK
<1>3. \A s \in States' : /\ Len(s.items) <= MaxItems
                         /\ Len(s.candidates) <= inputs'
                         /\ Sound(s)
    BY <1>1, <1>2, Basics
<1> QED
    BY <1>3 DEF TypeInv, SoundInv

\* What a deletion names is in the items, and deleted.
LEMMA FinishedDeleted ==
    ASSUME NEW s, Sound(s), NEW i \in Finished(s)
    PROVE  i \in ItemIds /\ i \in DOMAIN s.items /\ s.items[i].deleted
    BY DEF Finished, Sound

LEMMA ServeStep ==
    ASSUME IInv, Served, NEW change, Serve(change)
    PROVE  IInv'
<1>1. /\ up /\ pc = "idle" /\ pc' = "save"
      /\ inputs' = inputs + 1 /\ inputs < MaxInputs
      /\ UNCHANGED <<checkpoints, pages, up, healthy>>
    BY DEF Serve
<1>2. TypeOK'
    BY <1>1, GovernanceBounds DEF IInv, TypeInv, TypeOK, Served
<1>3. \A s \in States' : s = memory' \/ s \in States
    BY <1>1 DEF States
<1>4. TypeInv' /\ SoundInv'
    <2>1. inputs <= inputs'
        BY <1>1 DEF IInv, TypeInv, TypeOK
    <2>2. \A s \in States' : \/ s \in States
                             \/ /\ Len(s.items) <= MaxItems
                                /\ Len(s.candidates) <= inputs'
                                /\ Sound(s)
        BY <1>1, <1>3 DEF Served
    <2> QED
        BY <1>2, <2>1, <2>2, StatesKept
<1>5. \A k \in 1..Len(checkpoints) : Later(checkpoints[k], memory')
    <2> TAKE k \in 1..Len(checkpoints)
    <2>1. Later(checkpoints[k], memory)
        BY <1>1, Basics DEF IInv, OrderInv
    <2> QED
        BY <2>1, Basics, LaterTransitive DEF Served
<1>6. OrderInv'
    BY <1>1, <1>5, Basics DEF IInv, OrderInv
<1>7. ASSUME NEW s \in States', NEW i \in Finished(s)
      PROVE  \E old \in States : i \in Finished(old)
    BY <1>3, Basics DEF Served
<1>8. GoneInv'
    <2> SUFFICES ASSUME NEW s \in States', NEW t \in States', NEW i \in Finished(s)
                 PROVE  i \notin pages' /\ (i \in DOMAIN t.items => t.items[i].deleted)
        BY DEF GoneInv
    <2>1. PICK old \in States : i \in Finished(old)
        BY <1>7
    <2>2. i \notin pages /\ \A u \in States : i \in DOMAIN u.items => u.items[i].deleted
        BY <2>1 DEF IInv, GoneInv
    <2>3. CASE t \in States
        BY <1>1, <2>2, <2>3
    <2>4. CASE t = memory'
        <3>1. i \in DOMAIN old.items
            BY <2>1, Basics, FinishedDeleted
        <3>2. Later(old, memory)
            <4>1. CASE old = memory
                BY <4>1, Basics, LaterReflexive
            <4>2. CASE \E k \in 1..Len(checkpoints) : old = checkpoints[k]
                BY <1>1, <4>2, Basics DEF IInv, OrderInv
            <4> QED
                BY <4>1, <4>2, Basics
        <3>3. i \in DOMAIN memory.items /\ memory.items[i].deleted
            BY <2>2, <3>1, <3>2, Basics DEF Later
        <3>4. memory'.items[i].deleted
            BY <3>3 DEF Served, Later, Succeeds
        <3> QED
            BY <1>1, <2>2, <2>4, <3>4
    <2> QED
        BY <1>3, <2>3, <2>4
<1>9. DeletionInv'
    BY <1>1 DEF DeletionInv, Served
<1> QED
    BY <1>4, <1>6, <1>8, <1>9 DEF IInv

\* Save and SaveResult: the memory in use becomes the newest checkpoint.
LEMMA AppendStep ==
    ASSUME IInv, up, checkpoints' = Append(checkpoints, memory),
           UNCHANGED <<memory, pages, up, healthy, deleting, inputs>>,
           \/ pc' = "prune"
           \/ pc' = "prune_old"
    PROVE  IInv'
<1>1. /\ checkpoints' \in Seq(Snapshot)
      /\ Len(checkpoints') = Len(checkpoints) + 1
      /\ \A k \in 1..Len(checkpoints) : checkpoints'[k] = checkpoints[k]
      /\ checkpoints'[Len(checkpoints) + 1] = memory
    BY AppendProperties DEF IInv, TypeInv, TypeOK
<1>2. /\ DOMAIN checkpoints' = 1..(Len(checkpoints) + 1)
      /\ checkpoints' # <<>>
    BY <1>1, Basics, LenProperties, EmptySeq
<1>3. \A k \in 1..(Len(checkpoints) + 1) :
         k \in 1..Len(checkpoints) \/ k = Len(checkpoints) + 1
    BY Basics
<1>4. \A s \in States' : s \in States
    <2> TAKE s \in States'
    <2>1. CASE s = memory'
        BY <2>1, Basics
    <2>2. CASE \E k \in DOMAIN checkpoints' : s = checkpoints'[k]
        BY <1>1, <1>2, <1>3, <2>2, Basics
    <2> QED
        BY <2>1, <2>2 DEF States
<1>5. TypeOK'
    BY <1>1, <1>2 DEF IInv, TypeInv, TypeOK
<1>6. TypeInv' /\ SoundInv'
    <2>1. inputs <= inputs'
        BY DEF IInv, TypeInv, TypeOK
    <2> QED
        BY <1>4, <1>5, <2>1, StatesKept
<1>7. \A k \in DOMAIN checkpoints' : Later(checkpoints'[k], memory)
    <2>1. Later(memory, memory)
        BY Basics, LaterReflexive
    <2>2. \A k \in 1..Len(checkpoints) : Later(checkpoints[k], memory)
        BY Basics DEF IInv, OrderInv
    <2> QED
        BY <1>1, <1>2, <1>3, <2>1, <2>2
<1>8. OrderInv'
    <2>1. ASSUME NEW k \in DOMAIN checkpoints', NEW n \in DOMAIN checkpoints', k < n
          PROVE  Later(checkpoints'[k], checkpoints'[n])
        <3>1. k \in 1..Len(checkpoints) /\ checkpoints'[k] = checkpoints[k]
            BY <1>1, <1>2, <2>1, Basics
        <3>2. CASE n \in 1..Len(checkpoints)
            BY <1>1, <2>1, <3>1, <3>2, Basics DEF IInv, OrderInv
        <3>3. CASE n = Len(checkpoints) + 1
            BY <1>1, <1>7, <3>3
        <3> QED
            BY <1>2, <1>3, <3>2, <3>3
    <2> QED
        BY <1>7, <2>1 DEF OrderInv
<1>9. GoneInv'
    BY <1>4 DEF IInv, GoneInv
<1>10. DeletionInv'
    BY <1>1, Basics DEF IInv, DeletionInv, Newest
<1> QED
    BY <1>6, <1>8, <1>9, <1>10 DEF IInv

\* The older checkpoints are removed; only what is deleted in all of them is
\* called completed, so nothing of that reaches the free pages.
LEMMA PruneStep ==
    ASSUME IInv, NEW n \in Nat \ {0},
           checkpoints' = NewestOf(checkpoints, n), pages' = Freed(checkpoints, n),
           UNCHANGED <<memory, up, healthy, inputs>>,
           up, deleting' \in {{}, deleting},
           \/ pc' = "idle" /\ deleting' = {}
           \/ pc' = "compact" /\ n = 1 /\ Newest = memory
    PROVE  IInv'
<1>1. checkpoints \in Seq(Snapshot) /\ checkpoints # <<>>
    BY DEF IInv, TypeInv, TypeOK
<1>2. /\ checkpoints' \in Seq(Snapshot)
      /\ checkpoints' # <<>>
      /\ Len(checkpoints') = IF Len(checkpoints) <= n THEN Len(checkpoints) ELSE n
    BY <1>1, NewestOfProperties
<1>3. PICK shift \in Nat :
         /\ Len(checkpoints) = Len(checkpoints') + shift
         /\ \A k \in 1..Len(checkpoints') : checkpoints'[k] = checkpoints[k + shift]
    BY <1>1, NewestOfProperties
<1>4. /\ DOMAIN checkpoints' = 1..Len(checkpoints')
      /\ Len(checkpoints') \in Nat \ {0}
    BY <1>2, LenProperties, EmptySeq
<1>5. \A k \in 1..Len(checkpoints') : k + shift \in 1..Len(checkpoints)
    BY <1>3, <1>4, Basics
<1>6. Newest' = Newest
    <2>1. Len(checkpoints') \in 1..Len(checkpoints')
        BY <1>4
    <2> QED
        BY <1>3, <2>1 DEF Newest
<1>7. \A s \in States' : s \in States
    <2> TAKE s \in States'
    <2>1. CASE s = memory'
        BY <2>1, Basics
    <2>2. CASE \E k \in DOMAIN checkpoints' : s = checkpoints'[k]
        BY <1>3, <1>4, <1>5, <2>2, Basics
    <2> QED
        BY <2>1, <2>2 DEF States
<1>8. TypeOK'
    <2>1. pages' \subseteq ItemIds
        BY DEF Freed, IInv, TypeInv, TypeOK
    <2> QED
        BY <1>2, <2>1 DEF IInv, TypeInv, TypeOK
<1>9. TypeInv' /\ SoundInv'
    <2>1. inputs <= inputs'
        BY DEF IInv, TypeInv, TypeOK
    <2> QED
        BY <1>7, <1>8, <2>1, StatesKept
<1>10. OrderInv'
    <2>1. ASSUME NEW j \in DOMAIN checkpoints', NEW k \in DOMAIN checkpoints', j < k
          PROVE  Later(checkpoints'[j], checkpoints'[k])
        <3>1. /\ j + shift \in 1..Len(checkpoints) /\ k + shift \in 1..Len(checkpoints)
              /\ j + shift < k + shift
            BY <1>4, <1>5, <2>1
        <3> QED
            BY <1>3, <1>4, <3>1, Basics DEF IInv, OrderInv
    <2>2. \A k \in DOMAIN checkpoints' : Later(checkpoints'[k], memory)
        BY <1>3, <1>4, <1>5, Basics DEF IInv, OrderInv
    <2> QED
        BY <2>1, <2>2 DEF OrderInv
<1>11. GoneInv'
    <2> SUFFICES ASSUME NEW s \in States', NEW t \in States', NEW i \in Finished(s)
                 PROVE  i \notin pages' /\ (i \in DOMAIN t.items => t.items[i].deleted)
        BY DEF GoneInv
    <2>1. i \notin pages /\ \A u \in States : i \in DOMAIN u.items => u.items[i].deleted
        BY <1>7 DEF IInv, GoneInv
    <2>2. ASSUME NEW k \in 1..(Len(checkpoints) - n)
          PROVE  ~Holds(checkpoints[k], i)
        <3>1. k \in 1..Len(checkpoints)
            BY Basics
        <3>2. /\ checkpoints[k] \in Snapshot /\ Sound(checkpoints[k])
              /\ i \in DOMAIN checkpoints[k].items => checkpoints[k].items[i].deleted
              /\ i \in ItemIds
            BY <2>1, <3>1, Basics DEF Finished
        <3> QED
            BY <3>2, SoundHolds
    <2>3. i \notin pages'
        BY <2>1, <2>2 DEF Freed
    <2> QED
        BY <1>7, <2>1, <2>3
<1>12. DeletionInv'
    <2>1. pc' = "compact" => Len(checkpoints') = 1
        BY <1>2, Basics
    <2> QED
        BY <1>6, <2>1 DEF IInv, DeletionInv
<1> QED
    BY <1>9, <1>10, <1>11, <1>12 DEF IInv

\* Resolving the record of a deletion changes neither the items nor what the
\* redaction reached.
LEMMA ResolvedProperties ==
    ASSUME IInv, NEW status \in {"completed", "unconfirmed"}
    PROVE  LET new == Resolved(status)
           IN  /\ new \in Snapshot
               /\ new.items = memory.items
               /\ new.candidates = memory.candidates
               /\ Sound(new)
               /\ Finished(new) \subseteq Finished(memory) \cup deleting
               /\ status = "unconfirmed" => Finished(new) \subseteq Finished(memory)
<1> DEFINE new == Resolved(status)
           resolved(d) == IF d.items = deleting THEN [d EXCEPT !.status = status] ELSE d
           deletions == {resolved(d) : d \in memory.deletions}
<1>1. MemoryInv
    BY Basics
<1>2. new = [items |-> memory.items, candidates |-> memory.candidates,
             corrections |-> memory.corrections, deletions |-> deletions,
             pending |-> memory.pending]
    <2>1. new = [memory EXCEPT !.deletions = deletions]
        BY DEF Resolved
    <2> HIDE DEF new, deletions
    <2> QED
        BY <1>1, <2>1, MemoryShape
<1>3. ASSUME NEW d \in memory.deletions
      PROVE  /\ resolved(d) \in Deletion
             /\ resolved(d).items = d.items
             /\ \/ resolved(d) = d
                \/ d.items = deleting /\ resolved(d).status = status
    <2>1. d \in Deletion
        BY <1>1, MemoryShape
    <2> QED
        BY <2>1 DEF Deletion
<1> HIDE DEF new, resolved
<1>4. deletions \in SUBSET Deletion
    BY <1>3
<1>5. /\ new.items = memory.items
      /\ new.candidates = memory.candidates
      /\ new.corrections = memory.corrections
      /\ new.pending = memory.pending
      /\ new.deletions = deletions
    BY <1>2
<1>6. new \in Snapshot
    BY <1>1, <1>2, <1>4, MemoryShape DEF Snapshot
<1>7. \A d \in deletions : \E old \in memory.deletions :
         d.items = old.items /\ (d = old \/ (old.items = deleting /\ d.status = status))
    BY <1>3
<1> HIDE DEF deletions
<1>8. Sound(new)
    <2>1. /\ \A c \in DOMAIN new.candidates : CandidateSound(new, c)
          /\ \A r \in new.corrections : CorrectionSound(new, r)
          /\ PinsCurrent(new)
        BY <1>1, <1>5 DEF MemoryInv, Sound, CandidateSound, CorrectionSound, PinsCurrent
    <2>2. \A d \in new.deletions, i \in ItemIds :
             i \in d.items => i \in DOMAIN new.items /\ new.items[i].deleted
        BY <1>1, <1>5, <1>7 DEF MemoryInv, Sound
    <2>3. \A i \in DOMAIN new.items : ItemSound(new.items[i])
        BY <1>1, <1>5 DEF MemoryInv, Sound
    <2> QED
        BY <2>1, <2>2, <2>3 DEF Sound
<1>9. Finished(new) \subseteq Finished(memory) \cup deleting
    BY <1>5, <1>7 DEF Finished
<1>10. status = "unconfirmed" => Finished(new) \subseteq Finished(memory)
    BY <1>5, <1>7 DEF Finished
<1> QED
    BY <1>5, <1>6, <1>8, <1>9, <1>10 DEF new

\* The rebuild succeeded or failed.  Only the former calls the deletion
\* completed, when no page and no checkpoint but the newest is left.
LEMMA ResolveStep ==
    ASSUME IInv, NEW status \in {"completed", "unconfirmed"},
           pc = "compact", pc' = "save_result",
           memory' = Resolved(status),
           pages' \subseteq pages, status = "completed" => pages' = {},
           UNCHANGED <<checkpoints, up, healthy, deleting, inputs>>
    PROVE  IInv'
<1>1. /\ memory' \in Snapshot
      /\ memory'.items = memory.items
      /\ memory'.candidates = memory.candidates
      /\ Sound(memory')
      /\ Finished(memory') \subseteq Finished(memory) \cup deleting
      /\ status = "unconfirmed" => Finished(memory') \subseteq Finished(memory)
    BY ResolvedProperties
<1>2. \A s \in States' : s = memory' \/ s \in States
    BY DEF States
<1>3. TypeOK'
    BY <1>1 DEF IInv, TypeInv, TypeOK
<1>4. TypeInv' /\ SoundInv'
    <2>1. inputs <= inputs'
        BY DEF IInv, TypeInv, TypeOK
    <2>2. Len(memory'.items) <= MaxItems /\ Len(memory'.candidates) <= inputs'
        BY <1>1, Basics
    <2> QED
        BY <1>1, <1>2, <1>3, <2>1, <2>2, StatesKept
<1>5. OrderInv'
    <2>1. \A s : Later(s, memory) => Later(s, memory')
        BY <1>1 DEF Later
    <2> QED
        BY <2>1 DEF IInv, OrderInv
\* Everything that any state holds is the memory in use.
<1>6. \A t \in States' : t.items = memory.items
    <2>1. \A k \in DOMAIN checkpoints : checkpoints[k] = memory
        BY Basics DEF IInv, DeletionInv, Newest
    <2> QED
        BY <1>1, <2>1 DEF States
<1>7. GoneInv'
    <2> SUFFICES ASSUME NEW s \in States', NEW t \in States', NEW i \in Finished(s)
                 PROVE  i \notin pages' /\ (i \in DOMAIN t.items => t.items[i].deleted)
        BY DEF GoneInv
    <2>1. i \in DOMAIN memory.items /\ memory.items[i].deleted
        <3>1. s.items = memory.items /\ Sound(s)
            BY <1>1, <1>2, <1>6, Basics
        <3> QED
            BY <3>1, FinishedDeleted
    <2>2. CASE \E old \in States : i \in Finished(old)
        <3>1. i \notin pages
            BY <2>2, Basics DEF IInv, GoneInv
        <3> QED
            BY <1>6, <2>1, <3>1
    <2>3. CASE ~\E old \in States : i \in Finished(old)
        <3>1. s = memory'
            BY <1>2, <2>3
        <3>2. status = "completed"
            BY <1>1, <2>3, <3>1, Basics
        <3> QED
            BY <1>6, <2>1, <3>2
    <2> QED
        BY <2>2, <2>3
<1>8. DeletionInv'
    BY <1>1 DEF IInv, DeletionInv
<1> QED
    BY <1>4, <1>5, <1>7, <1>8 DEF IInv

\* A save that fails, a pruning that fails and the start of a time cycle change
\* what is done next only.
LEMMA ControlStep ==
    ASSUME IInv, up, UNCHANGED <<memory, checkpoints, pages, up, inputs>>,
           healthy' \in BOOLEAN,
           pc' \in {"idle", "save"}, deleting' = {}
    PROVE  IInv'
<1>1. States' = States
    BY DEF States
<1>2. TypeOK'
    BY DEF IInv, TypeInv, TypeOK
<1>3. TypeInv' /\ SoundInv'
    <2>1. inputs <= inputs'
        BY DEF IInv, TypeInv, TypeOK
    <2> QED
        BY <1>1, <1>2, <2>1, StatesKept
<1>4. OrderInv' /\ GoneInv'
    BY <1>1 DEF IInv, OrderInv, GoneInv
<1>5. DeletionInv'
    BY DEF DeletionInv
<1> QED
    BY <1>3, <1>4, <1>5 DEF IInv

LEMMA NothingSound ==
    /\ Nothing \in Snapshot
    /\ Nothing.items = <<>> /\ Nothing.candidates = <<>>
    /\ Len(Nothing.items) = 0 /\ Len(Nothing.candidates) = 0
    /\ DOMAIN Nothing.items = {}
    /\ Sound(Nothing)
    /\ Finished(Nothing) = {}
<1>1. /\ <<>> \in Seq(Item) /\ <<>> \in Seq(Candidate)
      /\ Len(<<>>) = 0 /\ DOMAIN <<>> = {}
    OBVIOUS
<1>2. /\ Nothing.items = <<>> /\ Nothing.candidates = <<>> /\ Nothing.corrections = {}
      /\ Nothing.deletions = {} /\ Nothing.pending = {}
      /\ Nothing \in Snapshot
    BY <1>1 DEF Nothing, Snapshot
<1> QED
    BY <1>1, <1>2 DEF Sound, PinsCurrent, Finished

LEMMA CrashStep ==
    ASSUME IInv, Crash
    PROVE  IInv'
<1>1. /\ ~up' /\ memory' = Nothing /\ pc' = "idle" /\ deleting' = {}
      /\ UNCHANGED <<checkpoints, pages, healthy, inputs>>
    BY DEF Crash
<1>2. \A s \in States' : s = Nothing \/ s \in States
    BY <1>1 DEF States
<1>3. TypeOK'
    BY <1>1, NothingSound DEF IInv, TypeInv, TypeOK, Crash
<1>4. TypeInv' /\ SoundInv'
    <2>1. inputs <= inputs' /\ inputs' \in Nat
        BY <1>1 DEF IInv, TypeInv, TypeOK
    <2>2. Len(Nothing.items) <= MaxItems /\ Len(Nothing.candidates) <= inputs'
        BY <2>1, NothingSound, GovernanceBounds
    <2> QED
        BY <1>2, <1>3, <2>1, <2>2, NothingSound, StatesKept
<1>5. OrderInv'
    BY <1>1 DEF IInv, OrderInv
<1>6. GoneInv'
    BY <1>1, <1>2, NothingSound DEF IInv, GoneInv
<1>7. DeletionInv'
    BY <1>1 DEF DeletionInv
<1> QED
    BY <1>4, <1>5, <1>6, <1>7 DEF IInv

LEMMA RestartStep ==
    ASSUME IInv, Restart
    PROVE  IInv'
<1>1. /\ ~up /\ up' /\ healthy' /\ memory' = Newest
      /\ UNCHANGED <<checkpoints, pages, pc, deleting, inputs>>
    BY DEF Restart
<1>2. pc = "idle" /\ deleting = {}
    BY <1>1 DEF IInv, DeletionInv
<1>3. \A s \in States' : s \in States
    BY <1>1, Basics DEF States
<1>4. TypeOK'
    BY <1>1, Basics DEF IInv, TypeInv, TypeOK, Restart
<1>5. TypeInv' /\ SoundInv'
    <2>1. inputs <= inputs'
        BY <1>1 DEF IInv, TypeInv, TypeOK
    <2> QED
        BY <1>3, <1>4, <2>1, StatesKept
<1>6. OrderInv'
    <2>1. \A k \in DOMAIN checkpoints : Later(checkpoints[k], Newest)
        <3> TAKE k \in DOMAIN checkpoints
        <3>1. CASE k = Len(checkpoints)
            BY <3>1, Basics, LaterReflexive DEF Newest
        <3>2. CASE k # Len(checkpoints)
            <4>1. k < Len(checkpoints) /\ Len(checkpoints) \in DOMAIN checkpoints
                BY <3>2, Basics
            <4> QED
                BY <4>1 DEF IInv, OrderInv, Newest
        <3> QED
            BY <3>1, <3>2
    <2> QED
        BY <1>1, <2>1 DEF IInv, OrderInv
<1>7. GoneInv'
    BY <1>1, <1>3 DEF IInv, GoneInv
<1>8. DeletionInv'
    BY <1>1, <1>2 DEF DeletionInv
<1> QED
    BY <1>5, <1>6, <1>7, <1>8 DEF IInv

-----------------------------------------------------------------------------
(* The theorems *)

\* A text input serves Memory in one of these ways.
LEMMA ServedCases ==
    ASSUME IInv, NEW change, Serve(change),
           \/ \E m \in Meanings : Retain(m) \/ \E i \in Active : Correct(i, m)
           \/ Talk
           \/ \E targets : Reevaluate(targets) \/ Withdraw(targets)
           \/ \E targets \in SUBSET Live : RequestDeletion(targets)
           \/ CancelDeletion \/ ConfirmDeletion
    PROVE  IInv'
<1>1. MemoryInv /\ inputs < MaxInputs
    BY Basics DEF Serve
<1>2. Served
    BY <1>1, RetainServed, CorrectServed, TalkServed, ReevaluateServed, WithdrawServed,
       RequestDeletionServed, CancelDeletionServed, ConfirmDeletionServed
<1> QED
    BY <1>2, ServeStep

LEMMA Initially ==
    ASSUME Init
    PROVE  IInv
<1>1. /\ memory = Nothing /\ checkpoints = <<Nothing>> /\ pages = {} /\ up = TRUE
      /\ healthy = TRUE /\ pc = "idle" /\ deleting = {} /\ inputs = 0
    BY DEF Init
<1>2. /\ checkpoints \in Seq(Snapshot) /\ checkpoints # <<>>
      /\ DOMAIN checkpoints = {1} /\ checkpoints[1] = Nothing
    BY <1>1, NothingSound
<1>3. States = {Nothing}
    BY <1>1, <1>2 DEF States
<1>4. TypeInv
    BY <1>1, <1>2, <1>3, NothingSound, GovernanceBounds DEF TypeInv, TypeOK
<1>5. SoundInv /\ GoneInv
    BY <1>3, NothingSound DEF SoundInv, GoneInv
<1>6. OrderInv
    BY <1>1, <1>2, NothingSound, LaterReflexive DEF OrderInv
<1>7. DeletionInv
    BY <1>1 DEF DeletionInv
<1> QED
    BY <1>4, <1>5, <1>6, <1>7 DEF IInv

LEMMA Step ==
    ASSUME IInv, [Next]_vars
    PROVE  IInv'
<1>1. CASE UNCHANGED vars
    <2>1. States' = States
        BY <1>1 DEF States, vars
    <2> QED
        BY <1>1, <2>1 DEF IInv, TypeInv, TypeOK, SoundInv, OrderInv, GoneInv, DeletionInv,
                          Newest, vars
<1>2. ASSUME NEW m \in Meanings, Retain(m)
      PROVE  IInv'
    BY <1>2, Zenon, ServedCases DEF Retain
<1>3. ASSUME NEW m \in Meanings, NEW i \in Active, Correct(i, m)
      PROVE  IInv'
    BY <1>3, Zenon, ServedCases DEF Correct
<1>4. CASE Talk
    BY <1>4, Zenon, ServedCases DEF Talk
<1>5. ASSUME NEW targets, Reevaluate(targets)
      PROVE  IInv'
    BY <1>5, Zenon, ServedCases DEF Reevaluate
<1>6. ASSUME NEW targets, Withdraw(targets)
      PROVE  IInv'
    BY <1>6, Zenon, ServedCases DEF Withdraw
<1>7. ASSUME NEW targets \in SUBSET Live, RequestDeletion(targets)
      PROVE  IInv'
    BY <1>7, Zenon, ServedCases DEF RequestDeletion
<1>8. CASE CancelDeletion
    BY <1>8, Zenon, ServedCases DEF CancelDeletion
<1>9. CASE ConfirmDeletion
    BY <1>9, Zenon, ServedCases DEF ConfirmDeletion
<1>10. CASE Save
    <2>1. up /\ (pc' = "prune" \/ pc' = "prune_old")
        BY <1>10 DEF Save, IInv, DeletionInv
    <2> QED
        BY <1>10, <2>1, AppendStep DEF Save
<1>11. CASE SaveResult
    <2>1. up
        BY <1>11 DEF SaveResult, IInv, DeletionInv
    <2> QED
        BY <1>11, <2>1, AppendStep DEF SaveResult
<1>12. CASE SaveFails
    <2>1. up
        BY <1>12 DEF SaveFails, IInv, DeletionInv
    <2> QED
        BY <1>12, <2>1, ControlStep DEF SaveFails
<1>13. CASE PruneOld
    <2>1. up /\ Newest = memory
        BY <1>13 DEF PruneOld, IInv, DeletionInv
    <2> QED
        BY <1>13, <2>1, PruneStep DEF PruneOld
<1>14. CASE Prune
    <2>1. up /\ deleting' = {} /\ pc' = "idle" /\ UNCHANGED <<memory, up, healthy, inputs>>
        BY <1>14 DEF Prune, IInv, DeletionInv
    <2>2. CASE checkpoints' = NewestOf(checkpoints, KeepLatest) /\ pages' = Freed(checkpoints, KeepLatest)
        BY <2>1, <2>2, GenerationsAssumption, PruneStep
    <2>3. CASE UNCHANGED <<checkpoints, pages>>
        <3>1. healthy' \in BOOLEAN
            BY <2>1 DEF IInv, TypeInv, TypeOK
        <3> QED
            BY <2>1, <2>3, <3>1, ControlStep
    <2> QED
        BY <1>14, <2>2, <2>3 DEF Prune
<1>15. CASE Compact
    BY <1>15, ResolveStep DEF Compact
<1>16. CASE CompactFails
    BY <1>16, ResolveStep DEF CompactFails
<1>17. CASE TimeCycle
    <2>1. up /\ deleting' = {} /\ healthy' \in BOOLEAN
        BY <1>17 DEF TimeCycle, IInv, TypeInv, TypeOK, DeletionInv
    <2> QED
        BY <1>17, <2>1, ControlStep DEF TimeCycle
<1>18. CASE Crash
    BY <1>18, CrashStep
<1>19. CASE Restart
    BY <1>19, RestartStep
<1>20. \A meanings : Matching(Live, meanings) \in SUBSET Live
    BY DEF Matching
<1> QED
    BY <1>1, <1>2, <1>3, <1>4, <1>5, <1>6, <1>7, <1>8, <1>9, <1>10, <1>11, <1>12, <1>13,
       <1>14, <1>15, <1>16, <1>17, <1>18, <1>19, <1>20 DEF Next

\* The inductive invariant holds in every reachable state.
THEOREM Inductive == Spec => []IInv
<1>1. Init => IInv
    BY Initially
<1>2. IInv /\ [Next]_vars => IInv'
    BY Step
<1> QED
    BY <1>1, <1>2, PTL DEF Spec

\* Every variable keeps its type: the items, candidates and pins of every state
\* of Memory that the text runner builds or restores.
THEOREM TypeCorrect == Spec => []TypeOK
<1>1. IInv => TypeOK
    BY DEF IInv, TypeInv
<1> QED
    BY <1>1, Inductive, PTL

\* The lineage consists of states of Memory in their order.
LEMMA LineageStates ==
    ASSUME IInv
    PROVE  /\ \A k \in DOMAIN Lineage : Lineage[k] \in States
           /\ \A k, n \in DOMAIN Lineage : k < n => Later(Lineage[k], Lineage[n])
<1>1. CASE ~up
    <2>1. Lineage = checkpoints
        BY <1>1 DEF Lineage
    <2> QED
        BY <2>1, Basics DEF IInv, OrderInv
<1>2. CASE up
    <2>1. Lineage = Append(checkpoints, memory)
        BY <1>2 DEF Lineage
    <2> HIDE DEF Lineage
    <2>2. /\ Lineage \in Seq(Snapshot)
          /\ Len(Lineage) = Len(checkpoints) + 1
          /\ \A k \in 1..Len(checkpoints) : Lineage[k] = checkpoints[k]
          /\ Lineage[Len(checkpoints) + 1] = memory
        BY <2>1, AppendProperties DEF IInv, TypeInv, TypeOK
    <2>3. DOMAIN Lineage = 1..(Len(checkpoints) + 1)
        BY <2>2, LenProperties
    <2>4. \A k \in DOMAIN Lineage : k \in 1..Len(checkpoints) \/ k = Len(checkpoints) + 1
        BY <2>3, Basics
    <2>5. \A k \in DOMAIN Lineage : Lineage[k] \in States
        BY <2>2, <2>4, Basics
    <2>6. ASSUME NEW k \in DOMAIN Lineage, NEW n \in DOMAIN Lineage, k < n
          PROVE  Later(Lineage[k], Lineage[n])
        <3>1. k \in 1..Len(checkpoints)
            BY <2>3, <2>6, Basics
        <3>2. CASE n \in 1..Len(checkpoints)
            BY <2>2, <2>6, <3>1, <3>2, Basics DEF IInv, OrderInv
        <3>3. CASE n = Len(checkpoints) + 1
            BY <1>2, <2>2, <3>1, <3>3, Basics DEF IInv, OrderInv
        <3> QED
            BY <2>4, <3>2, <3>3
    <2> QED
        BY <2>5, <2>6
<1> QED
    BY <1>1, <1>2

\* A deletion that any state of Memory calls completed has left nothing in a
\* checkpoint or in a page of the file, for any number of generations and
\* inputs, whatever failed and wherever the process ended.
THEOREM DeletionLeavesNothing == Spec => []CompletedMeansGone
<1>1. ASSUME IInv
      PROVE  CompletedMeansGone
    <2> SUFFICES ASSUME NEW k \in DOMAIN Lineage, NEW d \in Lineage[k].deletions,
                        d.status = "completed", NEW i \in d.items
                 PROVE  i \notin pages /\ \A n \in DOMAIN Lineage : ~Holds(Lineage[n], i)
        BY DEF CompletedMeansGone
    <2>1. Lineage[k] \in States
        BY <1>1, LineageStates
    <2>2. i \in ItemIds
        <3>1. d \in Deletion
            BY <1>1, <2>1, Basics, SnapshotShape
        <3> QED
            BY <3>1 DEF Deletion
    <2>3. i \in Finished(Lineage[k])
        BY <2>2 DEF Finished
    <2>4. i \notin pages
        BY <1>1, <2>1, <2>3 DEF IInv, GoneInv
    <2>5. ASSUME NEW n \in DOMAIN Lineage
          PROVE  ~Holds(Lineage[n], i)
        <3>1. /\ Lineage[n] \in States
              /\ Lineage[n] \in Snapshot /\ Sound(Lineage[n])
            BY <1>1, LineageStates, Basics
        <3>2. i \in DOMAIN Lineage[n].items => Lineage[n].items[i].deleted
            BY <1>1, <2>1, <2>3, <3>1 DEF IInv, GoneInv
        <3> QED
            BY <2>2, <3>1, <3>2, SoundHolds
    <2> QED
        BY <2>4, <2>5
<1> QED
    BY <1>1, Inductive, PTL

\* What a pending confirmation would delete is what was asked about, in every
\* state that a process can find itself in.
THEOREM PendingStaysCurrent == Spec => []PendingIsCurrent
<1>1. ASSUME IInv
      PROVE  PendingIsCurrent
    <2>1. \A k \in DOMAIN Lineage : PinsCurrent(Lineage[k])
        BY <1>1, LineageStates, Basics DEF Sound
    <2> QED
        BY <2>1 DEF PendingIsCurrent, PinsCurrent
<1> QED
    BY <1>1, Inductive, PTL

\* No two states of Memory give one version of an item two contents, over failed
\* saves, crashes and restarts.
THEOREM VersionsAreIdentities == Spec => []VersionsIdentify
<1>1. ASSUME IInv
      PROVE  VersionsIdentify
    <2>1. \A k, n \in DOMAIN Lineage : k < n => Later(Lineage[k], Lineage[n])
        BY <1>1, LineageStates
    <2> QED
        BY <2>1 DEF VersionsIdentify, Later, Succeeds
<1> QED
    BY <1>1, Inductive, PTL

\* Every step saves a later state of Memory or none.
LEMMA NewestIsLater ==
    ASSUME IInv, Next
    PROVE  Later(Newest, Newest')
<1>1. Newest \in Snapshot
    BY Basics
<1>2. CASE UNCHANGED checkpoints
    <2>1. Newest' = Newest
        BY <1>2 DEF Newest
    <2> QED
        BY <1>1, <2>1, LaterReflexive
<1>3. CASE checkpoints' = Append(checkpoints, memory) /\ pc \in {"save", "save_result"}
    <2>1. Newest' = memory
        <3>1. /\ Len(checkpoints') = Len(checkpoints) + 1
              /\ checkpoints'[Len(checkpoints) + 1] = memory
            BY <1>3, AppendProperties DEF IInv, TypeInv, TypeOK
        <3> QED
            BY <3>1 DEF Newest
    <2>2. up
        BY <1>3 DEF IInv, DeletionInv
    <2>3. Len(checkpoints) \in DOMAIN checkpoints
        BY Basics
    <2> QED
        BY <2>1, <2>2, <2>3 DEF IInv, OrderInv, Newest
<1>4. ASSUME NEW n \in Nat \ {0}, checkpoints' = NewestOf(checkpoints, n)
      PROVE  Later(Newest, Newest')
    <2>1. checkpoints \in Seq(Snapshot) /\ checkpoints # <<>>
        BY DEF IInv, TypeInv, TypeOK
    <2>2. checkpoints' \in Seq(Snapshot) /\ checkpoints' # <<>>
        BY <1>4, <2>1, NewestOfProperties
    <2>3. PICK shift \in Nat :
             /\ Len(checkpoints) = Len(checkpoints') + shift
             /\ \A k \in 1..Len(checkpoints') : checkpoints'[k] = checkpoints[k + shift]
        BY <1>4, <2>1, NewestOfProperties
    <2>4. Len(checkpoints') \in 1..Len(checkpoints')
        BY <2>2, EmptySeq
    <2>5. Newest' = Newest
        BY <2>3, <2>4 DEF Newest
    <2> QED
        BY <1>1, <2>5, LaterReflexive
<1>5. \/ UNCHANGED checkpoints
      \/ checkpoints' = Append(checkpoints, memory) /\ pc \in {"save", "save_result"}
      \/ \E n \in Nat \ {0} : checkpoints' = NewestOf(checkpoints, n)
    <2>1. \A change : Serve(change) => UNCHANGED checkpoints
        BY DEF Serve
    <2>2. \A m, i : Retain(m) \/ Correct(i, m) => UNCHANGED checkpoints
        BY <2>1 DEF Retain, Correct
    <2>3. \A targets : Reevaluate(targets) \/ Withdraw(targets) \/ RequestDeletion(targets) =>
                          UNCHANGED checkpoints
        BY <2>1 DEF Reevaluate, Withdraw, RequestDeletion
    <2>4. Talk \/ CancelDeletion \/ ConfirmDeletion => UNCHANGED checkpoints
        BY <2>1 DEF Talk, CancelDeletion, ConfirmDeletion
    <2>5. SaveFails \/ Compact \/ CompactFails \/ TimeCycle \/ Crash \/ Restart =>
             UNCHANGED checkpoints
        BY DEF SaveFails, Compact, CompactFails, TimeCycle, Crash, Restart
    <2>6. Save \/ SaveResult =>
             checkpoints' = Append(checkpoints, memory) /\ pc \in {"save", "save_result"}
        BY DEF Save, SaveResult
    <2>7. PruneOld \/ Prune =>
             \/ UNCHANGED checkpoints
             \/ \E n \in Nat \ {0} : checkpoints' = NewestOf(checkpoints, n)
        BY GenerationsAssumption DEF PruneOld, Prune
    <2> QED
        BY <2>2, <2>3, <2>4, <2>5, <2>6, <2>7 DEF Next
<1> QED
    BY <1>2, <1>3, <1>4, <1>5

\* The newest checkpoint and the memory in use are there, and sound.
SavedSound ==
    /\ Newest \in Snapshot /\ Sound(Newest)
    /\ memory \in Snapshot /\ Sound(memory)
    /\ Len(checkpoints) \in DOMAIN checkpoints

\* What the newest checkpoint has redacted comes back neither in a later one
\* nor in the memory of any process that runs after it.
THEOREM DeletionNeverReturns == Spec => DeletionIsFinal
<1>1. IInv => SavedSound
    BY Basics DEF SavedSound
<1>2. IInv' => SavedSound'
    BY <1>1, PTL
<1>3. ASSUME IInv, IInv', [Next]_vars
      PROVE  [\A i \in DOMAIN Newest.items : ~Holds(Newest, i) =>
                 /\ ~Holds(Newest', i)
                 /\ up' => ~Holds(memory', i)]_vars
    <2>1. CASE UNCHANGED vars
        BY <2>1
    <2>2. CASE Next
        <3> SUFFICES ASSUME NEW i \in DOMAIN Newest.items, ~Holds(Newest, i)
                     PROVE  /\ ~Holds(Newest', i)
                            /\ up' => ~Holds(memory', i)
            OBVIOUS
        <3>1. Newest \in Snapshot /\ Sound(Newest) /\ i \in ItemIds
            BY <1>3, Basics, SnapshotShape, GovernanceBounds DEF ItemIds
        <3>2. Newest.items[i].deleted
            BY <3>1, SoundHolds
        <3>3. Later(Newest, Newest')
            BY <1>3, <2>2, NewestIsLater
        <3>4. i \in DOMAIN Newest'.items /\ Newest'.items[i].deleted
            BY <3>2, <3>3 DEF Later, Succeeds
        <3>5. /\ Newest' \in Snapshot /\ Sound(Newest')
              /\ memory' \in Snapshot /\ Sound(memory')
              /\ Len(checkpoints') \in DOMAIN checkpoints'
            BY <1>2, <1>3 DEF SavedSound
        <3>6. up' => i \in DOMAIN memory'.items /\ memory'.items[i].deleted
            <4>1. up' => Later(Newest', memory')
                BY <1>3, <3>5 DEF IInv, OrderInv, Newest
            <4> QED
                BY <3>4, <4>1 DEF Later, Succeeds
        <3> QED
            BY <3>1, <3>4, <3>5, <3>6, SoundHolds
    <2> QED
        BY <1>3, <2>1, <2>2
<1> QED
    BY <1>3, Inductive, PTL DEF Spec, DeletionIsFinal

=============================================================================
