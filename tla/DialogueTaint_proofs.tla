------------------------- MODULE DialogueTaint_proofs -------------------------
(***************************************************************************)
(* Withdrawn content stays out of the windows, and deletions reach every   *)
(* exchange that holds the content and no other, for any number of inputs  *)
(* and memories.                                                           *)
(*                                                                         *)
(* That content reaches a reply over a chain of replies would be shown by  *)
(* induction over the chain.  TaintInv avoids it: every closed set of      *)
(* lifecycles that has the ones whose records lead to a content by         *)
(* themselves has all whose turns may hold it.                             *)
(***************************************************************************)
EXTENDS DialogueTaint, FiniteSetTheorems, TLAPS

\* The turns of l may hold content of item i.
Says(l, i) == \E c \in taint[l] : c[1] = i

\* The record of l leads to content c without the record of another exchange.
Leads(l, c) ==
    \/ l \in items[c[1]].sources
    \/ \E use \in records[l].used : use[1] = c[1] /\ items[c[1]].contents[use[2]] = c[2]
    \/ c[1] \in records[l].affected \cup records[l].targets

ContentsInv ==
    \A l \in DOMAIN records : \A c \in taint[l] :
        /\ c[1] \in DOMAIN items
        /\ \E v \in 1..Version(c[1]) : items[c[1]].contents[v] = c[2]

TaintInv ==
    \A c \in Content, S \in SUBSET DOMAIN records :
        /\ c[1] \in DOMAIN items
        /\ Legacy \subseteq S
        /\ Closed(S)
        /\ \A l \in DOMAIN records : Leads(l, c) => l \in S
        => \A l \in DOMAIN records : c \in taint[l] => l \in S

RecordInv ==
    \A l \in DOMAIN records :
        /\ \A d \in records[l].dialogue : d \in 1..(l - 1) /\ taint[d] \subseteq taint[l]
        /\ \A use \in records[l].used :
              /\ use[1] \in DOMAIN items
              /\ use[2] \in 1..Version(use[1])
              /\ <<use[1], items[use[1]].contents[use[2]]>> \in taint[l]
        /\ \A i \in records[l].affected \cup records[l].targets :
              /\ records[l].governed
              /\ i \in DOMAIN items
              /\ items[i].deleted \/ Says(l, i)

ItemInv ==
    \A i \in DOMAIN items :
        /\ items[i].active => ~items[i].deleted
        /\ \A l \in items[i].sources : l \in DOMAIN records /\ Says(l, i)

ContextInv == context # {} => Len(records) \in context

PendingInv == \A p \in pending : p.targets \subseteq Live

FlowInv == ContentsInv /\ TaintInv /\ RecordInv /\ ItemInv /\ ContextInv

IInv == TypeOK /\ FlowInv /\ PendingInv /\ DeletedMeansRedacted

-----------------------------------------------------------------------------
(* What the exclusions leave *)

LEMMA VersionsArePositive ==
    ASSUME TypeOK, NEW i \in DOMAIN items
    PROVE  /\ i \in ItemIds
           /\ items[i] \in Item
           /\ Version(i) \in Nat \ {0}
           /\ DOMAIN items[i].contents = 1..Version(i)
           /\ items[i].contents[Version(i)] \in Nat
           /\ CurrentContent(i) \in Content
<1>1. items \in Seq(Item) /\ Len(items) \in Nat /\ Len(items) <= MaxItems /\ DOMAIN items = 1..Len(items)
  BY DEF TypeOK
<1>2. i \in ItemIds /\ items[i] \in Item
  BY <1>1, TaintBounds DEF ItemIds
<1>3. items[i].contents \in Seq(Nat) /\ items[i].contents # <<>>
  BY <1>2 DEF Item
<1>4. Len(items[i].contents) \in Nat \ {0} /\ DOMAIN items[i].contents = 1..Len(items[i].contents)
  BY <1>3
<1>5. items[i].contents[Len(items[i].contents)] \in Nat
  BY <1>3, <1>4
<1> QED
  BY <1>2, <1>4, <1>5 DEF Version, CurrentContent, Content

\* What is withheld with the memories not in sel leaves only current content of sel.
LEMMA LeftIsCurrent ==
    ASSUME TypeOK, FlowInv,
           NEW sel \in SUBSET Active, NEW seeds \in SUBSET DOMAIN records,
           MemoryExclusions(sel) \cup Governed \subseteq seeds,
           NEW l \in DOMAIN records, l \notin Dependent(seeds),
           NEW c \in taint[l]
    PROVE  \E i \in sel : c = CurrentContent(i)
<1> SUFFICES ASSUME \A i \in sel : c # CurrentContent(i)
             PROVE  FALSE
  OBVIOUS
<1> DEFINE i == c[1]
<1>1. PICK S \in SUBSET DOMAIN records : /\ seeds \cup Legacy \subseteq S
                                         /\ Closed(S)
                                         /\ l \notin S
  BY DEF Dependent
<1>2. c \in Content /\ c = <<c[1], c[2]>>
  BY DEF TypeOK, Content
<1>3. i \in DOMAIN items
  BY DEF FlowInv, ContentsInv
<1>4. PICK v \in 1..Version(i) : items[i].contents[v] = c[2]
  BY DEF FlowInv, ContentsInv
<1>5. Version(i) \in Nat \ {0}
  BY <1>3, VersionsArePositive
<1>6. i \in sel => items[i].contents[Version(i)] # c[2]
  BY <1>2 DEF CurrentContent
<1>7. ASSUME NEW k \in DOMAIN records, Leads(k, c)
      PROVE  k \in S
  <2>1. CASE k \in items[i].sources
    <3>1. ~items[i].active \/ Version(i) > 1 \/ i \notin sel
      BY <1>4, <1>5, <1>6
    <3>2. i \in {j \in DOMAIN items : ~items[j].active \/ Version(j) > 1 \/ j \notin sel}
      BY <1>3, <3>1
    <3>3. k \in Outdated(sel)
      BY <2>1, <3>2 DEF Outdated
    <3> QED
      BY <1>1, <3>3 DEF MemoryExclusions
  <2>2. ASSUME NEW use \in records[k].used,
               use[1] = i, items[i].contents[use[2]] = c[2]
        PROVE  k \in S
    <3>1. use \notin Used(sel)
      <4> SUFFICES ASSUME use \in Used(sel) PROVE FALSE
        OBVIOUS
      <4>1. PICK j \in sel : use = <<j, Version(j)>>
        BY DEF Used
      <4>2. j = i /\ use[2] = Version(i)
        BY <2>2, <4>1
      <4> QED
        BY <1>6, <2>2, <4>2
    <3>2. k \in MemoryExclusions(sel)
      BY <2>2, <3>1 DEF MemoryExclusions
    <3> QED
      BY <1>1, <3>2
  <2>3. CASE i \in records[k].affected \cup records[k].targets
    <3>1. k \in Governed
      BY <2>3 DEF FlowInv, RecordInv, Governed
    <3> QED
      BY <1>1, <3>1
  <2> QED
    BY <1>7, <2>1, <2>2, <2>3 DEF Leads
<1> QED
  BY <1>1, <1>2, <1>3, <1>7 DEF FlowInv, TaintInv

\* What a window shows.
LEMMA ShownIsCurrent ==
    ASSUME TypeOK, FlowInv,
           NEW selected \in SUBSET Active, NEW first, NEW again,
           NEW l \in Window(selected, first, again)
    PROVE  /\ l \in context
           /\ \A c \in taint[l] :
                 \E i \in IF records[l].asked THEN Active ELSE selected : c = CurrentContent(i)
<1>1. l \in context /\ l \in DOMAIN records
  BY DEF Window, Confirmable, TypeOK
<1>2. CASE l \notin Withheld(selected)
  <2> DEFINE seeds == MemoryExclusions(selected) \cup Governed \cup Commands
  <2>1. seeds \in SUBSET DOMAIN records
    BY DEF MemoryExclusions, Governed, Commands, TypeOK
  <2>2. l \notin Dependent(seeds)
    BY <1>2 DEF Withheld
  <2>3. \A c \in taint[l] : \E i \in selected : c = CurrentContent(i)
    <3> HIDE DEF seeds
    <3>1. MemoryExclusions(selected) \cup Governed \subseteq seeds
      BY DEF seeds
    <3> QED
      BY <1>1, <2>1, <2>2, <3>1, LeftIsCurrent
  <2> QED
    BY <1>1, <2>3
<1>3. CASE l \in Confirmable
  <2> DEFINE seeds == MemoryExclusions(Active) \cup Governed
  <2>1. seeds \in SUBSET DOMAIN records
    BY DEF MemoryExclusions, Governed
  <2>2. l \notin Dependent(seeds) /\ records[l].asked
    BY <1>3 DEF Confirmable
  <2>3. \A c \in taint[l] : \E i \in Active : c = CurrentContent(i)
    <3> HIDE DEF seeds
    <3>1. MemoryExclusions(Active) \cup Governed \subseteq seeds
      BY DEF seeds
    <3> QED
      BY <1>1, <2>1, <2>2, <3>1, LeftIsCurrent
  <2> QED
    BY <1>1, <2>2, <2>3
<1> QED
  BY <1>2, <1>3 DEF Window

-----------------------------------------------------------------------------
(* One more lifecycle *)

\* items' continues items.
Grown ==
    /\ DOMAIN items \subseteq DOMAIN items'
    /\ \A i \in DOMAIN items :
          /\ Version(i) <= Len(items'[i].contents)
          /\ \A v \in 1..Version(i) : items'[i].contents[v] = items[i].contents[v]
          /\ items[i].sources \subseteq items'[i].sources
          /\ items[i].deleted => items'[i].deleted

\* What an input is about is tied to it in Memory or in its governance record.
Tied(record, contents, questions) ==
    /\ \A i \in DOMAIN items' : \A k \in items'[i].sources :
          \/ i \in DOMAIN items /\ k \in items[i].sources
          \/ k \in questions \cup {Here} /\ \E c \in contents : c[1] = i
    /\ \A c \in contents :
          /\ c[1] \in DOMAIN items'
          /\ \E v \in 1..Len(items'[c[1]].contents) : items'[c[1]].contents[v] = c[2]
          /\ \/ questions \cup {Here} \subseteq items'[c[1]].sources
             \/ questions = {} /\ c[1] \in record.affected \cup record.targets
    /\ \A i \in DOMAIN items' : items'[i].active => ~items'[i].deleted
    /\ \A i \in record.affected \cup record.targets :
          /\ record.governed
          /\ i \in DOMAIN items'
          /\ items'[i].deleted \/ \E c \in contents : c[1] = i

\* The window of a reply shows current contents.
Shown(record) ==
    \A l \in record.dialogue :
        l \in context /\ \A c \in taint[l] : \E i \in Active : c = CurrentContent(i)

\* What Complete does, with the lifecycles of before and the new one apart.
Completed(record, selected, contents, questions) ==
    /\ Len(records) \in Nat /\ DOMAIN records = 1..Len(records)
    /\ Here \in Lifecycles /\ Here \notin DOMAIN records
    /\ records' \in Seq(Record)
    /\ DOMAIN records' = DOMAIN records \cup {Here} /\ Len(records') = Here
    /\ \A l \in DOMAIN records : records'[l] = records[l]
    /\ records'[Here] = [record EXCEPT !.used = Used(selected)]
    /\ records'[Here] \in Record
    /\ taint' \in Seq(SUBSET Content) /\ Len(taint') = Here
    /\ \A l \in DOMAIN records :
          taint'[l] = IF l \in questions THEN taint[l] \cup contents ELSE taint[l]
    /\ \A c : c \in taint'[Here] <=>
          \/ c \in contents
          \/ \E i \in selected : c = CurrentContent(i)
          \/ \E l \in record.dialogue : c \in taint[l]
    /\ context' = context \cup {Here}

LEMMA CompleteShape ==
    ASSUME TypeOK, NEW record \in Record, NEW selected \in SUBSET Active,
           NEW contents \in SUBSET Content, NEW questions,
           Here <= MaxLifecycles, record.dialogue \subseteq context,
           Complete(record, selected, contents, questions)
    PROVE  Completed(record, selected, contents, questions)
<1>1. /\ records \in Seq(Record) /\ Len(records) \in Nat /\ DOMAIN records = 1..Len(records)
      /\ taint \in Seq(SUBSET Content) /\ Len(taint) = Len(records)
      /\ DOMAIN taint = DOMAIN records
  BY DEF TypeOK
<1>0. record.dialogue \subseteq DOMAIN taint
  BY <1>1 DEF TypeOK
<1>2. Here = Len(records) + 1 /\ Here \in Lifecycles /\ Here \notin DOMAIN records
  BY <1>1, TaintBounds DEF Here, Lifecycles
<1>3. Used(selected) \in SUBSET (ItemIds \X (Nat \ {0}))
  BY VersionsArePositive DEF Used, Active
<1>4. [record EXCEPT !.used = Used(selected)] \in Record
  BY <1>3 DEF Record
<1>5. /\ records' \in Seq(Record) /\ Len(records') = Here
      /\ DOMAIN records' = DOMAIN records \cup {Here}
      /\ \A l \in DOMAIN records : records'[l] = records[l]
      /\ records'[Here] = [record EXCEPT !.used = Used(selected)]
  BY <1>1, <1>2, <1>4 DEF Complete
<1> DEFINE old == [l \in DOMAIN taint |->
                      IF l \in questions THEN taint[l] \cup contents ELSE taint[l]]
           new == contents \cup {CurrentContent(i) : i \in selected}
                           \cup UNION {taint[l] : l \in record.dialogue}
<1>6. old \in Seq(SUBSET Content) /\ Len(old) = Len(records)
  <2>1. \A l \in DOMAIN taint : taint[l] \in SUBSET Content
    BY <1>1
  <2>2. old \in [1..Len(records) -> SUBSET Content]
    BY <1>1, <2>1
  <2> QED
    BY <1>1, <2>2
<1>7. new \in SUBSET Content
  <2>1. \A l \in record.dialogue : taint[l] \subseteq Content
    BY <1>1, <1>0
  <2>2. {CurrentContent(i) : i \in selected} \subseteq Content
    BY VersionsArePositive DEF Active
  <2>3. UNION {taint[l] : l \in record.dialogue} \subseteq Content
    BY <2>1
  <2> QED
    BY <2>2, <2>3
<1>8. taint' = Append(old, new)
  BY DEF Complete
<1>9. /\ taint' \in Seq(SUBSET Content) /\ Len(taint') = Here
      /\ \A l \in DOMAIN records : taint'[l] = old[l]
      /\ taint'[Here] = new
  <2> HIDE DEF old, new
  <2> QED
    BY <1>1, <1>2, <1>6, <1>7, <1>8
<1>10. \A c : c \in new <=>
                \/ c \in contents
                \/ \E i \in selected : c = CurrentContent(i)
                \/ \E l \in record.dialogue : c \in taint[l]
  OBVIOUS
<1>11. \A l \in DOMAIN records :
          taint'[l] = IF l \in questions THEN taint[l] \cup contents ELSE taint[l]
  BY <1>1, <1>9
<1> HIDE DEF old, new
<1> QED
  BY <1>1, <1>2, <1>4, <1>5, <1>9, <1>10, <1>11 DEF Complete, Completed

\* A question that is answered is the last exchange, on which nothing rests yet.
LEMMA QuestionsAreLast ==
    ASSUME TypeOK, FlowInv, NEW questions \in SUBSET LastExchange, NEW q \in questions
    PROVE  q = Len(records) /\ q \in DOMAIN records
<1>1. q \in context /\ \A k \in context : k <= q
  BY DEF LastExchange
<1>2. q \in DOMAIN records /\ DOMAIN records = 1..Len(records) /\ Len(records) \in Nat
  BY <1>1 DEF TypeOK
<1>3. Len(records) <= q
  BY <1>1 DEF FlowInv, ContextInv
<1> QED
  BY <1>2, <1>3

LEMMA TaintGrows ==
    ASSUME TypeOK, FlowInv, NEW record \in Record, NEW selected \in SUBSET Active,
           NEW contents \in SUBSET Content, NEW questions \in SUBSET LastExchange,
           Here <= MaxLifecycles,
           Complete(record, selected, contents, questions), Grown,
           Tied(record, contents, questions), Shown(record)
    PROVE  TaintInv'
<1>0. record.dialogue \subseteq context
  BY DEF Shown
<1>2. Completed(record, selected, contents, questions)
  BY <1>0, CompleteShape
<1> SUFFICES ASSUME NEW c \in Content, NEW S \in SUBSET DOMAIN records',
                    c[1] \in DOMAIN items', Legacy' \subseteq S, Closed(S)',
                    \A l \in DOMAIN records' : Leads(l, c)' => l \in S,
                    NEW l \in DOMAIN records', c \in taint'[l]
             PROVE  l \in S
  BY DEF TaintInv
<1>1. c = <<c[1], c[2]>>
  BY DEF Content
<1>3. /\ records'[Here].affected = record.affected /\ records'[Here].targets = record.targets
      /\ records'[Here].used = Used(selected) /\ records'[Here].dialogue = record.dialogue
  BY <1>2 DEF Record, Completed
<1>4. ASSUME NEW k \in DOMAIN records, c \in taint[k] PROVE k \in S
  <2> DEFINE T == S \cap DOMAIN records
  <2>1. c[1] \in DOMAIN items
    BY <1>4 DEF FlowInv, ContentsInv
  <2>2. Legacy \subseteq T
    BY <1>2 DEF Legacy, Completed
  <2>3. Closed(T)
    <3> SUFFICES ASSUME NEW m \in DOMAIN records, records[m].dialogue \cap T # {}
                 PROVE  m \in T
      BY DEF Closed
    <3>1. m \in DOMAIN records' /\ records'[m].dialogue \cap S # {}
      BY <1>2 DEF Completed
    <3> QED
      BY <3>1 DEF Closed
  <2>4. ASSUME NEW m \in DOMAIN records, Leads(m, c) PROVE m \in T
    <3>1. m \in DOMAIN records' /\ records'[m] = records[m]
      BY <1>2 DEF Completed
    <3>2. CASE m \in items[c[1]].sources
      BY <2>1, <3>1, <3>2 DEF Grown, Leads
    <3>3. ASSUME NEW use \in records[m].used,
                 use[1] = c[1], items[c[1]].contents[use[2]] = c[2]
          PROVE  m \in T
      <4>1. use[2] \in 1..Version(c[1])
        BY <3>3 DEF FlowInv, RecordInv
      <4>2. items'[c[1]].contents[use[2]] = c[2]
        BY <2>1, <3>3, <4>1 DEF Grown
      <4> QED
        BY <3>1, <3>3, <4>2 DEF Leads
    <3>4. CASE c[1] \in records[m].affected \cup records[m].targets
      BY <3>1, <3>4 DEF Leads
    <3> QED
      BY <2>4, <3>2, <3>3, <3>4 DEF Leads
  <2>5. T \in SUBSET DOMAIN records
    OBVIOUS
  <2> HIDE DEF T
  <2>6. k \in T
    BY <1>4, <2>1, <2>2, <2>3, <2>4, <2>5 DEF FlowInv, TaintInv
  <2> QED
    BY <2>6 DEF T
<1>5. CASE l \in DOMAIN records
  <2>1. CASE c \in taint[l]
    BY <1>4, <1>5, <2>1
  <2>2. CASE l \in questions /\ c \in contents
    <3>1. l \in items'[c[1]].sources
      BY <2>2 DEF Tied
    <3> QED
      BY <3>1 DEF Leads
  <2> QED
    BY <1>2, <1>5, <2>1, <2>2 DEF Completed
<1>6. CASE l = Here
  <2>1. CASE c \in contents
    <3>1. \/ Here \in items'[c[1]].sources
          \/ c[1] \in records'[Here].affected \cup records'[Here].targets
      BY <1>3, <2>1 DEF Tied
    <3> QED
      BY <1>6, <3>1 DEF Leads
  <2>2. ASSUME NEW i \in selected, c = CurrentContent(i) PROVE l \in S
    <3>1. i \in DOMAIN items /\ c[1] = i /\ c[2] = items[i].contents[Version(i)]
      BY <2>2 DEF CurrentContent, Active
    <3>2. Version(i) \in Nat \ {0}
      BY <3>1, VersionsArePositive
    <3>3. items'[i].contents[Version(i)] = c[2]
      BY <3>1, <3>2 DEF Grown
    <3>4. <<i, Version(i)>> \in records'[Here].used
      BY <1>3 DEF Used
    <3>5. Leads(l, c)'
      <4>1. \E use \in records'[Here].used :
               use[1] = c[1] /\ items'[c[1]].contents[use[2]] = c[2]
        BY <3>1, <3>3, <3>4
      <4> QED
        BY <4>1, <1>6 DEF Leads
    <3> QED
      BY <1>6, <3>5
  <2>3. ASSUME NEW k \in record.dialogue, c \in taint[k] PROVE l \in S
    <3>1. k \in DOMAIN records
      BY DEF Shown, TypeOK
    <3>2. k \in S
      BY <1>4, <2>3, <3>1
    <3>3. records'[Here].dialogue \cap S # {}
      BY <1>3, <3>2
    <3> QED
      BY <1>6, <3>3 DEF Closed
  <2> QED
    BY <1>2, <1>6, <2>1, <2>2, <2>3 DEF Completed
<1> QED
  BY <1>2, <1>5, <1>6 DEF Completed

LEMMA InputKeepsFlow ==
    ASSUME TypeOK, FlowInv, NEW record \in Record, NEW selected \in SUBSET Active,
           NEW contents \in SUBSET Content, NEW questions \in SUBSET LastExchange,
           Here <= MaxLifecycles, items' \in Seq(Item),
           Complete(record, selected, contents, questions), Grown,
           Tied(record, contents, questions), Shown(record)
    PROVE  FlowInv'
<1>1. Completed(record, selected, contents, questions)
  <2>1. record.dialogue \subseteq context
    BY DEF Shown
  <2> QED
    BY <2>1, CompleteShape
<1>2. \A q \in questions : q = Len(records) /\ q \in DOMAIN records
  BY QuestionsAreLast
<1>3. /\ records'[Here].affected = record.affected /\ records'[Here].targets = record.targets
      /\ records'[Here].used = Used(selected) /\ records'[Here].dialogue = record.dialogue
      /\ records'[Here].governed = record.governed
  BY <1>1 DEF Completed, Record
<1>4. \A l \in DOMAIN records : taint[l] \subseteq taint'[l]
  BY <1>1 DEF Completed
<1>5. \A i \in selected : /\ i \in DOMAIN items
                          /\ Version(i) \in Nat \ {0}
                          /\ CurrentContent(i) = <<i, items[i].contents[Version(i)]>>
  BY VersionsArePositive DEF Active, CurrentContent
<1>6. \A i \in DOMAIN items :
         /\ i \in DOMAIN items' /\ Len(items'[i].contents) \in Nat
         /\ Version(i) \in Nat \ {0} /\ Version(i) <= Len(items'[i].contents)
         /\ 1..Version(i) \subseteq 1..Len(items'[i].contents)
  <2> TAKE i \in DOMAIN items
  <2>1. i \in DOMAIN items' /\ Version(i) <= Len(items'[i].contents)
    BY DEF Grown
  <2>0. items'[i] \in Item
    BY <2>1
  <2>2. items'[i].contents \in Seq(Nat)
    BY <2>0 DEF Item
  <2>3. Version(i) \in Nat \ {0}
    BY VersionsArePositive
  <2>4. Len(items'[i].contents) \in Nat
    BY <2>2
  <2> QED
    BY <2>1, <2>3, <2>4
<1>7. ContentsInv'
  <2> SUFFICES ASSUME NEW l \in DOMAIN records', NEW c \in taint'[l]
               PROVE  /\ c[1] \in DOMAIN items'
                      /\ \E v \in 1..Len(items'[c[1]].contents) : items'[c[1]].contents[v] = c[2]
    BY DEF ContentsInv, Version
  <2>1. ASSUME NEW k \in DOMAIN records, c \in taint[k]
        PROVE  /\ c[1] \in DOMAIN items'
               /\ \E v \in 1..Len(items'[c[1]].contents) : items'[c[1]].contents[v] = c[2]
    <3>1. c[1] \in DOMAIN items
      BY <2>1 DEF FlowInv, ContentsInv
    <3>2. PICK v \in 1..Version(c[1]) : items[c[1]].contents[v] = c[2]
      BY <2>1 DEF FlowInv, ContentsInv
    <3>3. items'[c[1]].contents[v] = c[2]
      BY <3>1, <3>2 DEF Grown
    <3> QED
      BY <1>6, <3>1, <3>3
  <2>2. CASE c \in contents
    BY <2>2 DEF Tied
  <2>3. ASSUME NEW i \in selected, c = CurrentContent(i)
        PROVE  /\ c[1] \in DOMAIN items'
               /\ \E v \in 1..Len(items'[c[1]].contents) : items'[c[1]].contents[v] = c[2]
    <3>1. c[1] = i /\ c[2] = items[i].contents[Version(i)] /\ Version(i) \in 1..Version(i)
      BY <1>5, <2>3
    <3>2. items'[i].contents[Version(i)] = c[2]
      BY <1>5, <3>1 DEF Grown
    <3> QED
      BY <1>5, <1>6, <3>1, <3>2
  <2>4. ASSUME NEW k \in record.dialogue, c \in taint[k] PROVE k \in DOMAIN records
    BY DEF Shown, TypeOK
  <2>5. CASE l \in DOMAIN records
    <3>1. c \in taint[l] \/ c \in contents
      BY <1>1, <2>5 DEF Completed
    <3> QED
      BY <2>1, <2>2, <2>5, <3>1
  <2>6. CASE l = Here
    <3>1. \/ c \in contents
          \/ \E i \in selected : c = CurrentContent(i)
          \/ \E k \in record.dialogue : c \in taint[k]
      BY <1>1, <2>6 DEF Completed
    <3> QED
      BY <2>1, <2>2, <2>3, <2>4, <3>1
  <2> QED
    BY <1>1, <2>5, <2>6 DEF Completed
<1>8. TaintInv'
  BY TaintGrows
<1>9. RecordInv'
  <2>1. ASSUME NEW l \in DOMAIN records', NEW d \in records'[l].dialogue
        PROVE  d \in 1..(l - 1) /\ taint'[d] \subseteq taint'[l]
    <3>1. CASE l \in DOMAIN records
      <4>1. d \in 1..(l - 1) /\ taint[d] \subseteq taint[l]
        BY <1>1, <3>1 DEF Completed, FlowInv, RecordInv
      <4>2. d \in DOMAIN records /\ d # Len(records)
        BY <1>1, <3>1, <4>1 DEF Completed
      <4>3. taint'[d] = taint[d]
        BY <1>1, <1>2, <4>2 DEF Completed
      <4> QED
        BY <1>4, <3>1, <4>1, <4>3
    <3>2. CASE l = Here
      <4>1. d \in record.dialogue /\ d \in DOMAIN records
        BY <1>3, <3>2 DEF Shown, TypeOK
      <4>2. d \in 1..(l - 1)
        BY <1>1, <3>2, <4>1 DEF Completed, Here
      <4>3. taint'[d] \subseteq taint[d] \cup contents
        BY <1>1, <4>1 DEF Completed
      <4> QED
        BY <1>1, <3>2, <4>1, <4>2, <4>3 DEF Completed
    <3> QED
      BY <1>1, <3>1, <3>2 DEF Completed
  <2>2. ASSUME NEW l \in DOMAIN records', NEW use \in records'[l].used
        PROVE  /\ use[1] \in DOMAIN items'
               /\ use[2] \in 1..Len(items'[use[1]].contents)
               /\ <<use[1], items'[use[1]].contents[use[2]]>> \in taint'[l]
    <3>1. CASE l \in DOMAIN records
      <4>1. /\ use[1] \in DOMAIN items
            /\ use[2] \in 1..Version(use[1])
            /\ <<use[1], items[use[1]].contents[use[2]]>> \in taint[l]
        BY <1>1, <3>1 DEF Completed, FlowInv, RecordInv
      <4>2. items'[use[1]].contents[use[2]] = items[use[1]].contents[use[2]]
        BY <4>1 DEF Grown
      <4> QED
        BY <1>4, <1>6, <3>1, <4>1, <4>2
    <3>2. CASE l = Here
      <4>1. PICK i \in selected : use = <<i, Version(i)>>
        BY <1>3, <3>2 DEF Used
      <4>2. Version(i) \in 1..Version(i) /\ i \in DOMAIN items
        BY <1>5
      <4>3. items'[i].contents[Version(i)] = items[i].contents[Version(i)]
        BY <4>2 DEF Grown
      <4>4. CurrentContent(i) \in taint'[Here]
        BY <1>1 DEF Completed
      <4> QED
        BY <1>5, <1>6, <3>2, <4>1, <4>2, <4>3, <4>4
    <3> QED
      BY <1>1, <3>1, <3>2 DEF Completed
  <2>3. ASSUME NEW l \in DOMAIN records',
               NEW i \in records'[l].affected \cup records'[l].targets
        PROVE  /\ records'[l].governed
               /\ i \in DOMAIN items'
               /\ items'[i].deleted \/ \E c \in taint'[l] : c[1] = i
    <3>1. CASE l \in DOMAIN records
      <4>1. /\ records[l].governed
            /\ i \in DOMAIN items
            /\ items[i].deleted \/ \E c \in taint[l] : c[1] = i
        BY <1>1, <3>1 DEF Completed, FlowInv, RecordInv, Says
      <4> QED
        BY <1>1, <1>4, <3>1, <4>1 DEF Completed, Grown
    <3>2. CASE l = Here
      BY <1>1, <1>3, <3>2 DEF Completed, Tied
    <3> QED
      BY <1>1, <3>1, <3>2 DEF Completed
  <2> QED
    BY <2>1, <2>2, <2>3 DEF RecordInv, Version, Says
<1>10. ItemInv'
  <2>1. ASSUME NEW i \in DOMAIN items', NEW l \in items'[i].sources
        PROVE  l \in DOMAIN records' /\ \E c \in taint'[l] : c[1] = i
    <3>1. CASE i \in DOMAIN items /\ l \in items[i].sources
      <4>1. l \in DOMAIN records /\ \E c \in taint[l] : c[1] = i
        BY <3>1 DEF FlowInv, ItemInv, Says
      <4> QED
        BY <1>1, <1>4, <4>1 DEF Completed
    <3>2. CASE l \in questions \cup {Here} /\ \E c \in contents : c[1] = i
      <4>1. contents \subseteq taint'[l] /\ l \in DOMAIN records'
        BY <1>1, <1>2, <3>2 DEF Completed
      <4> QED
        BY <3>2, <4>1
    <3> QED
      BY <3>1, <3>2 DEF Tied
  <2>2. \A i \in DOMAIN items' : items'[i].active => ~items'[i].deleted
    BY DEF Tied
  <2> QED
    BY <2>1, <2>2 DEF ItemInv, Says
<1>11. ContextInv'
  <2>1. Len(records') \in context'
    BY <1>1 DEF Completed
  <2> QED
    BY <2>1 DEF ContextInv
<1> QED
  BY <1>7, <1>8, <1>9, <1>10, <1>11 DEF FlowInv

-----------------------------------------------------------------------------
(* Deletions *)

\* An exchange that a deletion of the targets leaves holds nothing of them.
LEMMA LeftHoldsNoTarget ==
    ASSUME TypeOK, FlowInv, NEW targets \in SUBSET DOMAIN items,
           NEW l \in DOMAIN records, l \notin DeletionLifecycles(targets),
           NEW c \in taint[l]
    PROVE  c[1] \notin targets
<1> SUFFICES ASSUME c[1] \in targets PROVE FALSE
  OBVIOUS
<1> DEFINE seeds == {k \in DOMAIN records : \E i \in targets :
                        \/ k \in items[i].sources
                        \/ \E use \in records[k].used : use[1] = i
                        \/ i \in records[k].affected \cup records[k].targets}
<1>1. l \notin Dependent(seeds)
  BY DEF DeletionLifecycles
<1>2. PICK S \in SUBSET DOMAIN records : /\ seeds \cup Legacy \subseteq S
                                         /\ Closed(S)
                                         /\ l \notin S
  <2> HIDE DEF seeds
  <2> QED
    BY <1>1 DEF Dependent
<1>3. ASSUME NEW k \in DOMAIN records, Leads(k, c) PROVE k \in S
  <2>1. k \in seeds
    BY <1>3 DEF Leads
  <2> QED
    BY <1>2, <2>1
<1>4. c \in Content
  BY DEF TypeOK
<1> HIDE DEF seeds
<1> QED
  BY <1>2, <1>3, <1>4 DEF FlowInv, TaintInv

\* An exchange that it takes holds something of a target, or rests on one that
\* was recorded without materials.
LEMMA TakenHoldsTarget ==
    ASSUME TypeOK, FlowInv, NEW targets \in SUBSET Live,
           NEW l \in DeletionLifecycles(targets), l \notin Dependent({})
    PROVE  \E c \in taint[l] : c[1] \in targets
<1> DEFINE seeds == {k \in DOMAIN records : \E i \in targets :
                        \/ k \in items[i].sources
                        \/ \E use \in records[k].used : use[1] = i
                        \/ i \in records[k].affected \cup records[k].targets}
           telling == {k \in DOMAIN records : \E c \in taint[k] : c[1] \in targets}
<1>1. l \in DOMAIN records /\ l \in Dependent(seeds)
  BY DEF DeletionLifecycles, Dependent
<1>2. PICK S \in SUBSET DOMAIN records : Legacy \subseteq S /\ Closed(S) /\ l \notin S
  BY <1>1 DEF Dependent
<1>3. seeds \subseteq telling
  <2> SUFFICES ASSUME NEW k \in DOMAIN records, NEW i \in targets,
                      \/ k \in items[i].sources
                      \/ \E use \in records[k].used : use[1] = i
                      \/ i \in records[k].affected \cup records[k].targets
               PROVE  \E c \in taint[k] : c[1] = i
    OBVIOUS
  <2>1. i \in DOMAIN items /\ ~items[i].deleted
    BY DEF Live
  <2>2. CASE k \in items[i].sources
    BY <2>1, <2>2 DEF FlowInv, ItemInv, Says
  <2>3. ASSUME NEW use \in records[k].used, use[1] = i
        PROVE  \E c \in taint[k] : c[1] = i
    <3>1. <<use[1], items[use[1]].contents[use[2]]>> \in taint[k]
      BY DEF FlowInv, RecordInv
    <3> QED
      BY <2>3, <3>1
  <2>4. CASE i \in records[k].affected \cup records[k].targets
    BY <2>1, <2>4 DEF FlowInv, RecordInv, Says
  <2> QED
    BY <2>2, <2>3, <2>4
<1>4. Closed(S \cup telling)
  <2> SUFFICES ASSUME NEW m \in DOMAIN records,
                      NEW d \in records[m].dialogue, d \in S \cup telling
               PROVE  m \in S \cup telling
    BY DEF Closed
  <2>1. CASE d \in S
    BY <1>2, <2>1 DEF Closed
  <2>2. CASE d \in telling
    <3>1. taint[d] \subseteq taint[m]
      BY DEF FlowInv, RecordInv
    <3> QED
      BY <2>2, <3>1
  <2> QED
    BY <2>1, <2>2
<1>5. l \in S \cup telling
  <2>1. S \cup telling \in SUBSET DOMAIN records
    OBVIOUS
  <2> HIDE DEF seeds, telling
  <2>2. seeds \cup Legacy \subseteq S \cup telling
    BY <1>2, <1>3
  <2> QED
    BY <1>1, <1>4, <2>1, <2>2 DEF Dependent
<1> QED
  BY <1>2, <1>5

\* Without a deletion, what is new holds nothing of a deleted memory.
LEMMA InputKeepsClean ==
    ASSUME TypeOK, FlowInv, DeletedMeansRedacted,
           NEW record \in Record, NEW selected \in SUBSET Active,
           NEW contents \in SUBSET Content, NEW questions \in SUBSET LastExchange,
           Completed(record, selected, contents, questions), Shown(record),
           redacted' = redacted,
           \A i \in DOMAIN items' : items'[i].deleted => i \in DOMAIN items /\ items[i].deleted,
           \A c \in contents : c[1] \in DOMAIN items' /\ ~items'[c[1]].deleted,
           DOMAIN items \subseteq DOMAIN items'
    PROVE  DeletedMeansRedacted'
<1> SUFFICES ASSUME NEW l \in context' \ redacted, NEW c \in taint'[l]
             PROVE  ~items'[c[1]].deleted
  BY DEF DeletedMeansRedacted
<1>1. \A i \in Active : i \in DOMAIN items' /\ ~items[i].deleted
  BY DEF FlowInv, ItemInv, Active
<1>2. \A i \in Active : CurrentContent(i)[1] = i
  BY DEF CurrentContent
<1>3. CASE l \in context
  <2>1. l \in DOMAIN records
    BY <1>3 DEF TypeOK
  <2>2. CASE c \in taint[l]
    <3>1. c[1] \in DOMAIN items /\ ~items[c[1]].deleted
      BY <1>3, <2>1, <2>2 DEF FlowInv, ContentsInv, DeletedMeansRedacted
    <3> QED
      BY <3>1
  <2> QED
    BY <2>1, <2>2 DEF Completed
<1>4. CASE l = Here
  <2>1. CASE c \in contents
    BY <2>1
  <2>2. ASSUME NEW i \in Active, c = CurrentContent(i)
        PROVE  ~items'[c[1]].deleted
    BY <1>1, <1>2, <2>2
  <2>3. ASSUME NEW k \in record.dialogue, c \in taint[k]
        PROVE  \E i \in Active : c = CurrentContent(i)
    BY <2>3 DEF Shown
  <2> QED
    BY <1>4, <2>1, <2>2, <2>3 DEF Completed
<1> QED
  BY <1>3, <1>4 DEF Completed

-----------------------------------------------------------------------------
(* The items after a step *)

Extends(item, next) ==
    /\ next \in Item
    /\ Len(item.contents) <= Len(next.contents)
    /\ \A v \in 1..Len(item.contents) : next.contents[v] = item.contents[v]
    /\ item.sources \subseteq next.sources
    /\ item.deleted => next.deleted
    /\ next.active => item.active /\ ~next.deleted

\* The same items, each the same or a later version.
Later ==
    /\ items' \in Seq(Item)
    /\ Len(items') = Len(items) /\ DOMAIN items' = DOMAIN items
    /\ \A i \in DOMAIN items : Extends(items[i], items'[i])

LEMMA NextVersionExtends ==
    ASSUME NEW item \in Item, NEW next \in Item, NEW n \in Nat,
           next.contents = Append(item.contents, n),
           item.sources \subseteq next.sources,
           item.deleted => next.deleted,
           next.active => item.active /\ ~next.deleted
    PROVE  /\ Extends(item, next)
           /\ Len(next.contents) = Len(item.contents) + 1
           /\ next.contents[Len(next.contents)] = n
<1>1. item.contents \in Seq(Nat)
  BY DEF Item
<1> QED
  BY <1>1 DEF Extends

LEMMA SameExtends ==
    ASSUME NEW item \in Item, item.active => ~item.deleted
    PROVE  Extends(item, item)
<1>1. item.contents \in Seq(Nat)
  BY DEF Item
<1> QED
  BY <1>1 DEF Extends

\* A next version that says n, whether the item stays active or is deleted.
LEMMA NextVersionOf ==
    ASSUME NEW item \in Item, item.active => ~item.deleted, NEW n \in Nat
    PROVE  /\ Extends(item, [item EXCEPT !.contents = Append(@, n)])
           /\ Extends(item, [item EXCEPT !.contents = Append(@, n), !.active = FALSE])
           /\ Extends(item, Tombstone(item))
<1>1. item.contents \in Seq(Nat)
  BY DEF Item
<1>2. \A k \in Nat : Append(item.contents, k) \in Seq(Nat) \ {<<>>}
  <2> TAKE k \in Nat
  <2>1. Append(item.contents, k) \in Seq(Nat) /\ Len(Append(item.contents, k)) = Len(item.contents) + 1
    BY <1>1
  <2>2. Len(item.contents) \in Nat
    BY <1>1
  <2>3. Append(item.contents, k) # <<>>
    <3>1. Len(<<>>) = 0
      OBVIOUS
    <3>2. Len(Append(item.contents, k)) # 0
      BY <2>1, <2>2
    <3> QED
      BY <3>1, <3>2, Zenon
  <2> QED
    BY <2>1, <2>3, Zenon
<1>3. [item EXCEPT !.contents = Append(@, n)] \in Item
  BY <1>2 DEF Item
<1>4. [item EXCEPT !.contents = Append(@, n), !.active = FALSE] \in Item
  BY <1>2 DEF Item
<1>5. Tombstone(item) \in Item
  BY <1>2 DEF Item, Tombstone
<1>6. Extends(item, [item EXCEPT !.contents = Append(@, n)])
  BY <1>3, NextVersionExtends DEF Item
<1>7. Extends(item, [item EXCEPT !.contents = Append(@, n), !.active = FALSE])
  BY <1>4, NextVersionExtends DEF Item
<1>8. Extends(item, Tombstone(item))
  BY <1>5, NextVersionExtends DEF Item, Tombstone
<1> QED
  BY <1>6, <1>7, <1>8

LEMMA RenewedExtends ==
    ASSUME NEW item \in Item, item.active => ~item.deleted
    PROVE  /\ Extends(item, Renewed(item))
           /\ Extends(item, [Renewed(item) EXCEPT !.active = FALSE])
           /\ Renewed(item).deleted = item.deleted
           /\ [Renewed(item) EXCEPT !.active = FALSE].deleted = item.deleted
           /\ Renewed(item).sources = item.sources
           /\ [Renewed(item) EXCEPT !.active = FALSE].sources = item.sources
<1> DEFINE n == item.contents[Len(item.contents)]
<1>1. n \in Nat
  <2>1. item.contents \in Seq(Nat) /\ item.contents # <<>>
    BY DEF Item
  <2> QED
    BY <2>1
<1>2. Renewed(item) = [item EXCEPT !.contents = Append(@, n)]
  BY DEF Renewed
<1>3. [Renewed(item) EXCEPT !.active = FALSE]
         = [item EXCEPT !.contents = Append(@, n), !.active = FALSE]
  BY DEF Renewed, Item
<1> HIDE DEF n
<1>4. Extends(item, Renewed(item)) /\ Extends(item, [Renewed(item) EXCEPT !.active = FALSE])
  BY <1>1, <1>2, <1>3, NextVersionOf
<1> QED
  BY <1>2, <1>3, <1>4 DEF Item

LEMMA LaterGrows ==
    ASSUME TypeOK, Later
    PROVE  Grown
BY DEF Later, Grown, Extends, Version

LEMMA ExtendedAreLater ==
    ASSUME TypeOK, items' = [i \in DOMAIN items |-> items'[i]],
           \A i \in DOMAIN items : Extends(items[i], items'[i])
    PROVE  Later
<1>1. DOMAIN items = 1..Len(items) /\ Len(items) \in Nat
  BY DEF TypeOK
<1>2. \A i \in DOMAIN items : items'[i] \in Item
  BY DEF Extends
<1>3. items' \in [1..Len(items) -> Item]
  BY <1>1, <1>2, Zenon
<1>4. items' \in Seq(Item) /\ Len(items') = Len(items)
  BY <1>1, <1>3
<1> QED
  BY <1>1, <1>4 DEF Later

-----------------------------------------------------------------------------
(* The steps *)

\* What a window may be.
ShowsWindow(record, selected) ==
    \/ record.dialogue = {}
    \/ \E first \in context \cup {Here}, again \in BOOLEAN :
          record.dialogue = Window(selected, first, again)

\* The input that a step takes, as the lemmas above need it.
Takes(record, selected, contents, questions) ==
    /\ record \in Record
    /\ contents \subseteq Content
    /\ questions \subseteq LastExchange
    /\ Complete(record, selected, contents, questions)
    /\ items' \in Seq(Item) /\ Len(items') <= MaxItems
    /\ Grown
    /\ Tied(record, contents, questions)
    /\ Shown(record)
    /\ ShowsWindow(record, selected)

LEMMA WindowIsShown ==
    ASSUME TypeOK, FlowInv, NEW selected \in SUBSET Active, NEW record,
           ShowsWindow(record, selected)
    PROVE  Shown(record) /\ record.dialogue \subseteq DOMAIN records
<1>1. CASE record.dialogue = {}
  BY <1>1 DEF Shown
<1>2. ASSUME NEW first, NEW again, record.dialogue = Window(selected, first, again)
      PROVE  Shown(record) /\ record.dialogue \subseteq DOMAIN records
  <2>1. ASSUME NEW l \in record.dialogue
        PROVE  l \in context /\ \A c \in taint[l] : \E i \in Active : c = CurrentContent(i)
    BY <1>2, <2>1, ShownIsCurrent
  <2> QED
    BY <2>1 DEF Shown, TypeOK
<1> QED
  BY <1>1, <1>2 DEF ShowsWindow

LEMMA RepliesShow ==
    ASSUME TypeOK, FlowInv, NEW selected \in SUBSET Active, Here <= MaxLifecycles,
           NEW reply \in Replies(selected)
    PROVE  /\ reply \in Record
           /\ reply.affected = {} /\ reply.targets = {}
           /\ ShowsWindow(reply, selected)
<1>1. Nothing \in Record
  BY DEF Nothing, Record
<1>2. CASE reply \in Assisted(selected)
  <2>1. PICK first \in context \cup {Here}, again \in BOOLEAN :
               reply = [Nothing EXCEPT !.dialogue = Window(selected, first, again)]
    BY <1>2 DEF Assisted
  <2>2. reply.dialogue = Window(selected, first, again)
    BY <2>1 DEF Nothing
  <2>3. ShowsWindow(reply, selected)
    BY <2>2 DEF ShowsWindow
  <2>4. reply.dialogue \subseteq Lifecycles
    <3>1. reply.dialogue \subseteq DOMAIN records
      BY <2>3, WindowIsShown
    <3> QED
      BY <3>1, TaintBounds DEF TypeOK, Lifecycles
  <2> QED
    BY <1>1, <2>1, <2>2, <2>3, <2>4 DEF Nothing, Record
<1>3. CASE reply = Clarification
  BY <1>1, <1>3 DEF Clarification, Nothing, Record, ShowsWindow
<1>4. CASE reply = Command
  BY <1>1, <1>4 DEF Command, Nothing, Record, ShowsWindow
<1> QED
  BY <1>2, <1>3, <1>4 DEF Replies

\* A governed input and what it speaks of.
LEMMA GovernTakes ==
    ASSUME TypeOK, FlowInv, NEW selected \in SUBSET Active, Here <= MaxLifecycles,
           NEW reply \in Replies(selected),
           NEW targets \in SUBSET DOMAIN items, NEW affected \in SUBSET DOMAIN items,
           NEW contents \in SUBSET Content,
           Govern(reply, selected, targets, affected, contents),
           Later, \A i \in DOMAIN items : items'[i].sources = items[i].sources,
           \A c \in contents : /\ c[1] \in affected \cup targets
                               /\ \E v \in 1..Len(items'[c[1]].contents) :
                                     items'[c[1]].contents[v] = c[2],
           \A i \in affected \cup targets : \E c \in contents : c[1] = i
    PROVE  Takes([reply EXCEPT !.governed = TRUE, !.targets = targets, !.affected = affected],
                 selected, contents, {})
<1> DEFINE record == [reply EXCEPT !.governed = TRUE, !.targets = targets, !.affected = affected]
<1>1. /\ reply \in Record
      /\ ShowsWindow(reply, selected)
  BY RepliesShow
<1>2. targets \subseteq ItemIds /\ affected \subseteq ItemIds
  BY VersionsArePositive
<1>3. /\ record \in Record
      /\ record.governed = TRUE /\ record.targets = targets /\ record.affected = affected
      /\ record.dialogue = reply.dialogue
  BY <1>1, <1>2 DEF Record
<1> HIDE DEF record
<1>4. Shown(record) /\ ShowsWindow(record, selected)
  <2>1. ShowsWindow(record, selected)
    BY <1>1, <1>3 DEF ShowsWindow
  <2> QED
    BY <2>1, WindowIsShown
<1>5. Grown
  BY LaterGrows
<1>6. Tied(record, contents, {})
  <2>1. \A i \in DOMAIN items' : items'[i].active => ~items'[i].deleted
    BY DEF Later, Extends
  <2> QED
    BY <1>3, <2>1 DEF Tied, Later
<1>7. Complete(record, selected, contents, {})
  BY DEF Govern, record
<1>8. items' \in Seq(Item) /\ Len(items') <= MaxItems
  BY DEF Later, TypeOK
<1>9. Takes(record, selected, contents, {})
  BY <1>3, <1>4, <1>5, <1>6, <1>7, <1>8 DEF Takes
<1> QED
  BY <1>9 DEF record

\* What is spoken of stays among the versions.
LEMMA SpokenIsTied ==
    ASSUME TypeOK, NEW targets \in SUBSET DOMAIN items, Later
    PROVE  /\ Spoken(targets) \subseteq Content
           /\ \A c \in Spoken(targets) :
                 /\ c[1] \in targets
                 /\ \E v \in 1..Len(items'[c[1]].contents) : items'[c[1]].contents[v] = c[2]
           /\ \A i \in targets : \E c \in Spoken(targets) : c[1] = i
<1>1. ASSUME NEW i \in targets
      PROVE  /\ CurrentContent(i) \in Content
             /\ CurrentContent(i)[1] = i
             /\ \E v \in 1..Len(items'[i].contents) :
                   items'[i].contents[v] = CurrentContent(i)[2]
  <2>1. /\ Version(i) \in Nat \ {0} /\ CurrentContent(i) \in Content
        /\ CurrentContent(i) = <<i, items[i].contents[Version(i)]>>
    BY VersionsArePositive DEF CurrentContent
  <2>2. /\ items'[i] \in Item /\ Version(i) <= Len(items'[i].contents)
        /\ items'[i].contents[Version(i)] = items[i].contents[Version(i)]
    <3>1. Version(i) \in 1..Version(i)
      BY <2>1
    <3>2. Grown
      BY LaterGrows
    <3> QED
      BY <3>1, <3>2 DEF Grown, Later
  <2>3. Len(items'[i].contents) \in Nat
    <3>1. items'[i].contents \in Seq(Nat)
      BY <2>2 DEF Item
    <3> QED
      BY <3>1
  <2> QED
    BY <2>1, <2>2, <2>3
<1> QED
  BY <1>1 DEF Spoken

\* An input that leaves the items alone and speaks of none.
LEMMA NothingSpokenTakes ==
    ASSUME TypeOK, FlowInv, NEW selected \in SUBSET Active, NEW record \in Record,
           ShowsWindow(record, selected), record.affected = {}, record.targets = {},
           items' = items, Complete(record, selected, {}, {})
    PROVE  Takes(record, selected, {}, {})
<1>1. Shown(record)
  BY WindowIsShown
<1>2. items' \in Seq(Item) /\ Len(items') <= MaxItems
  BY DEF TypeOK
<1>3. Grown
  <2>1. \A i \in DOMAIN items : Version(i) \in Nat
    BY VersionsArePositive
  <2> QED
    BY <2>1 DEF Grown, Version
<1>4. Tied(record, {}, {})
  BY DEF Tied, FlowInv, ItemInv
<1> QED
  BY <1>1, <1>2, <1>3, <1>4 DEF Takes

\* What is retained comes from this input and, when it answers a question, from
\* the exchange that asked it.
LEMMA SourcesAreLifecycles ==
    ASSUME TypeOK, FlowInv, Here <= MaxLifecycles, NEW questions \in SUBSET LastExchange
    PROVE  questions \cup {Here} \subseteq Lifecycles
<1>1. DOMAIN records = 1..Len(records) /\ Len(records) \in Nat /\ Len(records) <= MaxLifecycles
  BY DEF TypeOK
<1>2. Here \in Lifecycles
  BY <1>1, TaintBounds DEF Here, Lifecycles
<1>3. questions \subseteq Lifecycles
  BY <1>1, TaintBounds, QuestionsAreLast DEF Lifecycles
<1> QED
  BY <1>2, <1>3

LEMMA IntegratedTakes ==
    ASSUME TypeOK, FlowInv, NEW selected \in SUBSET Active, Here <= MaxLifecycles,
           NEW i \in Active, NEW questions \in SUBSET LastExchange,
           NEW reply \in Replies(selected),
           items' = Integrated(i, questions \cup {Here}),
           Complete(reply, selected, {CurrentContent(i)}, questions)
    PROVE  /\ Takes(reply, selected, {CurrentContent(i)}, questions)
           /\ Later /\ \A j \in DOMAIN items : items'[j].deleted = items[j].deleted
<1> DEFINE sources == questions \cup {Here}
           n == items[i].contents[Len(items[i].contents)]
           next == [items[i] EXCEPT !.contents = Append(@, n), !.sources = @ \cup sources]
<1>1. /\ reply \in Record /\ reply.affected = {} /\ reply.targets = {}
      /\ ShowsWindow(reply, selected) /\ Shown(reply)
  BY RepliesShow, WindowIsShown
<1>2. \A j \in DOMAIN items : items[j] \in Item /\ (items[j].active => ~items[j].deleted)
  BY DEF TypeOK, FlowInv, ItemInv
<1>3. sources \subseteq Lifecycles
  BY SourcesAreLifecycles
<1>4. /\ i \in DOMAIN items /\ n \in Nat /\ items[i].active
      /\ Version(i) \in Nat \ {0} /\ CurrentContent(i) = <<i, n>> /\ CurrentContent(i) \in Content
  BY VersionsArePositive DEF Active, CurrentContent, Version
<1>5. items' = [items EXCEPT ![i] = next]
  BY DEF Integrated
<1>6. next \in Item /\ Extends(items[i], next)
      /\ next.sources = items[i].sources \cup sources /\ next.deleted = items[i].deleted
  <2> HIDE DEF sources, n
  <2>1. Append(items[i].contents, n) \in Seq(Nat) \ {<<>>}
    <3>1. items[i].contents \in Seq(Nat)
      BY <1>2, <1>4 DEF Item
    <3>2. [items[i] EXCEPT !.contents = Append(@, n)] \in Item
      BY <1>2, <1>4, NextVersionOf DEF Extends
    <3>3. [items[i] EXCEPT !.contents = Append(@, n)].contents = Append(items[i].contents, n)
      BY <1>2, <1>4 DEF Item
    <3> QED
      BY <3>2, <3>3 DEF Item
  <2>2. next \in Item
    BY <1>2, <1>3, <1>4, <2>1 DEF Item
  <2>3. /\ next.sources = items[i].sources \cup sources /\ next.deleted = items[i].deleted
        /\ next.contents = Append(items[i].contents, n) /\ next.active = items[i].active
    BY <1>2, <1>4 DEF Item
  <2> HIDE DEF next
  <2> QED
    BY <1>2, <1>4, <2>2, <2>3, NextVersionExtends
<1> HIDE DEF sources, n, next
<1>7. /\ items' = [j \in DOMAIN items |-> items'[j]]
      /\ items'[i] = next /\ \A j \in DOMAIN items : j # i => items'[j] = items[j]
  BY <1>4, <1>5
<1>8. Later
  <2>1. \A j \in DOMAIN items : Extends(items[j], items'[j])
    BY <1>2, <1>6, <1>7, SameExtends
  <2> QED
    BY <1>7, <2>1, ExtendedAreLater
<1>9. Grown
  BY <1>8, LaterGrows
<1>10. Tied(reply, {CurrentContent(i)}, questions)
  <2>1. CurrentContent(i)[1] = i /\ CurrentContent(i)[2] = n
    BY <1>4
  <2>2. \E v \in 1..Len(items'[i].contents) : items'[i].contents[v] = n
    <3>1. i \in {i} /\ {i} \in SUBSET DOMAIN items
      BY <1>4
    <3>2. CurrentContent(i) \in Spoken({i})
      BY DEF Spoken
    <3> QED
      BY <1>8, <2>1, <3>1, <3>2, SpokenIsTied
  <2>3. \A j \in DOMAIN items' : items'[j].active => ~items'[j].deleted
    BY <1>8 DEF Later, Extends
  <2>4. \A j \in DOMAIN items' : \A k \in items'[j].sources :
           k \in items[j].sources \/ (j = i /\ k \in questions \cup {Here})
    BY <1>6, <1>7, <1>8 DEF Later, sources
  <2>5. i \in DOMAIN items' /\ questions \cup {Here} \subseteq items'[i].sources
    BY <1>4, <1>6, <1>7, <1>8 DEF Later, sources
  <2> QED
    BY <1>1, <1>8, <2>1, <2>2, <2>3, <2>4, <2>5 DEF Tied, Later
<1>11. \A j \in DOMAIN items : items'[j].deleted = items[j].deleted
  BY <1>6, <1>7
<1>12. items' \in Seq(Item) /\ Len(items') <= MaxItems
  BY <1>8 DEF Later, TypeOK
<1> QED
  BY <1>1, <1>4, <1>8, <1>9, <1>10, <1>11, <1>12 DEF Takes

LEMMA AppendShape ==
    ASSUME NEW S, NEW s \in Seq(S), NEW x \in S
    PROVE  /\ Append(s, x) \in Seq(S)
           /\ Len(Append(s, x)) = Len(s) + 1
           /\ DOMAIN Append(s, x) = DOMAIN s \cup {Len(s) + 1}
           /\ Append(s, x)[Len(s) + 1] = x
           /\ \A j \in DOMAIN s : j # Len(s) + 1 /\ Append(s, x)[j] = s[j]
OBVIOUS

LEMMA AdoptedItems ==
    ASSUME TypeOK, NEW new \in Item, items' = Append(items, new)
    PROVE  /\ items' \in Seq(Item) /\ Len(items') = Len(items) + 1
           /\ DOMAIN items' = DOMAIN items \cup {Len(items) + 1}
           /\ items'[Len(items) + 1] = new
           /\ \A j \in DOMAIN items : j # Len(items) + 1 /\ items'[j] = items[j]
           /\ Grown
<1>1. items \in Seq(Item)
  BY DEF TypeOK
<1>2. /\ items' \in Seq(Item) /\ Len(items') = Len(items) + 1
      /\ DOMAIN items' = DOMAIN items \cup {Len(items) + 1}
      /\ items'[Len(items) + 1] = new
      /\ \A j \in DOMAIN items : j # Len(items) + 1 /\ items'[j] = items[j]
  BY <1>1, AppendShape
<1>3. \A j \in DOMAIN items : Version(j) \in Nat
  BY VersionsArePositive
<1>4. Grown
  BY <1>2, <1>3 DEF Grown, Version
<1> QED
  BY <1>2, <1>4

LEMMA AdoptedTakes ==
    ASSUME TypeOK, FlowInv, NEW selected \in SUBSET Active, Here <= MaxLifecycles,
           NEW i \in Nat, i = Len(items) + 1, i <= MaxItems, NEW questions \in SUBSET LastExchange,
           NEW reply \in Replies(selected),
           items' = Adopted(questions \cup {Here}),
           Complete(reply, selected, {<<i, 1>>}, questions)
    PROVE  /\ Takes(reply, selected, {<<i, 1>>}, questions)
           /\ DOMAIN items' = DOMAIN items \cup {i} /\ ~items'[i].deleted
           /\ \A j \in DOMAIN items : j # i /\ items'[j] = items[j]
<1> DEFINE sources == questions \cup {Here}
           new == [contents |-> <<1>>, active |-> TRUE, deleted |-> FALSE, sources |-> sources]
<1>1. /\ reply \in Record /\ reply.affected = {} /\ reply.targets = {}
      /\ ShowsWindow(reply, selected) /\ Shown(reply)
  BY RepliesShow, WindowIsShown
<1>2. /\ items \in Seq(Item) /\ Len(items) \in Nat /\ DOMAIN items = 1..Len(items)
      /\ \A j \in DOMAIN items : items[j].active => ~items[j].deleted
  BY DEF TypeOK, FlowInv, ItemInv
<1>3. sources \subseteq Lifecycles
  BY SourcesAreLifecycles
<1>4. new \in Item
  <2>1. <<1>> \in Seq(Nat) \ {<<>>}
    <3>1. Len(<<1>>) = 1 /\ Len(<<>>) = 0 /\ <<1>> \in Seq(Nat)
      OBVIOUS
    <3> QED
      BY <3>1
  <2> QED
    BY <1>3, <2>1 DEF Item
<1>5. /\ new.active = TRUE /\ new.deleted = FALSE /\ new.sources = sources
      /\ 1 \in 1..Len(new.contents) /\ new.contents[1] = 1
  OBVIOUS
<1> HIDE DEF new
<1>6. items' = Append(items, new)
  BY DEF Adopted, new
<1>7. /\ items' \in Seq(Item) /\ Len(items') = i /\ DOMAIN items' = DOMAIN items \cup {i}
      /\ items'[i] = new
      /\ \A j \in DOMAIN items : j # i /\ items'[j] = items[j]
  BY <1>4, <1>6, AdoptedItems
<1>8. Grown
  BY <1>4, <1>6, AdoptedItems
<1>9. Tied(reply, {<<i, 1>>}, questions)
  <2>1. i \in DOMAIN items' /\ \E v \in 1..Len(items'[i].contents) : items'[i].contents[v] = 1
    BY <1>5, <1>7
  <2>2. \A j \in DOMAIN items' : items'[j].active => ~items'[j].deleted
    BY <1>2, <1>5, <1>7
  <2>3. <<i, 1>>[1] = i /\ <<i, 1>>[2] = 1
    OBVIOUS
  <2>4. \A j \in DOMAIN items' : \A k \in items'[j].sources :
           \/ (j \in DOMAIN items /\ k \in items[j].sources)
           \/ (j = i /\ k \in questions \cup {Here})
    BY <1>5, <1>7
  <2>5. questions \cup {Here} \subseteq items'[i].sources
    BY <1>5, <1>7
  <2> QED
    BY <1>1, <2>1, <2>2, <2>3, <2>4, <2>5 DEF Tied
<1>10. {<<i, 1>>} \subseteq Content
  BY <1>2, TaintBounds DEF Content, ItemIds
<1> QED
  BY <1>1, <1>5, <1>7, <1>8, <1>9, <1>10 DEF Takes

\* A governed input that keeps every item or gives it a next version.
LEMMA RenewedAreLater ==
    ASSUME TypeOK, FlowInv, NEW targets \in SUBSET DOMAIN items,
           \/ items' = items
           \/ items' = [i \in DOMAIN items |->
                           IF i \in targets THEN Renewed(items[i]) ELSE items[i]]
           \/ items' = Inactive(targets)
    PROVE  /\ Later
           /\ \A i \in DOMAIN items : /\ items'[i].sources = items[i].sources
                                      /\ items'[i].deleted = items[i].deleted
<1>1. items \in Seq(Item) /\ \A i \in DOMAIN items : items[i].active => ~items[i].deleted
  BY DEF TypeOK, FlowInv, ItemInv
<1>2. \A i \in DOMAIN items : items[i] \in Item
  BY <1>1
<1>3. ASSUME NEW i \in DOMAIN items
      PROVE  /\ Extends(items[i], items'[i])
             /\ items'[i].sources = items[i].sources /\ items'[i].deleted = items[i].deleted
  <2>1. \/ items'[i] = items[i]
        \/ items'[i] = Renewed(items[i])
        \/ items'[i] = [Renewed(items[i]) EXCEPT !.active = FALSE]
    BY DEF Inactive
  <2>2. CASE items'[i] = items[i]
    BY <1>1, <1>2, <2>2, SameExtends
  <2>3. CASE items'[i] = Renewed(items[i])
    BY <1>1, <1>2, <2>3, RenewedExtends
  <2>4. CASE items'[i] = [Renewed(items[i]) EXCEPT !.active = FALSE]
    BY <1>1, <1>2, <2>4, RenewedExtends
  <2> QED
    BY <2>1, <2>2, <2>3, <2>4
<1>4. items' = [i \in DOMAIN items |-> items'[i]]
  <2>1. CASE items' = items
    BY <1>1, <2>1
  <2>2. CASE items' = [i \in DOMAIN items |->
                          IF i \in targets THEN Renewed(items[i]) ELSE items[i]]
    BY <2>2, Zenon
  <2>3. CASE items' = Inactive(targets)
    BY <2>3, Zenon DEF Inactive
  <2> QED
    BY <2>1, <2>2, <2>3
<1> QED
  BY <1>3, <1>4, ExtendedAreLater

\* The governed inputs that speak of their targets and give them next versions.
LEMMA GovernedTakes ==
    ASSUME TypeOK, FlowInv, NEW selected \in SUBSET Active, Here <= MaxLifecycles,
           NEW reply \in Replies(selected),
           NEW spoken \in SUBSET Live,
           NEW targets \in SUBSET spoken, NEW affected \in SUBSET spoken,
           spoken = targets \cup affected,
           Govern(reply, selected, targets, affected, Spoken(spoken)),
           \/ items' = items
           \/ items' = [i \in DOMAIN items |->
                           IF i \in spoken THEN Renewed(items[i]) ELSE items[i]]
           \/ items' = Inactive(spoken)
    PROVE  \E record \in Record :
              /\ Takes(record, selected, Spoken(spoken), {})
              /\ Later
              /\ \A i \in DOMAIN items : items'[i].deleted = items[i].deleted
              /\ \A c \in Spoken(spoken) : c[1] \in DOMAIN items' /\ ~items'[c[1]].deleted
<1> DEFINE record == [reply EXCEPT !.governed = TRUE, !.targets = targets, !.affected = affected]
<1>1. spoken \in SUBSET DOMAIN items
  BY DEF Live
<1>2. /\ Later
      /\ \A i \in DOMAIN items : items'[i].sources = items[i].sources
      /\ \A i \in DOMAIN items : items'[i].deleted = items[i].deleted
  BY <1>1, RenewedAreLater
<1>3. /\ Spoken(spoken) \subseteq Content
      /\ \A c \in Spoken(spoken) :
            /\ c[1] \in spoken
            /\ \E v \in 1..Len(items'[c[1]].contents) : items'[c[1]].contents[v] = c[2]
      /\ \A i \in spoken : \E c \in Spoken(spoken) : c[1] = i
  BY <1>1, <1>2, SpokenIsTied
<1>4. targets \in SUBSET DOMAIN items /\ affected \in SUBSET DOMAIN items
  BY <1>1
<1>5. Takes(record, selected, Spoken(spoken), {})
  BY <1>2, <1>3, <1>4, GovernTakes
<1>6. \A c \in Spoken(spoken) : c[1] \in DOMAIN items' /\ ~items'[c[1]].deleted
  BY <1>2, <1>3 DEF Live, Later
<1>7. record \in Record
  BY <1>5 DEF Takes
<1> QED
  BY <1>2, <1>5, <1>6, <1>7

LEMMA CorrectTakes ==
    ASSUME TypeOK, FlowInv, NEW selected \in SUBSET Active, Here <= MaxLifecycles,
           NEW i \in Active, Correct(i, selected)
    PROVE  \E record \in Record, contents \in SUBSET Content :
              /\ Takes(record, selected, contents, {})
              /\ Later
              /\ \A j \in DOMAIN items : items'[j].deleted = items[j].deleted
              /\ \A c \in contents : c[1] \in DOMAIN items' /\ ~items'[c[1]].deleted
<1> DEFINE n == Version(i) + 1
           next == [items[i] EXCEPT !.contents = Append(@, n)]
           contents == Spoken({i}) \cup {<<i, n>>}
           record == [Command EXCEPT !.governed = TRUE, !.targets = {i}, !.affected = {i}]
<1>1. /\ i \in DOMAIN items /\ items[i].active /\ ~items[i].deleted
      /\ \A j \in DOMAIN items : items[j] \in Item /\ (items[j].active => ~items[j].deleted)
  BY DEF Active, TypeOK, FlowInv, ItemInv
<1>2. n \in Nat /\ Version(i) \in Nat /\ i \in ItemIds
  BY <1>1, VersionsArePositive
<1>3. items' = [items EXCEPT ![i] = next]
  BY DEF Correct
<1>4. Extends(items[i], next)
  BY <1>1, <1>2, NextVersionOf
<1>5. /\ next.sources = items[i].sources /\ next.deleted = items[i].deleted
      /\ next.contents = Append(items[i].contents, n)
  BY <1>1 DEF Item
<1> HIDE DEF next
<1>6. /\ items' = [j \in DOMAIN items |-> items'[j]]
      /\ items'[i] = next /\ \A j \in DOMAIN items : j # i => items'[j] = items[j]
  BY <1>1, <1>3
<1>7. Later
  <2>1. \A j \in DOMAIN items : Extends(items[j], items'[j])
    BY <1>1, <1>4, <1>6, SameExtends
  <2> QED
    BY <1>6, <2>1, ExtendedAreLater
<1>8. \A j \in DOMAIN items : items'[j].sources = items[j].sources /\ items'[j].deleted = items[j].deleted
  BY <1>5, <1>6
<1>9. \E v \in 1..Len(items'[i].contents) : items'[i].contents[v] = n
  <2>1. items[i].contents \in Seq(Nat)
    BY <1>1 DEF Item
  <2>2. Len(next.contents) = Version(i) + 1 /\ next.contents[Version(i) + 1] = n
    BY <1>2, <1>5, <2>1 DEF Version
  <2> QED
    BY <1>2, <1>6, <2>2
<1>10. {i} \in SUBSET DOMAIN items
  BY <1>1
<1>11. /\ contents \in SUBSET Content
       /\ \A c \in contents :
             /\ c[1] = i
             /\ \E v \in 1..Len(items'[c[1]].contents) : items'[c[1]].contents[v] = c[2]
       /\ \E c \in contents : c[1] = i
  <2>1. /\ Spoken({i}) \subseteq Content
        /\ \A c \in Spoken({i}) :
              /\ c[1] \in {i}
              /\ \E v \in 1..Len(items'[c[1]].contents) : items'[c[1]].contents[v] = c[2]
    BY <1>7, <1>10, SpokenIsTied
  <2>2. <<i, n>> \in Content /\ <<i, n>>[1] = i /\ <<i, n>>[2] = n
    BY <1>2 DEF Content
  <2> HIDE DEF n
  <2> QED
    BY <1>9, <2>1, <2>2
<1>12. Govern(Command, selected, {i}, {i}, contents) /\ Command \in Replies(selected)
  BY DEF Correct, Replies
<1> HIDE DEF contents
<1>13. Takes(record, selected, contents, {})
  BY <1>7, <1>8, <1>10, <1>11, <1>12, GovernTakes
<1>14. \A c \in contents : c[1] \in DOMAIN items' /\ ~items'[c[1]].deleted
  BY <1>1, <1>7, <1>8, <1>11 DEF Later
<1>15. record \in Record
  BY <1>13 DEF Takes
<1> QED
  BY <1>7, <1>8, <1>11, <1>13, <1>14, <1>15

LEMMA CancelTakes ==
    ASSUME TypeOK, FlowInv, NEW selected \in SUBSET Active, CancelDeletion(selected)
    PROVE  Takes([Nothing EXCEPT !.governed = TRUE], selected, {}, {})
<1> DEFINE record == [Nothing EXCEPT !.governed = TRUE]
<1>1. record \in Record /\ record.affected = {} /\ record.targets = {} /\ record.dialogue = {}
  BY DEF Nothing, Record
<1>2. ShowsWindow(record, selected)
  BY <1>1 DEF ShowsWindow
<1>3. items' = items /\ Complete(record, selected, {}, {})
  BY DEF CancelDeletion
<1> HIDE DEF record
<1>4. Takes(record, selected, {}, {})
  BY <1>1, <1>2, <1>3, NothingSpokenTakes
<1> QED
  BY <1>4 DEF record

LEMMA ConfirmTakes ==
    ASSUME TypeOK, FlowInv, NEW selected \in SUBSET Active,
           NEW targets \in SUBSET Live,
           Complete([Nothing EXCEPT !.governed = TRUE, !.affected = targets], selected, {}, {}),
           items' = [i \in DOMAIN items |->
                        IF i \in targets THEN Tombstone(items[i]) ELSE items[i]]
    PROVE  /\ Takes([Nothing EXCEPT !.governed = TRUE, !.affected = targets], selected, {}, {})
           /\ Later
           /\ \A i \in DOMAIN items : i \notin targets => items'[i] = items[i]
<1> DEFINE record == [Nothing EXCEPT !.governed = TRUE, !.affected = targets]
<1>1. /\ items \in Seq(Item) /\ targets \subseteq DOMAIN items
      /\ \A i \in DOMAIN items : items[i].active => ~items[i].deleted
  BY DEF TypeOK, FlowInv, ItemInv, Live
<1>2. \A i \in DOMAIN items : i \in ItemIds /\ items[i] \in Item
  BY VersionsArePositive
<1>3. /\ record \in Record /\ record.governed /\ record.affected = targets
      /\ record.targets = {} /\ record.dialogue = {}
  BY <1>1, <1>2 DEF Nothing, Record
<1> HIDE DEF record
<1>4. Shown(record) /\ ShowsWindow(record, selected)
  BY <1>3 DEF Shown, ShowsWindow
<1>5. \A i \in DOMAIN items :
         /\ i \in targets => items'[i] = Tombstone(items[i])
         /\ i \notin targets => items'[i] = items[i]
  OBVIOUS
<1>6. Later
  <2>1. \A i \in DOMAIN items : Extends(items[i], items'[i])
    <3>1. \A i \in DOMAIN items : Extends(items[i], Tombstone(items[i]))
      BY <1>1, <1>2, NextVersionOf
    <3> QED
      BY <1>1, <1>2, <1>5, <3>1, SameExtends
  <2>2. items' = [i \in DOMAIN items |-> items'[i]]
    BY Zenon
  <2> QED
    BY <2>1, <2>2, ExtendedAreLater
<1>7. Tied(record, {}, {})
  <2>1. \A i \in DOMAIN items' : items'[i].active => ~items'[i].deleted
    BY <1>6 DEF Later, Extends
  <2>2. \A i \in DOMAIN items : items'[i].sources = items[i].sources
    BY <1>2, <1>5 DEF Tombstone, Item
  <2>3. \A i \in targets : items'[i].deleted
    BY <1>1, <1>2, <1>5 DEF Tombstone, Item
  <2> QED
    BY <1>1, <1>3, <1>6, <2>1, <2>2, <2>3 DEF Tied, Later
<1>8. Grown
  BY <1>6, LaterGrows
<1>9. items' \in Seq(Item) /\ Len(items') <= MaxItems
  BY <1>6 DEF Later, TypeOK
<1>10. Takes(record, selected, {}, {})
  BY <1>3, <1>4, <1>7, <1>8, <1>9 DEF Takes, record
<1> QED
  BY <1>5, <1>6, <1>10 DEF record

\* What every input but the confirmation of a deletion does.
DeletesNothing(selected) ==
    \E record \in Record, contents \in SUBSET Content, questions \in SUBSET LastExchange :
        /\ Takes(record, selected, contents, questions)
        /\ redacted' = redacted
        /\ \A i \in DOMAIN items' : items'[i].deleted => i \in DOMAIN items /\ items[i].deleted
        /\ \A c \in contents : c[1] \in DOMAIN items' /\ ~items'[c[1]].deleted
        /\ DOMAIN items \subseteq DOMAIN items'

\* How it leaves the pending deletion.
KeepsPending ==
    \/ pending' = {}
    \/ pending' = pending /\ items' = items
    \/ \E targets \in SUBSET Live :
          pending' = {[lifecycle |-> Here, targets |-> targets]} /\ items' = items

LEMMA InputShape ==
    ASSUME TypeOK, FlowInv, NEW selected \in SUBSET Active, Here <= MaxLifecycles,
           Input(selected)
    PROVE  (DeletesNothing(selected) /\ KeepsPending) \/ ConfirmDeletion(selected)
<1>1. Active \subseteq Live
  BY DEF Active, Live, FlowInv, ItemInv
<1>2. Command \in Replies(selected)
  BY DEF Replies
<1>3. {} \in SUBSET LastExchange /\ {} \in SUBSET Content
  OBVIOUS
<1>4. ASSUME NEW reply \in Replies(selected), Talk(reply, selected)
      PROVE  DeletesNothing(selected) /\ KeepsPending
  <2>1. items' = items /\ redacted' = redacted /\ pending' = pending /\ Complete(reply, selected, {}, {})
    BY <1>4 DEF Talk
  <2>2. reply \in Record /\ Takes(reply, selected, {}, {})
    BY <2>1, RepliesShow, NothingSpokenTakes
  <2> QED
    BY <1>3, <2>1, <2>2 DEF DeletesNothing, KeepsPending
<1>5. ASSUME NEW reply \in Replies(selected),
             NEW i \in Active \cup {Len(items) + 1}, NEW questions \in SUBSET LastExchange,
             Retain(i, questions, reply, selected)
      PROVE  DeletesNothing(selected) /\ KeepsPending
  <2>1. reply \in Record /\ redacted' = redacted /\ pending' = {}
    BY <1>5, RepliesShow DEF Retain
  <2>2. CASE /\ i \in Active /\ items' = Integrated(i, questions \cup {Here})
             /\ Complete(reply, selected, {CurrentContent(i)}, questions)
    <3>1. /\ Takes(reply, selected, {CurrentContent(i)}, questions)
          /\ Later /\ \A j \in DOMAIN items : items'[j].deleted = items[j].deleted
      BY <2>2, IntegratedTakes
    <3>2. CurrentContent(i)[1] = i /\ i \in DOMAIN items /\ ~items[i].deleted
      BY <1>1, <2>2 DEF CurrentContent, Live
    <3> QED
      BY <2>1, <3>1, <3>2 DEF DeletesNothing, KeepsPending, Later, Takes
  <2>3. CASE /\ i = Len(items) + 1 /\ i <= MaxItems /\ items' = Adopted(questions \cup {Here})
             /\ Complete(reply, selected, {<<i, 1>>}, questions)
    <3>1. i \in Nat
      BY <2>3 DEF TypeOK
    <3>2. /\ Takes(reply, selected, {<<i, 1>>}, questions)
          /\ DOMAIN items' = DOMAIN items \cup {i} /\ ~items'[i].deleted
          /\ \A j \in DOMAIN items : j # i /\ items'[j] = items[j]
      BY <2>3, <3>1, AdoptedTakes
    <3>3. <<i, 1>>[1] = i
      OBVIOUS
    <3> QED
      BY <2>1, <3>2, <3>3 DEF DeletesNothing, KeepsPending, Takes
  <2> QED
    BY <1>5, <2>2, <2>3 DEF Retain
<1>6. ASSUME NEW reply \in Replies(selected), NEW spoken \in SUBSET Live,
             NEW targets \in SUBSET spoken, NEW affected \in SUBSET spoken,
             spoken = targets \cup affected,
             Govern(reply, selected, targets, affected, Spoken(spoken)),
             \/ items' = items
             \/ items' = [i \in DOMAIN items |->
                             IF i \in spoken THEN Renewed(items[i]) ELSE items[i]]
             \/ items' = Inactive(spoken)
      PROVE  DeletesNothing(selected)
  <2>1. redacted' = redacted
    BY <1>6 DEF Govern
  <2>2. \E record \in Record :
              /\ Takes(record, selected, Spoken(spoken), {})
              /\ Later
              /\ \A i \in DOMAIN items : items'[i].deleted = items[i].deleted
              /\ \A c \in Spoken(spoken) : c[1] \in DOMAIN items' /\ ~items'[c[1]].deleted
    BY <1>6, GovernedTakes
  <2> QED
    BY <1>3, <2>1, <2>2 DEF DeletesNothing, Takes, Later
<1>7. ASSUME NEW reply \in Replies(selected), NEW targets \in SUBSET Active,
             Forget(reply, targets, selected)
      PROVE  DeletesNothing(selected) /\ KeepsPending
  <2>1. /\ Govern(reply, selected, {}, targets, Spoken(targets)) /\ items' = Inactive(targets)
        /\ pending' = {}
    BY <1>7 DEF Forget, Govern
  <2> QED
    BY <1>1, <1>6, <2>1 DEF KeepsPending
<1>8. ASSUME NEW i \in Active, Correct(i, selected)
      PROVE  DeletesNothing(selected) /\ KeepsPending
  <2>1. redacted' = redacted /\ pending' = {}
    BY <1>8 DEF Correct, Govern
  <2>2. \E record \in Record, contents \in SUBSET Content :
              /\ Takes(record, selected, contents, {})
              /\ Later
              /\ \A j \in DOMAIN items : items'[j].deleted = items[j].deleted
              /\ \A c \in contents : c[1] \in DOMAIN items' /\ ~items'[c[1]].deleted
    BY <1>8, CorrectTakes
  <2> QED
    BY <1>3, <2>1, <2>2 DEF DeletesNothing, KeepsPending, Later
<1>9. ASSUME NEW targets \in SUBSET Active,
             CorrectUnclear(targets, selected) \/ Reevaluate(targets, selected)
                \/ Deactivate(targets, selected)
      PROVE  DeletesNothing(selected) /\ KeepsPending
  <2>1. CASE CorrectUnclear(targets, selected)
    <3>1. /\ Govern(Command, selected, targets, {}, Spoken(targets)) /\ items' = items
          /\ pending' = pending
      BY <2>1 DEF CorrectUnclear
    <3> QED
      BY <1>1, <1>2, <1>6, <3>1 DEF KeepsPending
  <2>2. CASE Reevaluate(targets, selected)
    <3>1. /\ Govern(Command, selected, targets, targets, Spoken(targets))
          /\ items' = [i \in DOMAIN items |->
                          IF i \in targets THEN Renewed(items[i]) ELSE items[i]]
          /\ pending' = {}
      BY <2>2 DEF Reevaluate, Govern
    <3> QED
      BY <1>1, <1>2, <1>6, <3>1 DEF KeepsPending
  <2>3. CASE Deactivate(targets, selected)
    <3>1. /\ Govern(Command, selected, targets, targets, Spoken(targets))
          /\ items' = Inactive(targets)
          /\ pending' = {}
      BY <2>3 DEF Deactivate, Govern
    <3> QED
      BY <1>1, <1>2, <1>6, <3>1 DEF KeepsPending
  <2> QED
    BY <1>9, <2>1, <2>2, <2>3
<1>10. ASSUME NEW targets \in SUBSET Live, RequestDeletion(targets, selected)
       PROVE  DeletesNothing(selected) /\ KeepsPending
  <2>1. /\ Govern(Command, selected, targets, {}, Spoken(targets)) /\ items' = items
        /\ pending' = {[lifecycle |-> Here, targets |-> targets]}
    BY <1>10 DEF RequestDeletion
  <2> QED
    BY <1>2, <1>6, <2>1 DEF KeepsPending
<1>11. ASSUME CancelDeletion(selected)
       PROVE  DeletesNothing(selected) /\ KeepsPending
  <2>1. items' = items /\ redacted' = redacted /\ pending' = {}
    BY <1>11 DEF CancelDeletion
  <2>2. Takes([Nothing EXCEPT !.governed = TRUE], selected, {}, {})
    BY <1>11, CancelTakes
  <2>3. [Nothing EXCEPT !.governed = TRUE] \in Record
    BY <2>2 DEF Takes
  <2> QED
    BY <1>3, <2>1, <2>2, <2>3 DEF DeletesNothing, KeepsPending
<1> QED
  BY <1>4, <1>5, <1>7, <1>8, <1>9, <1>10, <1>11 DEF Input

-----------------------------------------------------------------------------
(* The theorems *)

LEMMA InitHolds == Init => IInv
<1> SUFFICES ASSUME Init PROVE IInv
  OBVIOUS
<1>1. CASE items = <<>> /\ records = <<>> /\ context = {} /\ taint = <<>>
  <2>1. TypeOK
    BY <1>1, FS_EmptySet, TaintBounds DEF Init, TypeOK
  <2>2. DOMAIN records = {} /\ DOMAIN items = {}
    BY <1>1
  <2>3. FlowInv
    BY <1>1, <2>2 DEF FlowInv, ContentsInv, TaintInv, RecordInv, ItemInv, ContextInv
  <2> QED
    BY <1>1, <2>1, <2>3 DEF Init, IInv, PendingInv, DeletedMeansRedacted
<1>2. CASE /\ MaxLifecycles >= 2 /\ MaxItems >= 1
           /\ items = <<[contents |-> <<1>>, active |-> TRUE, deleted |-> FALSE, sources |-> {1}]>>
           /\ records = <<[Nothing EXCEPT !.legacy = TRUE], [Nothing EXCEPT !.legacy = TRUE]>>
           /\ context = {1, 2}
           /\ taint = <<{<<1, 1>>}, {<<1, 1>>}>>
  <2> DEFINE item == [contents |-> <<1>>, active |-> TRUE, deleted |-> FALSE, sources |-> {1}]
             record == [Nothing EXCEPT !.legacy = TRUE]
  <2>1. item \in Item
    <3>1. <<1>> \in Seq(Nat) /\ Len(<<1>>) = 1 /\ Len(<<>>) = 0
      OBVIOUS
    <3>2. 1 \in Lifecycles
      BY <1>2, TaintBounds DEF Lifecycles
    <3>3. <<1>> # <<>>
      BY <3>1
    <3> QED
      BY <3>1, <3>2, <3>3 DEF Item
  <2>2. record \in Record
    BY DEF Nothing, Record
  <2>3. /\ item.contents = <<1>> /\ item.active = TRUE /\ item.deleted = FALSE /\ item.sources = {1}
        /\ record.legacy = TRUE /\ record.used = {} /\ record.dialogue = {}
        /\ record.affected = {} /\ record.targets = {}
    BY DEF Nothing
  <2> HIDE DEF item, record
  <2>4. items = <<item>> /\ records = <<record, record>>
    BY <1>2 DEF item, record
  <2>5. /\ items \in Seq(Item) /\ Len(items) = 1 /\ DOMAIN items = {1} /\ items[1] = item
    BY <2>1, <2>4
  <2>6. /\ records \in Seq(Record) /\ Len(records) = 2 /\ DOMAIN records = {1, 2}
        /\ records[1] = record /\ records[2] = record
    BY <2>2, <2>4
  <2>7. /\ taint \in Seq(SUBSET Content) /\ Len(taint) = 2
        /\ taint[1] = {<<1, 1>>} /\ taint[2] = {<<1, 1>>}
    <3>1. {<<1, 1>>} \in SUBSET Content
      BY <1>2, TaintBounds DEF Content, ItemIds
    <3> QED
      BY <1>2, <3>1
  <2>8. TypeOK
    BY <1>2, <2>5, <2>6, <2>7, FS_EmptySet, TaintBounds DEF Init, TypeOK
  <2>9. Version(1) = 1 /\ items[1].contents[1] = 1
    BY <2>3, <2>5 DEF Version
  <2>10. ContentsInv
    BY <2>5, <2>6, <2>7, <2>9 DEF ContentsInv
  <2>11. TaintInv
    <3>1. Legacy = {1, 2}
      BY <2>3, <2>6 DEF Legacy
    <3> QED
      BY <2>6, <3>1 DEF TaintInv
  <2>12. RecordInv
    BY <2>3, <2>6 DEF RecordInv
  <2>13. ItemInv
    <3>1. <<1, 1>> \in taint[1] /\ <<1, 1>>[1] = 1
      BY <2>7
    <3>2. Says(1, 1)
      BY <3>1 DEF Says
    <3>3. items[1].active => ~items[1].deleted
      BY <2>3, <2>5
    <3>4. items[1].sources = {1} /\ 1 \in DOMAIN records
      BY <2>3, <2>5, <2>6
    <3> QED
      BY <2>5, <3>2, <3>3, <3>4, Zenon DEF ItemInv
  <2>14. ContextInv
    BY <1>2, <2>6 DEF ContextInv
  <2>15. DeletedMeansRedacted
    BY <1>2, <2>3, <2>5, <2>7 DEF DeletedMeansRedacted
  <2> QED
    BY <2>8, <2>10, <2>11, <2>12, <2>13, <2>14, <2>15 DEF Init, IInv, FlowInv, PendingInv
<1> QED
  BY <1>1, <1>2 DEF Init

\* The state after an input, except for what is redacted and pending.
LEMMA TakesKeeps ==
    ASSUME TypeOK, FlowInv, NEW selected \in SUBSET Active, Here <= MaxLifecycles,
           NEW record, NEW contents, NEW questions,
           Takes(record, selected, contents, questions)
    PROVE  /\ Completed(record, selected, contents, questions)
           /\ FlowInv'
           /\ items' \in Seq(Item) /\ Len(items') <= MaxItems
           /\ records' \in Seq(Record) /\ Len(records') <= MaxLifecycles
           /\ context' \subseteq DOMAIN records' /\ redacted \subseteq DOMAIN records'
           /\ taint' \in Seq(SUBSET Content) /\ Len(taint') = Len(records')
<1>1. /\ record \in Record /\ contents \in SUBSET Content /\ questions \in SUBSET LastExchange
      /\ Complete(record, selected, contents, questions)
      /\ items' \in Seq(Item) /\ Len(items') <= MaxItems
      /\ Grown /\ Tied(record, contents, questions) /\ Shown(record)
  BY DEF Takes
<1>2. record.dialogue \subseteq context
  BY <1>1 DEF Shown
<1>3. Completed(record, selected, contents, questions)
  BY <1>1, <1>2, CompleteShape
<1>4. FlowInv'
  BY <1>1, InputKeepsFlow
<1>5. /\ records' \in Seq(Record) /\ Len(records') <= MaxLifecycles
      /\ context' \subseteq DOMAIN records' /\ redacted \subseteq DOMAIN records'
      /\ taint' \in Seq(SUBSET Content) /\ Len(taint') = Len(records')
  BY <1>3 DEF Completed, TypeOK
<1> QED
  BY <1>1, <1>3, <1>4, <1>5

LEMMA PendingIsKept ==
    ASSUME TypeOK, PendingInv, Here <= MaxLifecycles, KeepsPending
    PROVE  /\ pending' \subseteq Pending /\ Cardinality(pending') <= 1
           /\ PendingInv'
<1>1. Here \in Lifecycles
  BY TaintBounds DEF TypeOK, Here, Lifecycles
<1>2. \A targets \in SUBSET Live : targets \subseteq ItemIds
  BY VersionsArePositive DEF Live
<1>3. CASE pending' = {}
  BY <1>3, FS_EmptySet DEF PendingInv
<1>4. CASE pending' = pending /\ items' = items
  <2>1. Live' = Live
    BY <1>4 DEF Live
  <2> QED
    BY <1>4, <2>1 DEF TypeOK, PendingInv
<1>5. ASSUME NEW targets \in SUBSET Live,
             pending' = {[lifecycle |-> Here, targets |-> targets]}, items' = items
      PROVE  /\ pending' \subseteq Pending /\ Cardinality(pending') <= 1
             /\ PendingInv'
  <2> DEFINE p == [lifecycle |-> Here, targets |-> targets]
  <2>1. p \in Pending /\ p.targets = targets
    BY <1>1, <1>2 DEF Pending
  <2> HIDE DEF p
  <2>2. pending' = {p}
    BY <1>5 DEF p
  <2>3. Cardinality({p}) = 1
    BY FS_Singleton
  <2>4. Live' = Live
    BY <1>5 DEF Live
  <2> QED
    BY <2>1, <2>2, <2>3, <2>4 DEF PendingInv
<1> QED
  BY <1>3, <1>4, <1>5 DEF KeepsPending

LEMMA ConfirmShape ==
    ASSUME TypeOK, FlowInv, PendingInv, NEW selected \in SUBSET Active,
           ConfirmDeletion(selected)
    PROVE  \E p \in pending :
              /\ p.targets \in SUBSET Live
              /\ Takes([Nothing EXCEPT !.governed = TRUE, !.affected = p.targets], selected, {}, {})
              /\ Later /\ \A i \in DOMAIN items : i \notin p.targets => items'[i] = items[i]
              /\ pending' = {}
              /\ redacted' = redacted \cup (context' \cap
                    (DeletionLifecycles(p.targets) \cup {p.lifecycle, Here}))
<1>1. PICK p \in pending :
        /\ pending' = {}
        /\ Complete([Nothing EXCEPT !.governed = TRUE, !.affected = p.targets],
                    selected, {}, {})
        /\ items' = [i \in DOMAIN items |->
                        IF i \in p.targets THEN Tombstone(items[i]) ELSE items[i]]
        /\ redacted' = redacted \cup (context' \cap
              (DeletionLifecycles(p.targets) \cup {p.lifecycle, Here}))
  BY DEF ConfirmDeletion
<1>2. p.targets \in SUBSET Live
  BY DEF PendingInv
<1>3. /\ Takes([Nothing EXCEPT !.governed = TRUE, !.affected = p.targets], selected, {}, {})
      /\ Later /\ \A i \in DOMAIN items : i \notin p.targets => items'[i] = items[i]
  BY <1>1, <1>2, ConfirmTakes
<1> QED
  BY <1>1, <1>2, <1>3

LEMMA NextKeeps == IInv /\ [Next]_vars => IInv'
<1> SUFFICES ASSUME IInv, [Next]_vars PROVE IInv'
  OBVIOUS
<1> USE DEF IInv
<1>1. ASSUME NEW selected \in SUBSET Active, Here <= MaxLifecycles,
             DeletesNothing(selected), KeepsPending
      PROVE  IInv'
  <2>1. PICK record \in Record, contents \in SUBSET Content, questions \in SUBSET LastExchange :
        /\ Takes(record, selected, contents, questions)
        /\ redacted' = redacted
        /\ \A i \in DOMAIN items' : items'[i].deleted => i \in DOMAIN items /\ items[i].deleted
        /\ \A c \in contents : c[1] \in DOMAIN items' /\ ~items'[c[1]].deleted
        /\ DOMAIN items \subseteq DOMAIN items'
    BY <1>1 DEF DeletesNothing
  <2>2. /\ Completed(record, selected, contents, questions)
        /\ FlowInv'
        /\ items' \in Seq(Item) /\ Len(items') <= MaxItems
        /\ records' \in Seq(Record) /\ Len(records') <= MaxLifecycles
        /\ context' \subseteq DOMAIN records' /\ redacted \subseteq DOMAIN records'
        /\ taint' \in Seq(SUBSET Content) /\ Len(taint') = Len(records')
    BY <1>1, <2>1, TakesKeeps
  <2>3. /\ pending' \subseteq Pending /\ Cardinality(pending') <= 1
        /\ PendingInv'
    BY <1>1, PendingIsKept
  <2>4. Shown(record)
    BY <2>1 DEF Takes
  <2>5. DeletedMeansRedacted'
    BY <2>1, <2>2, <2>4, InputKeepsClean
  <2>6. TypeOK'
    BY <2>1, <2>2, <2>3 DEF TypeOK
  <2> QED
    BY <2>2, <2>3, <2>5, <2>6
<1>2. ASSUME NEW selected \in SUBSET Active, Here <= MaxLifecycles,
             ConfirmDeletion(selected)
      PROVE  IInv'
  <2>1. PICK p \in pending :
              /\ p.targets \in SUBSET Live
              /\ Takes([Nothing EXCEPT !.governed = TRUE, !.affected = p.targets], selected, {}, {})
              /\ Later /\ \A i \in DOMAIN items : i \notin p.targets => items'[i] = items[i]
              /\ pending' = {}
              /\ redacted' = redacted \cup (context' \cap
                    (DeletionLifecycles(p.targets) \cup {p.lifecycle, Here}))
    BY <1>2, ConfirmShape
  <2> DEFINE record == [Nothing EXCEPT !.governed = TRUE, !.affected = p.targets]
  <2>2. /\ Completed(record, selected, {}, {})
        /\ FlowInv'
        /\ items' \in Seq(Item) /\ Len(items') <= MaxItems
        /\ records' \in Seq(Record) /\ Len(records') <= MaxLifecycles
        /\ context' \subseteq DOMAIN records' /\ redacted \subseteq DOMAIN records'
        /\ taint' \in Seq(SUBSET Content) /\ Len(taint') = Len(records')
    BY <1>2, <2>1, TakesKeeps
  <2> HIDE DEF record
  <2>3. /\ pending' \subseteq Pending /\ Cardinality(pending') <= 1
        /\ PendingInv'
    BY <2>1, FS_EmptySet DEF PendingInv
  <2>4. DeletedMeansRedacted'
    <3> SUFFICES ASSUME NEW l \in context' \ redacted', NEW c \in taint'[l]
                 PROVE  ~items'[c[1]].deleted
      BY DEF DeletedMeansRedacted
    <3>1. l \in context /\ l \notin redacted /\ l \notin DeletionLifecycles(p.targets)
      BY <2>1, <2>2 DEF Completed
    <3>2. l \in DOMAIN records /\ c \in taint[l]
      BY <2>2, <3>1 DEF Completed, TypeOK
    <3>3. c[1] \notin p.targets
      BY <2>1, <3>1, <3>2, LeftHoldsNoTarget DEF Live
    <3>4. c[1] \in DOMAIN items /\ ~items[c[1]].deleted
      BY <3>1, <3>2 DEF FlowInv, ContentsInv, DeletedMeansRedacted
    <3> QED
      BY <2>1, <3>3, <3>4
  <2>5. redacted' \subseteq DOMAIN records'
    BY <2>1, <2>2
  <2>6. TypeOK'
    BY <2>2, <2>3, <2>5 DEF TypeOK
  <2> QED
    BY <2>2, <2>3, <2>4, <2>6
<1>3. CASE NewContext
  <2>1. /\ context' = {} /\ items' = items /\ records' = records /\ redacted' = redacted
        /\ pending' = pending /\ taint' = taint
    BY <1>3 DEF NewContext
  <2>2. TypeOK'
    BY <2>1 DEF TypeOK
  <2>3. Legacy' = Legacy /\ Live' = Live /\ \A i : Version(i)' = Version(i)
    BY <2>1 DEF Legacy, Live, Version
  <2>4. ContentsInv' /\ RecordInv' /\ ItemInv' /\ ContextInv'
    BY <2>1 DEF FlowInv, ContentsInv, RecordInv, ItemInv, ContextInv, Says, Version
  <2>5. TaintInv'
    BY <2>1 DEF FlowInv, TaintInv, Leads, Closed, Legacy
  <2> QED
    BY <2>1, <2>2, <2>3, <2>4, <2>5 DEF FlowInv, PendingInv, DeletedMeansRedacted
<1>4. CASE UNCHANGED vars
  <2>1. /\ context' = context /\ items' = items /\ records' = records /\ redacted' = redacted
        /\ pending' = pending /\ taint' = taint
    BY <1>4 DEF vars
  <2>2. TypeOK'
    BY <2>1 DEF TypeOK
  <2>4. ContentsInv' /\ RecordInv' /\ ItemInv' /\ ContextInv'
    BY <2>1 DEF FlowInv, ContentsInv, RecordInv, ItemInv, ContextInv, Says, Version
  <2>5. TaintInv'
    BY <2>1 DEF FlowInv, TaintInv, Leads, Closed, Legacy
  <2> QED
    BY <2>1, <2>2, <2>4, <2>5 DEF FlowInv, PendingInv, Live, DeletedMeansRedacted
<1> QED
  BY <1>1, <1>2, <1>3, <1>4, InputShape DEF Next

\* The inductive invariant holds in every reachable state.
THEOREM Inductive == Spec => []IInv
BY InitHolds, NextKeeps, PTL DEF Spec

\* Every state has its type.
THEOREM TypeCorrect == Spec => []TypeOK
<1>1. IInv => TypeOK
  BY DEF IInv
<1> QED
  BY <1>1, Inductive, PTL

\* After a physical deletion no turn of the active context holds content of a
\* deleted memory, over however many replies it was passed on
\* (redact_active_dialogue, dependent_dialogue_lifecycles).
THEOREM DeletionsReachAll == Spec => []DeletedMeansRedacted
<1>1. IInv => DeletedMeansRedacted
  BY DEF IInv
<1> QED
  BY <1>1, Inductive, PTL

\* An input's window is that of its reply.
LEMMA TakenWindowIsClean ==
    ASSUME TypeOK, FlowInv, NEW selected \in SUBSET Active, Here <= MaxLifecycles,
           NEW record, NEW contents, NEW questions,
           Takes(record, selected, contents, questions)
    PROVE  LET shown == records'[Here].dialogue
               chosen == {use[1] : use \in records'[Here].used}
           IN  \A l \in shown : \A content \in taint[l] :
                   \E i \in IF records[l].asked THEN Active ELSE chosen :
                       content = CurrentContent(i)
<1>1. record \in Record /\ ShowsWindow(record, selected)
  BY DEF Takes
<1>2. Completed(record, selected, contents, questions)
  BY TakesKeeps
<1>3. records'[Here].dialogue = record.dialogue /\ records'[Here].used = Used(selected)
  BY <1>1, <1>2 DEF Completed, Record
<1>4. selected \subseteq {use[1] : use \in records'[Here].used}
  <2> SUFFICES ASSUME NEW i \in selected
               PROVE  \E use \in records'[Here].used : use[1] = i
    OBVIOUS
  <2>1. <<i, Version(i)>> \in records'[Here].used
    BY <1>3 DEF Used
  <2> QED
    BY <2>1
<1>5. ASSUME NEW l \in record.dialogue, NEW content \in taint[l]
      PROVE  \E i \in IF records[l].asked THEN Active ELSE selected :
                 content = CurrentContent(i)
  <2>1. PICK first \in context \cup {Here}, again \in BOOLEAN :
               record.dialogue = Window(selected, first, again)
    BY <1>1 DEF ShowsWindow
  <2> QED
    BY <2>1, ShownIsCurrent
<1> QED
  BY <1>3, <1>4, <1>5

\* No reply is built on an exchange that holds what was corrected, deactivated,
\* forgotten or deleted, or what was not selected for it
\* (_propose_dialogue_assistance).
THEOREM WindowsAreClean == Spec => WindowsHoldNothingWithdrawn
<1> DEFINE Clean ==
        Len(records') > Len(records) =>
            LET shown == records'[Here].dialogue
                selected == {use[1] : use \in records'[Here].used}
            IN  \A l \in shown : \A content \in taint[l] :
                    \E i \in IF records[l].asked THEN Active ELSE selected :
                        content = CurrentContent(i)
<1>1. IInv /\ [Next]_vars => [Clean]_vars
  <2> SUFFICES ASSUME IInv, Next PROVE Clean
    OBVIOUS
  <2>1. ASSUME NEW chosen \in SUBSET Active, Here <= MaxLifecycles, Input(chosen)
        PROVE  Clean
    <3>1. TypeOK /\ FlowInv /\ PendingInv
      BY DEF IInv
    <3>2. \E record, contents, questions : Takes(record, chosen, contents, questions)
      <4>1. CASE DeletesNothing(chosen)
        BY <4>1 DEF DeletesNothing
      <4>2. CASE ConfirmDeletion(chosen)
        BY <3>1, <4>2, ConfirmShape
      <4> QED
        BY <2>1, <3>1, <4>1, <4>2, InputShape
    <3>3. PICK record, contents, questions : Takes(record, chosen, contents, questions)
      BY <3>2
    <3> QED
      BY <2>1, <3>1, <3>3, TakenWindowIsClean
  <2>2. CASE NewContext
    <3>1. records' = records /\ Len(records) \in Nat
      BY <2>2 DEF NewContext, IInv, TypeOK
    <3> QED
      BY <3>1
  <2> QED
    BY <2>1, <2>2 DEF Next
<1> QED
  BY <1>1, Inductive, PTL DEF Spec, WindowsHoldNothingWithdrawn

\* A deletion redacts nothing but the exchanges that held content of a target,
\* those without recorded materials and what rests on them, the request and the
\* confirmation (conversation_memory_deletion_lifecycles).
THEOREM RedactionsArePrecise == Spec => RedactionIsPrecise
<1> DEFINE Precise ==
        \A l \in redacted' \ redacted :
            \/ l = Here
            \/ l \in Dependent({})
            \/ \E p \in pending :
                  l = p.lifecycle \/ \E content \in taint[l] : content[1] \in p.targets
<1>1. IInv /\ [Next]_vars => [Precise]_vars
  <2> SUFFICES ASSUME IInv, Next PROVE Precise
    OBVIOUS
  <2>1. TypeOK /\ FlowInv /\ PendingInv
    BY DEF IInv
  <2>2. ASSUME NEW selected \in SUBSET Active, ConfirmDeletion(selected)
        PROVE  Precise
    <3>1. PICK p \in pending :
              /\ p.targets \in SUBSET Live
              /\ redacted' = redacted \cup (context' \cap
                    (DeletionLifecycles(p.targets) \cup {p.lifecycle, Here}))
      BY <2>1, <2>2, ConfirmShape
    <3>2. ASSUME NEW l \in redacted' \ redacted, l # Here, l \notin Dependent({}), l # p.lifecycle
          PROVE  \E content \in taint[l] : content[1] \in p.targets
      <4>1. l \in DeletionLifecycles(p.targets)
        BY <3>1, <3>2
      <4> QED
        BY <2>1, <3>1, <3>2, <4>1, TakenHoldsTarget
    <3> QED
      BY <3>2
  <2>3. ASSUME NEW selected \in SUBSET Active, Here <= MaxLifecycles, Input(selected)
        PROVE  Precise
    <3>1. CASE DeletesNothing(selected)
      BY <3>1 DEF DeletesNothing
    <3> QED
      BY <2>1, <2>2, <2>3, <3>1, InputShape
  <2>4. CASE NewContext
    BY <2>4 DEF NewContext
  <2> QED
    BY <2>3, <2>4 DEF Next
<1> QED
  BY <1>1, Inductive, PTL DEF Spec, RedactionIsPrecise
=============================================================================
