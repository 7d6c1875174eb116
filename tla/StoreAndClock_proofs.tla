------------------------- MODULE StoreAndClock_proofs -------------------------
(***************************************************************************)
(* What one process leaves to the next: the store it opens, and the time   *)
(* of the life.  The two modules share no name.                            *)
(*                                                                         *)
(* Opening the store, for every set of versions and every retention        *)
(* setting.  The inductive invariant says which part of a first boot can   *)
(* be unfinished (BirthInv), what is true of the newest checkpoint         *)
(* (RowsInv) and what the running open already knows (ProgramInv).         *)
(*                                                                         *)
(* The time, for every tolerance, every bound and every number of          *)
(* processes.  The internal time after the lifecycle that runs already has *)
(* to be near the wall clock when the lifecycle begins, so the inductive   *)
(* invariant speaks of it (Ahead), of the observation State was last       *)
(* advanced to (Synchronised), and of the State that was restored          *)
(* (Resuming).                                                             *)
(***************************************************************************)
EXTENDS StoreBoot, RuntimeClock, FiniteSetTheorems, TLAPS

------------------------------------------------------------------------------
(* The store *)

Top(n) == n \in DOMAIN rows /\ \A m \in DOMAIN rows : n >= m

RowsInv ==
    /\ \E n \in DOMAIN rows \cup {0} : \A m \in DOMAIN rows : n >= m
    /\ ~Empty => marker
    /\ ~marker => committed = 0
    /\ damage = 0 /\ marker => ~Empty
    /\ \A n \in DOMAIN rows : Top(n) =>
          /\ identity # NoVersion => rows[n].version = identity
          /\ rows[n].intact => rows[n].content = committed
          /\ damage = 0 => rows[n].intact

BirthInv ==
    /\ OneSubject
    /\ born = 0 => identity = NoVersion /\ Empty /\ ~marker
    /\ script < Complete => born = 0
    /\ pc \in {"down", "tables"} => ~newSchema
    /\ pc = "create" => newSchema /\ script < Complete
    /\ newSchema /\ pc \in {"version", "identity"} => born = 0 /\ script = Complete

ProgramInv ==
    /\ pc # "down" => program \in Versions
    /\ pc \in {"snapshot", "equip", "up"} => identity = program
    /\ pc \in {"equip", "up"} => content = committed
    /\ BornMeansOpenable

IInv == TypeOK /\ RowsInv /\ BirthInv /\ ProgramInv

-----------------------------------------------------------------------------

\* The CHOOSE of NewestSequence.
LEMMA Greatest ==
    ASSUME NEW S \in SUBSET (Nat \ {0}), NEW n \in S \cup {0}, \A m \in S : n >= m
    PROVE  /\ (CHOOSE k \in S \cup {0} : \A m \in S : k >= m) = n
           /\ S # {} => n \in S
<1>1. ASSUME NEW k \in S \cup {0}, \A m \in S : k >= m
      PROVE  k = n
  <2>1. k \in Nat /\ n \in Nat
    OBVIOUS
  <2>2. CASE k = 0 /\ n = 0
    BY <2>2
  <2>3. CASE k \in S /\ n \in S
    <3>1. k >= n /\ n >= k
      BY <1>1, <2>3
    <3> QED
      BY <2>1, <3>1
  <2>4. CASE k = 0 /\ n \in S
    <3>1. k >= n
      BY <1>1, <2>4
    <3> QED
      BY <2>1, <2>4, <3>1
  <2>5. CASE k \in S /\ n = 0
    <3>1. n >= k
      BY <2>5
    <3> QED
      BY <2>1, <2>5, <3>1
  <2> QED
    BY <1>1, <2>2, <2>3, <2>4, <2>5
<1>2. S # {} => n \in S
  <2> SUFFICES ASSUME NEW m \in S PROVE n \in S
    OBVIOUS
  <2>1. n >= m /\ m \in Nat /\ m # 0 /\ n \in Nat
    OBVIOUS
  <2> QED
    BY <2>1
<1> QED
  BY <1>1, <1>2

\* The newest sequence number is the greatest there is.
LEMMA NewestIsTop ==
    ASSUME TypeOK, RowsInv
    PROVE  /\ NewestSequence \in Nat
           /\ \A m \in DOMAIN rows : NewestSequence >= m
           /\ ~Empty => Top(NewestSequence)
           /\ Empty => NewestSequence = 0
<1>1. PICK n \in DOMAIN rows \cup {0} : \A m \in DOMAIN rows : n >= m
  BY DEF RowsInv
<1>2. DOMAIN rows \in SUBSET (Nat \ {0})
  BY BootBounds DEF TypeOK
<1>3. NewestSequence = n /\ (DOMAIN rows # {} => n \in DOMAIN rows)
  BY <1>1, <1>2, Greatest DEF NewestSequence
<1> QED
  BY <1>1, <1>2, <1>3 DEF Empty, Top

\* What a successful check of the newest checkpoint tells.
LEMMA ReadableMeans ==
    ASSUME TypeOK, RowsInv, Readable
    PROVE  /\ Empty => committed = 0
           /\ ~Empty => NewestRow.content = committed /\ NewestRow \in Rows /\ NewestRow.intact
<1>1. CASE Empty
  BY <1>1 DEF Readable, RowsInv
<1>2. CASE ~Empty
  <2>1. Top(NewestSequence) /\ NewestSequence \in DOMAIN rows
    BY <1>2, NewestIsTop DEF Top
  <2> QED
    BY <1>2, <2>1 DEF Readable, RowsInv, NewestRow, TypeOK
<1> QED
  BY <1>1, <1>2

\* The checkpoints of an undamaged life are readable.
LEMMA UndamagedIsReadable ==
    ASSUME TypeOK, RowsInv, BirthInv, damage = 0, identity # NoVersion
    PROVE  Readable
<1>1. script = Complete
  BY DEF TypeOK, BirthInv, Complete
<1>2. CASE Empty
  BY <1>1, <1>2 DEF Readable, RowsInv
<1>3. CASE ~Empty
  <2>1. Top(NewestSequence) /\ NewestSequence \in DOMAIN rows
    BY <1>3, NewestIsTop DEF Top
  <2> QED
    BY <1>3, <2>1 DEF Readable, RowsInv, NewestRow
<1> QED
  BY <1>2, <1>3

-----------------------------------------------------------------------------
(* Steps that change the checkpoints *)

\* The newest row stays the newest and keeps what RowsInv says of it.
LEMMA UpgradeKeepsRows ==
    ASSUME IInv, Upgrade
    PROVE  TypeOK' /\ RowsInv'
<1>1. CASE Empty
  <2>1. rows' = rows
    BY <1>1 DEF Upgrade, UpgradedRows
  <2> QED
    BY <1>1, <2>1 DEF IInv, TypeOK, RowsInv, ProgramInv, Upgrade, GoOn, history, Empty, Top
<1>2. CASE ~Empty
  <2> DEFINE next == NewestSequence + 1
             row == [NewestRow EXCEPT !.version = program]
  <2>1. /\ Top(NewestSequence) /\ NewestSequence \in Nat /\ NewestRow \in Rows
        /\ NewestRow.content = committed /\ NewestRow.intact
        /\ \A m \in DOMAIN rows : next > m /\ m \in 1..MaxSequence
    BY <1>2, NewestIsTop, ReadableMeans DEF IInv, Upgrade, TypeOK
  <2>2. /\ program \in Versions
        /\ row \in Rows /\ row.version = program
        /\ row.content = committed /\ row.intact
    BY <2>1 DEF IInv, ProgramInv, Upgrade, Rows
  <2>3. /\ DOMAIN rows' = DOMAIN rows \cup {next}
        /\ rows'[next] = row
        /\ \A n \in DOMAIN rows : rows'[n] = rows[n]
        /\ rows' \in [DOMAIN rows \cup {next} -> Rows]
        /\ next \in 1..MaxSequence
    <3>1. rows' = [n \in DOMAIN rows \cup {next} |-> IF n = next THEN row ELSE rows[n]]
      BY <1>2, Zenon DEF Upgrade, UpgradedRows
    <3>2. next \notin DOMAIN rows /\ next \in 1..MaxSequence
      BY <2>1, BootBounds DEF Upgrade
    <3>3. rows \in [DOMAIN rows -> Rows]
      BY DEF IInv, TypeOK
    <3> HIDE DEF next, row
    <3> QED
      BY <2>2, <3>1, <3>2, <3>3
  <2>4. \A n \in DOMAIN rows' : Top(n)' => n = next
    <3> SUFFICES ASSUME NEW n \in DOMAIN rows', Top(n)' PROVE n = next
      OBVIOUS
    <3>1. n >= next
      BY <2>3 DEF Top
    <3> QED
      BY <2>1, <2>3, <3>1
  <2>5. UNCHANGED <<script, marker, control, newSchema, content, program, history>>
        /\ identity' = program /\ pc' = "snapshot"
    BY DEF Upgrade, GoOn
  <2>6. TypeOK'
    <3> HIDE DEF next
    <3> QED
      BY <2>2, <2>3, <2>5 DEF IInv, TypeOK, history
  <2>7. RowsInv'
    <3>1. \E n \in (DOMAIN rows \cup {0})' : \A m \in DOMAIN rows' : n >= m
      <4>1. \A m \in DOMAIN rows' : next >= m
        BY <2>1, <2>3
      <4> QED
        BY <2>3, <4>1
    <3>2. \A n \in DOMAIN rows' : Top(n)' =>
             /\ rows'[n].version = program
             /\ rows'[n].content = committed
             /\ rows'[n].intact
      <4> HIDE DEF next, row
      <4> QED
        BY <2>2, <2>3, <2>4
    <3>3. marker /\ ~Empty'
      BY <1>2, <2>3 DEF IInv, RowsInv, Empty
    <3> QED
      BY <2>5, <3>1, <3>2, <3>3 DEF RowsInv, history
  <2> QED
    BY <2>6, <2>7
<1> QED
  BY <1>1, <1>2

\* A commit makes a new newest row of what the owners hold.
LEMMA CommitKeepsRows ==
    ASSUME IInv, Commit
    PROVE  TypeOK' /\ RowsInv'
<1> DEFINE next == NewestSequence + 1
           row == [version |-> program, content |-> content', intact |-> TRUE]
<1>1. /\ NewestSequence \in Nat
      /\ \A m \in DOMAIN rows : next > m /\ m \in 1..MaxSequence
  BY NewestIsTop DEF IInv, TypeOK
<1>2. /\ program \in Versions /\ identity = program
      /\ content' \in Nat /\ committed' = content'
      /\ row \in Rows
  BY DEF IInv, TypeOK, ProgramInv, Commit, Rows
<1>3. /\ DOMAIN rows' = DOMAIN rows \cup {next}
      /\ rows'[next] = row
      /\ \A n \in DOMAIN rows : rows'[n] = rows[n]
      /\ rows' \in [DOMAIN rows \cup {next} -> Rows]
      /\ next \in 1..MaxSequence
  <2>1. rows' = [n \in DOMAIN rows \cup {next} |-> IF n = next THEN row ELSE rows[n]]
    BY Zenon DEF Commit
  <2>2. next \notin DOMAIN rows /\ next \in 1..MaxSequence
    BY <1>1, BootBounds DEF Commit
  <2>3. rows \in [DOMAIN rows -> Rows]
    BY DEF IInv, TypeOK
  <2> HIDE DEF next, row
  <2> QED
    BY <1>2, <2>1, <2>2, <2>3
<1>4. \A n \in DOMAIN rows' : Top(n)' => n = next
  <2> SUFFICES ASSUME NEW n \in DOMAIN rows', Top(n)' PROVE n = next
    OBVIOUS
  <2>1. n >= next
    BY <1>3 DEF Top
  <2> QED
    BY <1>1, <1>3, <2>1
<1>5. /\ UNCHANGED <<script, identity, control, program, pc, newSchema, born, opens, damage>>
      /\ marker'
  BY DEF Commit
<1>6. TypeOK'
  <2> HIDE DEF next
  <2> QED
    BY <1>2, <1>3, <1>5 DEF IInv, TypeOK
<1>7. RowsInv'
  <2>1. \E n \in (DOMAIN rows \cup {0})' : \A m \in DOMAIN rows' : n >= m
    <3>1. \A m \in DOMAIN rows' : next >= m
      BY <1>1, <1>3
    <3> QED
      BY <1>3, <3>1
  <2>2. \A n \in DOMAIN rows' : Top(n)' =>
           /\ rows'[n].version = program
           /\ rows'[n].content = committed'
           /\ rows'[n].intact
    <3>1. row.version = program /\ row.content = committed' /\ row.intact
      BY <1>2
    <3> HIDE DEF next, row
    <3> QED
      BY <1>3, <1>4, <3>1
  <2>3. ~Empty'
    BY <1>3 DEF Empty
  <2> QED
    BY <1>2, <1>5, <2>1, <2>2, <2>3 DEF RowsInv
<1> QED
  BY <1>6, <1>7

\* The newest row is never pruned.
LEMMA PruneKeepsRows ==
    ASSUME IInv, Prune
    PROVE  TypeOK' /\ RowsInv'
<1> DEFINE Above(k) == {m \in DOMAIN rows : m > k}
           kept == {k \in DOMAIN rows : Cardinality(Above(k)) < KeepLatest}
<1>1. rows' = [n \in kept |-> rows[n]]
  BY DEF Prune
<1>2. ~Empty => NewestSequence \in kept
  <2> SUFFICES ASSUME ~Empty PROVE NewestSequence \in kept
    OBVIOUS
  <2>1. Top(NewestSequence) /\ NewestSequence \in Nat
    BY NewestIsTop DEF IInv
  <2>2. Above(NewestSequence) = {}
    BY <2>1, BootBounds DEF Top, IInv, TypeOK
  <2>3. Cardinality(Above(NewestSequence)) = 0
    BY <2>2, FS_EmptySet
  <2> QED
    BY <2>1, <2>3, KeepLatestAssumption DEF Top
<1>3. /\ DOMAIN rows' \subseteq DOMAIN rows
      /\ \A n \in DOMAIN rows' : rows'[n] = rows[n]
      /\ ~Empty => NewestSequence \in DOMAIN rows'
      /\ rows' \in [DOMAIN rows' -> Rows]
  <2>1. rows \in [DOMAIN rows -> Rows] /\ kept \subseteq DOMAIN rows
    BY DEF IInv, TypeOK
  <2> HIDE DEF kept
  <2> QED
    BY <1>1, <1>2, <2>1
<1>4. UNCHANGED <<script, identity, marker, control, process, history>>
  BY DEF Prune
<1>5. TypeOK'
  BY <1>3, <1>4 DEF IInv, TypeOK, process, history
<1>6. RowsInv'
  <2>1. Empty => Empty'
    BY <1>3 DEF Empty
  <2>2. ~Empty => ~Empty'
    BY <1>3 DEF Empty
  <2>3. \A m \in DOMAIN rows : NewestSequence >= m /\ m \in Nat
    BY NewestIsTop, BootBounds DEF IInv, TypeOK
  <2>4. Empty => NewestSequence = 0
    BY NewestIsTop DEF IInv
  <2>5. \E n \in (DOMAIN rows \cup {0})' : \A m \in DOMAIN rows' : n >= m
    <3>1. NewestSequence \in DOMAIN rows' \cup {0}
      BY <1>3, <2>4
    <3> QED
      BY <1>3, <2>3, <3>1
  <2>6. \A n \in DOMAIN rows' : Top(n)' => Top(n)
    <3> SUFFICES ASSUME NEW n \in DOMAIN rows', Top(n)'
                 PROVE  \A m \in DOMAIN rows : n >= m
      BY <1>3 DEF Top
    <3>1. n >= NewestSequence /\ n \in Nat /\ NewestSequence \in Nat
      <4>1. ~Empty
        BY <1>3 DEF Empty
      <4> QED
        BY <1>3, <2>3, <4>1, NewestIsTop DEF Top, IInv
    <3> QED
      BY <2>3, <3>1
  <2>7. /\ RowsInv
        /\ identity' = identity /\ marker' = marker /\ committed' = committed
        /\ damage' = damage
    BY <1>4 DEF IInv, history
  <2> QED
    BY <1>3, <2>1, <2>2, <2>5, <2>6, <2>7 DEF RowsInv
<1> QED
  BY <1>5, <1>6

-----------------------------------------------------------------------------
(* The other steps *)

\* Damage from outside only widens what is refused.
LEMMA DamageKeepsIInv ==
    ASSUME IInv, Damage
    PROVE  IInv'
<1>1. /\ UNCHANGED <<script, marker, control, process, born, committed, opens>>
      /\ damage' = damage + 1 /\ damage < MaxDamage /\ pc = "down"
  BY DEF Damage
<1>2. damage' \in 0..MaxDamage /\ damage' # 0
  BY <1>1, BootBounds DEF IInv, TypeOK
<1>3. CASE rows' = <<>> /\ identity' = identity
  <2>1. DOMAIN rows' = {} /\ rows' \in [DOMAIN rows' -> Rows]
    BY <1>3
  <2> QED
    BY <1>1, <1>2, <1>3, <2>1 DEF IInv, TypeOK, RowsInv, BirthInv, ProgramInv, OneSubject,
       BornMeansOpenable, Empty, process
<1>4. CASE identity' = NoVersion /\ rows' = rows
  BY <1>1, <1>2, <1>4 DEF IInv, TypeOK, RowsInv, BirthInv, ProgramInv, OneSubject,
     BornMeansOpenable, Empty, Top, process
<1>5. ASSUME NEW n \in DOMAIN rows, rows' = [rows EXCEPT ![n].intact = FALSE],
             identity' = identity
      PROVE  IInv'
  <2>1. rows \in [DOMAIN rows -> Rows]
    BY DEF IInv, TypeOK
  <2>2. /\ DOMAIN rows' = DOMAIN rows
        /\ rows' \in [DOMAIN rows -> Rows]
        /\ \A m \in DOMAIN rows : /\ rows'[m].version = rows[m].version
                                  /\ rows'[m].content = rows[m].content
                                  /\ rows'[m].intact => rows[m].intact
    BY <1>5, <2>1 DEF Rows
  <2>3. TypeOK' /\ BirthInv' /\ ProgramInv'
    BY <1>1, <1>2, <1>5, <2>2 DEF IInv, TypeOK, BirthInv, ProgramInv, OneSubject,
       BornMeansOpenable, Empty, process
  <2>4. RowsInv'
    BY <1>1, <1>2, <1>5, <2>2 DEF IInv, RowsInv, Empty, Top
  <2> QED
    BY <2>3, <2>4 DEF IInv
<1> QED
  BY <1>3, <1>4, <1>5 DEF Damage

\* No refusal meets an undamaged life of a supported version.
LEMMA RefusalsKeepIInv ==
    ASSUME IInv,
           RefuseTables \/ RefuseSchemaVersion \/ RefuseIdentity \/ RefuseSnapshot
    PROVE  IInv'
<1>1. /\ UNCHANGED <<store, program, newSchema, content, history>>
      /\ pc' = "refused" /\ pc # "down"
  BY DEF RefuseTables, RefuseSchemaVersion, RefuseIdentity, RefuseSnapshot, Refuse
<1>2. ASSUME identity # NoVersion, damage = 0
      PROVE  ~Supported
  <2>1. Readable
    BY <1>2, UndamagedIsReadable DEF IInv
  <2>2. script = Complete
    BY <1>2 DEF IInv, TypeOK, BirthInv, Complete
  <2> QED
    BY <1>2, <2>1, <2>2 DEF RefuseTables, RefuseSchemaVersion, RefuseIdentity, RefuseSnapshot,
       Complete, Tables, WithVersion
<1>3. TypeOK'
  BY <1>1 DEF IInv, TypeOK, store, history
<1>4. RowsInv' /\ BirthInv'
  BY <1>1 DEF IInv, RowsInv, BirthInv, OneSubject, Empty, Top, store, history
<1>5. ProgramInv'
  BY <1>1, <1>2 DEF IInv, ProgramInv, BornMeansOpenable, Supported, store, history
<1> QED
  BY <1>3, <1>4, <1>5 DEF IInv

LEMMA InitIInv == Init => IInv
<1> SUFFICES ASSUME Init PROVE IInv
  OBVIOUS
<1>1. DOMAIN rows = {} /\ rows \in [DOMAIN rows -> Rows]
  BY DEF Init
<1>2. TypeOK
  <2>1. DOMAIN rows \subseteq 1..MaxSequence
    BY <1>1
  <2>2. opens \in 0..MaxOpens /\ damage \in 0..MaxDamage /\ script \in 0..Complete
    BY BootBounds DEF Init, Complete
  <2>3. identity \in IF pc \in {"snapshot", "equip", "up"} THEN Versions
                    ELSE Versions \cup {NoVersion}
    BY DEF Init
  <2>4. /\ marker \in BOOLEAN /\ control \in BOOLEAN /\ newSchema \in BOOLEAN
        /\ program \in Versions \cup {NoVersion}
        /\ content \in Nat /\ born \in Nat /\ committed \in Nat
        /\ pc = "down"
    BY DEF Init
  <2> QED
    BY <1>1, <2>1, <2>2, <2>3, <2>4 DEF TypeOK
<1>3. RowsInv
  BY <1>1 DEF Init, RowsInv, Empty
<1>4. BirthInv /\ ProgramInv
  BY <1>1 DEF Init, BirthInv, ProgramInv, OneSubject, BornMeansOpenable, Empty
<1> QED
  BY <1>2, <1>3, <1>4 DEF IInv

LEMMA NextIInv == IInv /\ [Next]_vars => IInv'
<1> SUFFICES ASSUME IInv, [Next]_vars PROVE IInv'
  OBVIOUS
<1> USE DEF Complete
<1>1. ASSUME NEW v \in Versions, Open(v)
      PROVE  IInv'
  <2>1. opens' \in 0..MaxOpens
    BY <1>1, BootBounds DEF Open, IInv, TypeOK
  <2> QED
    BY <1>1, <2>1 DEF Open, IInv, TypeOK, RowsInv, BirthInv, ProgramInv, OneSubject,
       BornMeansOpenable, Empty, Top, store
<1>2. CASE InspectTables
  <2>1. /\ UNCHANGED <<store, content, program, history>>
        /\ pc = "tables"
        /\ \/ script = 0 /\ newSchema' = TRUE /\ pc' = "create"
           \/ script >= Tables /\ newSchema' = FALSE /\ pc' = "version"
    <3>1. script \in Nat
      BY DEF IInv, TypeOK
    <3>2. script >= Tables => (script = 0) = FALSE
      BY <3>1 DEF Tables
    <3>3. script = 0 => (script = 0) = TRUE
      OBVIOUS
    <3> QED
      BY <1>2, <3>2, <3>3 DEF InspectTables, GoOn
  <2>2. TypeOK' /\ RowsInv'
    BY <2>1 DEF IInv, TypeOK, RowsInv, Empty, Top, store, history
  <2>3. BirthInv' /\ ProgramInv'
    BY <2>1 DEF IInv, TypeOK, BirthInv, ProgramInv, OneSubject, BornMeansOpenable, Empty,
       store, history
  <2> QED
    BY <2>2, <2>3 DEF IInv
<1>3. CASE CreateStatement
  <2>1. script' \in 0..Complete /\ pc' = (IF script' = Complete THEN "version" ELSE "create")
        /\ born = 0 /\ newSchema
    BY <1>3 DEF CreateStatement, GoOn, IInv, TypeOK, BirthInv
  <2> QED
    BY <1>3, <2>1 DEF CreateStatement, GoOn, IInv, TypeOK, RowsInv, BirthInv, ProgramInv,
       OneSubject, BornMeansOpenable, Empty, Top, history
<1>4. CASE CheckSchemaVersion
  BY <1>4 DEF CheckSchemaVersion, GoOn, IInv, TypeOK, RowsInv, BirthInv, ProgramInv,
     OneSubject, BornMeansOpenable, Empty, Top, store, history
<1>5. CASE CreateIdentity
  <2>1. born = 0 /\ script = Complete /\ Empty /\ born' = 1
    BY <1>5 DEF CreateIdentity, MayCreateIdentity, IInv, BirthInv
  <2> QED
    BY <1>5, <2>1 DEF CreateIdentity, FirstVersion, IInv, TypeOK, RowsInv, BirthInv, ProgramInv,
       OneSubject, BornMeansOpenable, Empty, Top
<1>6. CASE KeepIdentity
  BY <1>6 DEF KeepIdentity, GoOn, IInv, TypeOK, RowsInv, BirthInv, ProgramInv,
     OneSubject, BornMeansOpenable, Empty, Top, store, history
<1>7. CASE Upgrade
  <2>1. TypeOK' /\ RowsInv'
    BY <1>7, UpgradeKeepsRows
  <2>2. identity # NoVersion /\ program \in Versions
    BY <1>7, VersionAssumption DEF Upgrade, IInv, ProgramInv
  <2>3. BirthInv' /\ ProgramInv'
    BY <1>7, <2>2 DEF Upgrade, GoOn, IInv, BirthInv, ProgramInv, OneSubject,
       BornMeansOpenable, history
  <2> QED
    BY <2>1, <2>3 DEF IInv
<1>8. CASE ReadSnapshot
  <2>1. content' = committed /\ content' \in Nat
    BY <1>8, ReadableMeans DEF ReadSnapshot, IInv, TypeOK, RowsInv
  <2> QED
    BY <1>8, <2>1 DEF ReadSnapshot, GoOn, IInv, TypeOK, RowsInv, BirthInv, ProgramInv,
       OneSubject, BornMeansOpenable, Empty, Top, store, history
<1>9. CASE Equip
  BY <1>9 DEF Equip, GoOn, IInv, TypeOK, RowsInv, BirthInv, ProgramInv,
     OneSubject, BornMeansOpenable, Empty, Top, history
<1>10. CASE Commit
  <2>1. TypeOK' /\ RowsInv'
    BY <1>10, CommitKeepsRows
  <2>2. identity # NoVersion
    BY <1>10, VersionAssumption DEF Commit, IInv, ProgramInv
  <2>3. BirthInv' /\ ProgramInv'
    BY <1>10, <2>2 DEF Commit, IInv, BirthInv, ProgramInv, OneSubject, BornMeansOpenable
  <2> QED
    BY <2>1, <2>3 DEF IInv
<1>11. CASE Prune
  <2>1. TypeOK' /\ RowsInv'
    BY <1>11, PruneKeepsRows
  <2>2. UNCHANGED <<script, identity, marker, control, process, history>> /\ pc = "up"
    BY <1>11 DEF Prune
  <2>3. identity # NoVersion
    BY <2>2, VersionAssumption DEF IInv, ProgramInv
  <2>4. BirthInv' /\ ProgramInv'
    BY <2>2, <2>3 DEF IInv, BirthInv, ProgramInv, OneSubject, BornMeansOpenable, process, history
  <2> QED
    BY <2>1, <2>4 DEF IInv
<1>12. CASE Stop
  BY <1>12 DEF Stop, IInv, TypeOK, RowsInv, BirthInv, ProgramInv,
     OneSubject, BornMeansOpenable, Empty, Top, store, history
<1>13. CASE Damage
  BY <1>13, DamageKeepsIInv
<1>14. CASE RefuseTables \/ RefuseSchemaVersion \/ RefuseIdentity \/ RefuseSnapshot
  BY <1>14, RefusalsKeepIInv
<1>15. CASE UNCHANGED vars
  BY <1>15 DEF vars, IInv, TypeOK, RowsInv, BirthInv, ProgramInv, OneSubject,
     BornMeansOpenable, Supported, Empty, Top, store, process, history
<1> QED
  BY <1>1, <1>2, <1>3, <1>4, <1>5, <1>6, <1>7, <1>8, <1>9, <1>10, <1>11, <1>12, <1>13,
     <1>14, <1>15 DEF Next

-----------------------------------------------------------------------------
(* The theorems *)

\* The inductive invariant of the open: what a first boot, an upgrade, a pruning
\* and damage leave of identity, marker and newest checkpoint.
THEOREM Inductive == Spec => []IInv
<1> QED
  BY InitIInv, NextIInv, PTL DEF Spec

\* Type correctness of the tables and of the open.
THEOREM TypeCorrect == Spec => []TypeOK
<1>1. IInv => TypeOK
  BY DEF IInv
<1> QED
  BY <1>1, Inductive, PTL

\* One database gives out one subject ID, however often its first boot is cut
\* off and whatever it loses (_read_or_create_identity).
THEOREM OneLife == Spec => []OneSubject
<1>1. IInv => OneSubject
  BY DEF IInv, BirthInv
<1> QED
  BY <1>1, Inductive, PTL

\* A running life holds what was last committed (_read_latest_snapshot).
THEOREM NothingIsLost == Spec => []ResumesWhatWasCommitted
<1>1. IInv => ResumesWhatWasCommitted
  BY DEF IInv, ProgramInv, ResumesWhatWasCommitted
<1> QED
  BY <1>1, Inductive, PTL

\* Identity and newest checkpoint change configuration together
\* (_upgrade_configuration).
THEOREM VersionsAlwaysAgree == Spec => []VersionsAgree
<1>1. ASSUME IInv PROVE VersionsAgree
  <2> SUFFICES ASSUME identity # NoVersion, ~Empty PROVE NewestRow.version = identity
    BY DEF VersionsAgree
  <2>1. Top(NewestSequence) /\ NewestSequence \in DOMAIN rows
    BY <1>1, NewestIsTop DEF IInv, Top
  <2> QED
    BY <1>1, <2>1 DEF IInv, RowsInv, NewestRow
<1> QED
  BY <1>1, Inductive, PTL

\* An undamaged life is never refused by a program that supports it.
THEOREM LivesStayOpenable == Spec => []BornMeansOpenable
<1>1. IInv => BornMeansOpenable
  BY DEF IInv, ProgramInv
<1> QED
  BY <1>1, Inductive, PTL

------------------------------------------------------------------------------
(* The time *)

\* The startup opportunity is still to be taken or is running.
AtStartup ==
    \/ status = "not_started"
    \/ pending # None
    \/ step = "observe" /\ running.kind = "startup"

\* Before its first observation State is fresh or restored, and it is fresh
\* only if nothing was ever saved; a fresh State is in its startup.
Resuming ==
    /\ restored => saved # None /\ state = saved
    /\ up /\ AtStartup => restored \/ state.operating = "not_started"
    /\ up /\ saved # None => state.operating = "waiting"
    /\ saved # None => saved.operating = "waiting"
    /\ up => state.operating \in {"not_started", "waiting"}

\* The observations the next cycle starts from are those State has taken in.
Synchronised ==
    /\ step # "idle" => up
    /\ step = "observe" => running # None /\ status = "active" /\ running.wall = last.wall
    /\ step = "save" => status = "waiting" /\ state.operating = "waiting"
    /\ pending # None =>
          /\ step = "idle" /\ status = "active"
          /\ pending.kind = "startup" /\ pending.wall = last.wall
    /\ status \in {"active", "waiting"} => last # None
    /\ status = "waiting" =>
          /\ up /\ ~restored
          /\ state.operating = "waiting"
          /\ state.updatedAt = last.wall
    /\ step = "observe" /\ running.kind = "periodic" => ~restored /\ state.operating = "waiting"

\* The internal time that a running periodic lifecycle will lead to.
Ahead ==
    step = "observe" /\ running.kind = "periodic" =>
        Distance(state.elapsed + running.elapsed, running.wall - bornAt)
            <= Tolerance * uneven

\* State is never behind the newest checkpoint.
NotBehind == up /\ saved # None => state.elapsed >= saved.elapsed

ClockInv == ClockTypeOK /\ Resuming /\ Synchronised /\ Ahead /\ NotBehind /\ InternalFollowsWall

-----------------------------------------------------------------------------

\* One more uneven cycle allows one more tolerance.
LEMMA OneMore ==
    ASSUME NEW n \in Nat PROVE /\ Tolerance * n \in Nat
                               /\ Tolerance * (n + 1) = Tolerance * n + Tolerance
BY ToleranceAssumption

\* Advancing both counts by times that differ by d moves them apart by d at
\* most.
LEMMA DistanceAdds ==
    ASSUME NEW a \in Int, NEW b \in Int, NEW x \in Int, NEW y \in Int, NEW d \in Int,
           NEW e \in Int, Distance(a, b) <= d, Distance(y, x) <= e
    PROVE  Distance(a + x, b + y) <= d + e
BY DEF Distance

LEMMA FreshIsState == Fresh \in States /\ Fresh.operating = "not_started"
BY DEF Fresh, States

LEMMA Initially == ClockInit => ClockInv
<1> SUFFICES ASSUME ClockInit PROVE ClockInv
  OBVIOUS
<1>1. ClockTypeOK
  BY FreshIsState, ClockBounds DEF ClockInit, ClockTypeOK
<1>2. Resuming /\ Synchronised /\ Ahead /\ NotBehind /\ InternalFollowsWall
  BY DEF ClockInit, Resuming, Synchronised, Ahead, NotBehind, InternalFollowsWall, AtStartup
<1>. QED
  BY <1>1, <1>2 DEF ClockInv

\* The clocks are not read by what the invariant says.
LEMMA ClocksMove ==
    ASSUME ClockInv, Tick \/ Adjust \/ Reboot
    PROVE  ClockInv'
<1> USE DEF ClockInv, Resuming, Synchronised, Ahead, NotBehind, InternalFollowsWall,
            AtStartup, Drift, inProcess
<1>1. ClockTypeOK'
  BY ClockBounds DEF ClockTypeOK, Tick, Adjust, Reboot, Fault
<1>2. /\ saved' = saved /\ up' = up /\ status' = status /\ last' = last
      /\ pending' = pending /\ running' = running /\ state' = state
      /\ restored' = restored /\ step' = step /\ bornAt' = bornAt /\ uneven' = uneven
  BY DEF Tick, Adjust, Reboot
<1>3. Resuming' /\ Synchronised' /\ NotBehind'
  BY <1>2
<1>4. Ahead' /\ InternalFollowsWall'
  BY <1>2, Zenon
<1>. QED
  BY <1>1, <1>3, <1>4

LEMMA ProcessesChange ==
    ASSUME ClockInv, ProcessOpens \/ Quit \/ Unwind \/ CallerCatches \/ Die
    PROVE  ClockInv'
<1> USE DEF ClockInv, Resuming, Synchronised, Ahead, NotBehind, InternalFollowsWall,
            AtStartup, Drift, inProcess, clocks
<1>1. CASE ProcessOpens
  <2>1. ClockTypeOK'
    BY <1>1, FreshIsState DEF ProcessOpens, ClockTypeOK
  <2>2. saved # None => state' = saved /\ saved \in States
    BY <1>1 DEF ProcessOpens, ClockTypeOK
  <2>3. Resuming' /\ Synchronised' /\ Ahead'
    BY <1>1, <2>2 DEF ProcessOpens, Fresh, ClockTypeOK
  <2>4. NotBehind'
    BY <1>1, <2>2 DEF ProcessOpens, States
  <2>5. InternalFollowsWall'
    BY <1>1, <2>2 DEF ProcessOpens, Fresh
  <2>. QED
    BY <2>1, <2>3, <2>4, <2>5
<1>2. CASE Quit \/ Unwind \/ Die
  <2>0. Down /\ faults' \in Nat
    BY <1>2 DEF Quit, Unwind, Die, Fault, ClockTypeOK
  <2>1. ClockTypeOK'
    BY <2>0, FreshIsState DEF Down, ClockTypeOK
  <2>2. /\ up' = FALSE /\ status' = "stopped" /\ pending' = None
        /\ step' = "idle" /\ restored' = FALSE
        /\ saved' = saved /\ bornAt' = bornAt /\ uneven' = uneven
    BY <1>2 DEF Quit, Unwind, Die, Down
  <2>3. Resuming' /\ Synchronised' /\ Ahead' /\ NotBehind'
    BY <2>2
  <2>4. InternalFollowsWall'
    BY <2>2
  <2>. QED
    BY <2>1, <2>3, <2>4
<1>3. CASE CallerCatches
  <2>1. ClockTypeOK'
    BY <1>3 DEF CallerCatches, ClockTypeOK
  <2>. QED
    BY <1>3, <2>1 DEF CallerCatches
<1>. QED
  BY <1>1, <1>2, <1>3

LEMMA StartupBegins ==
    ASSUME ClockInv, Start \/ BeginStartup \/ RefuseCycle
    PROVE  ClockInv'
<1> USE DEF ClockInv, Resuming, Synchronised, Ahead, NotBehind, InternalFollowsWall,
            AtStartup, Drift, inProcess, clocks, Idle
<1>0. /\ Startup \in Opportunities /\ Now \in Observations
      /\ Startup.wall = Now.wall /\ Startup.kind = "startup"
      /\ Startup # None /\ Now # None
  BY NoneAssumption DEF ClockTypeOK, Startup, Now, Opportunities, Observations
<1>1. CASE Start
  <2>1. ClockTypeOK'
    BY <1>0, <1>1 DEF Start, ClockTypeOK
  <2>. QED
    BY <1>0, <1>1, <2>1 DEF Start
<1>2. CASE BeginStartup
  <2>1. ClockTypeOK'
    BY <1>0, <1>2 DEF BeginStartup, Runs, ClockTypeOK
  <2>2. /\ up /\ step' = "observe" /\ status' = "active" /\ pending' = None
        /\ running'.kind = "startup" /\ running' # None
        /\ UNCHANGED <<saved, up, state, restored, bornAt, uneven>>
    BY <1>0, <1>2 DEF BeginStartup, Runs, ClockTypeOK
  <2>3. running'.wall = last'.wall /\ last' # None
    BY <1>0, <1>2 DEF BeginStartup, Runs
  <2>4. restored \/ state.operating = "not_started"
    BY <1>2 DEF BeginStartup
  <2>. QED
    BY <2>1, <2>2, <2>3, <2>4
<1>3. CASE RefuseCycle
  <2>1. ClockTypeOK'
    BY <1>3 DEF RefuseCycle, ClockTypeOK
  <2>. QED
    BY <1>3, <2>1 DEF RefuseCycle
<1>. QED
  BY <1>1, <1>2, <1>3

LEMMA PeriodicBegins ==
    ASSUME ClockInv, BeginPeriodic
    PROVE  ClockInv'
<1> DEFINE opportunity ==
        [kind |-> "periodic", wall |-> wall, elapsed |-> mono - last.mono]
<1>1. last \in Observations /\ state \in States /\ Agrees
  BY DEF BeginPeriodic, ClockInv, ClockTypeOK, Synchronised
<1>2. /\ last.wall \in Nat /\ last.mono \in Nat
      /\ state.elapsed \in Nat /\ state.updatedAt \in Nat
      /\ wall \in Nat /\ mono \in Nat /\ uneven \in Nat /\ bornAt \in Nat
  BY <1>1 DEF Observations, States, ClockInv, ClockTypeOK
<1>3. opportunity \in Opportunities /\ opportunity # None /\ Now \in Observations
  BY <1>1, <1>2, NoneAssumption DEF Opportunities, Observations, Agrees, Now
<1>4. /\ running' = opportunity /\ pending' = None /\ status' = "active"
      /\ step' = "observe" /\ last' = Now
      /\ wall' = wall /\ mono' = mono /\ faults' = faults /\ saved' = saved
      /\ up' = up /\ state' = state /\ restored' = restored /\ healthy' = healthy
      /\ raised' = raised /\ bornAt' = bornAt
  BY DEF BeginPeriodic, Runs, clocks
<1>5. uneven' \in Nat /\ Tolerance * uneven <= Tolerance * uneven'
  BY <1>2, OneMore, ToleranceAssumption DEF BeginPeriodic
<1>6. /\ up /\ ~restored /\ status = "waiting"
      /\ state.operating = "waiting" /\ state.updatedAt = last.wall
  BY DEF BeginPeriodic, Idle, ClockInv, Synchronised
<1>7. ClockTypeOK'
  BY <1>3, <1>4, <1>5 DEF ClockInv, ClockTypeOK
<1>8. Resuming'
  BY <1>4, <1>6 DEF ClockInv, Resuming, AtStartup
<1>9. Synchronised'
  BY <1>3, <1>4, <1>6, NoneAssumption DEF ClockInv, Synchronised, Now
<1>10. Drift(state) <= Tolerance * uneven
  BY <1>6 DEF ClockInv, InternalFollowsWall
<1>11. Ahead'
  <2>1. Distance(mono - last.mono, wall - last.wall) <= Tolerance
    BY <1>1, <1>2, ToleranceAssumption DEF Agrees, Distance
  <2>2. Distance(state.elapsed + (mono - last.mono),
                 (state.updatedAt - bornAt) + (wall - last.wall)) <= Tolerance * uneven'
    <3>1. CASE wall - last.wall = mono - last.mono
      <4>1. uneven' = uneven
        BY <3>1 DEF BeginPeriodic
      <4>. QED
        BY <1>2, <1>10, <3>1, <4>1, OneMore DEF Distance, Drift
    <3>2. CASE wall - last.wall # mono - last.mono
      <4>1. uneven' = uneven + 1
        BY <3>2 DEF BeginPeriodic
      <4>2. Tolerance * uneven' = Tolerance * uneven + Tolerance
        BY <1>2, <4>1, OneMore
      <4>3. /\ state.updatedAt - bornAt \in Int /\ mono - last.mono \in Int
            /\ wall - last.wall \in Int /\ Tolerance * uneven \in Int
        BY <1>2, OneMore
      <4>. QED
        BY <1>2, <1>10, <2>1, <4>2, <4>3, ToleranceAssumption DEF Drift, Distance
    <3>. QED
      BY <3>1, <3>2
  <2>3. (state.updatedAt - bornAt) + (wall - last.wall) = wall - bornAt
    BY <1>2, <1>6
  <2>. QED
    BY <1>4, <2>2, <2>3 DEF Ahead
<1>12. NotBehind'
  BY <1>4 DEF ClockInv, NotBehind
<1>13. InternalFollowsWall'
  <2>1. saved # None => saved \in States
    BY DEF ClockInv, ClockTypeOK
  <2>2. /\ Tolerance * uneven \in Int /\ Tolerance * uneven' \in Int
    BY <1>2, <1>5, OneMore
  <2>3. saved # None => Drift(saved) \in Int /\ Drift(saved)' = Drift(saved)
    BY <1>2, <1>4, <2>1 DEF Drift, Distance, States
  <2>4. Drift(state) \in Int /\ Drift(state)' = Drift(state)
    BY <1>2, <1>4 DEF Drift, Distance
  <2>. QED
    BY <1>4, <1>5, <1>10, <2>2, <2>3, <2>4 DEF ClockInv, InternalFollowsWall
<1>. QED
  BY <1>7, <1>8, <1>9, <1>11, <1>12, <1>13 DEF ClockInv

\* What the lifecycle that runs leads to, in the three states it can find.
LEMMA LifecycleAdvances ==
    ASSUME ClockInv, RunLifecycle
    PROVE  /\ state' \in States /\ state'.operating = "waiting"
           /\ state'.updatedAt = running.wall
           /\ bornAt' \in Nat
           /\ Drift(state)' <= Tolerance * uneven
           /\ state.operating = "waiting" => state'.elapsed >= state.elapsed
           /\ saved # None => bornAt' = bornAt /\ state.operating = "waiting"
<1>1. /\ running \in Opportunities /\ state \in States
      /\ state.operating \in {"not_started", "waiting"}
      /\ up /\ status = "active" /\ saved \in States \cup {None}
  BY DEF ClockInv, ClockTypeOK, Synchronised, RunLifecycle
<1>2. /\ running.wall \in Nat /\ running.elapsed \in Nat
      /\ running.kind \in {"startup", "periodic"}
      /\ state.elapsed \in Nat /\ state.updatedAt \in Nat
      /\ uneven \in Nat /\ bornAt \in Nat /\ Tolerance * uneven \in Nat
      /\ restored \in BOOLEAN
  BY <1>1, OneMore DEF Opportunities, States, ClockInv, ClockTypeOK
<1>3. CASE state.operating = "not_started"
  <2>1. saved = None
    BY <1>1, <1>3 DEF ClockInv, Resuming
  <2>2. /\ state' = [operating |-> "waiting", elapsed |-> 0, updatedAt |-> running.wall]
        /\ bornAt' = running.wall
    BY <1>3 DEF RunLifecycle, AfterLifecycle
  <2>3. Drift(state)' = 0
    BY <1>2, <2>2 DEF Drift, Distance
  <2>. QED
    BY <1>2, <1>3, <2>1, <2>2, <2>3 DEF States
<1>4. CASE state.operating = "waiting" /\ restored
  <2>1. running.wall >= state.updatedAt
    BY <1>4 DEF RunLifecycle, AcceptsRestart
  <2>2. /\ state' = [operating |-> "waiting",
                      elapsed |-> state.elapsed + (running.wall - state.updatedAt),
                      updatedAt |-> running.wall]
        /\ bornAt' = bornAt
    BY <1>4 DEF RunLifecycle, AfterLifecycle, Passed
  <2>3. saved # None /\ state = saved /\ Drift(state) <= Tolerance * uneven
    BY <1>1, <1>4 DEF ClockInv, Resuming, InternalFollowsWall
  <2>4. Drift(state)' = Drift(state)
    BY <1>2, <2>1, <2>2 DEF Drift, Distance
  <2>. QED
    BY <1>2, <1>4, <2>1, <2>2, <2>3, <2>4 DEF States
<1>5. CASE state.operating = "waiting" /\ ~restored
  <2>1. running.kind = "periodic"
    BY <1>1, <1>2, <1>5 DEF ClockInv, Resuming, AtStartup, RunLifecycle
  <2>2. /\ state' = [operating |-> "waiting",
                      elapsed |-> state.elapsed + running.elapsed,
                      updatedAt |-> running.wall]
        /\ bornAt' = bornAt
    BY <1>5 DEF RunLifecycle, AfterLifecycle, Passed
  <2>3. Drift(state)' = Distance(state.elapsed + running.elapsed, running.wall - bornAt)
    BY <2>2 DEF Drift
  <2>4. Drift(state)' <= Tolerance * uneven
    BY <2>1, <2>3 DEF ClockInv, Ahead, RunLifecycle
  <2>. QED
    BY <1>2, <1>5, <2>2, <2>4 DEF States
<1>. QED
  BY <1>1, <1>3, <1>4, <1>5

LEMMA LifecycleRuns ==
    ASSUME ClockInv, RunLifecycle
    PROVE  ClockInv'
<1>1. /\ state' \in States /\ state'.operating = "waiting"
      /\ state'.updatedAt = running.wall
      /\ bornAt' \in Nat
      /\ Drift(state)' <= Tolerance * uneven
      /\ state.operating = "waiting" => state'.elapsed >= state.elapsed
      /\ saved # None => bornAt' = bornAt /\ state.operating = "waiting"
  BY LifecycleAdvances
<1>2. /\ restored' = FALSE /\ status' = "waiting" /\ running' = None /\ step' = "save"
      /\ wall' = wall /\ mono' = mono /\ faults' = faults /\ saved' = saved
      /\ up' = up /\ last' = last /\ pending' = pending /\ healthy' = healthy
      /\ raised' = raised /\ uneven' = uneven
      /\ step = "observe"
  BY DEF RunLifecycle, clocks
<1>3. /\ up /\ running.wall = last.wall /\ last # None /\ pending = None
      /\ status = "active"
  BY <1>2 DEF ClockInv, Synchronised
<1>4. ClockTypeOK'
  BY <1>1, <1>2 DEF ClockInv, ClockTypeOK
<1>5. Resuming'
  BY <1>1, <1>2, <1>3 DEF ClockInv, Resuming, AtStartup
<1>6. Synchronised' /\ Ahead'
  BY <1>1, <1>2, <1>3 DEF ClockInv, Synchronised, Ahead
<1>7. NotBehind'
  <2>1. saved # None => saved.elapsed \in Nat
    BY DEF ClockInv, ClockTypeOK, States
  <2>2. state.elapsed \in Nat /\ state'.elapsed \in Nat
    BY <1>1 DEF ClockInv, ClockTypeOK, States
  <2>. QED
    BY <1>1, <1>2, <1>3, <2>1, <2>2 DEF ClockInv, NotBehind
<1>8. InternalFollowsWall'
  <2>1. saved # None => Drift(saved)' = Drift(saved)
    BY <1>1, <1>2 DEF Drift
  <2>. QED
    BY <1>1, <1>2, <2>1 DEF ClockInv, InternalFollowsWall
<1>. QED
  BY <1>4, <1>5, <1>6, <1>7, <1>8 DEF ClockInv

LEMMA CallsEnd ==
    ASSUME ClockInv, RefuseRestart \/ Checkpoint \/ CheckpointFails
    PROVE  ClockInv'
<1> USE DEF ClockInv, Resuming, Synchronised, Ahead, NotBehind, InternalFollowsWall,
            AtStartup, inProcess, clocks
<1>1. CASE RefuseRestart
  <2>1. ClockTypeOK'
    BY <1>1 DEF RefuseRestart, ClockTypeOK
  <2>2. /\ step = "observe" /\ step' = "idle" /\ status' = status /\ status = "active"
        /\ pending' = pending /\ pending = None /\ last' = last /\ up' = up
        /\ restored' = restored /\ state' = state /\ saved' = saved
        /\ bornAt' = bornAt /\ uneven' = uneven
    BY <1>1 DEF RefuseRestart
  <2>3. Resuming' /\ Synchronised' /\ Ahead' /\ NotBehind'
    BY <2>2
  <2>4. InternalFollowsWall'
    BY <2>2 DEF Drift
  <2>. QED
    BY <2>1, <2>3, <2>4
<1>2. CASE Checkpoint
  <2>1. ClockTypeOK'
    BY <1>2 DEF Checkpoint, ClockTypeOK
  <2>2. /\ step = "save" /\ step' = "idle" /\ up /\ status = "waiting"
        /\ saved' = state /\ state.operating = "waiting" /\ ~restored
        /\ state # None /\ state.elapsed \in Nat
        /\ status' = status /\ pending' = pending /\ pending = None /\ last' = last
        /\ up' = up /\ restored' = restored /\ state' = state /\ running' = running
        /\ bornAt' = bornAt /\ uneven' = uneven
    BY <1>2, NoneAssumption DEF Checkpoint, ClockTypeOK, States
  <2>3. Resuming' /\ Synchronised' /\ Ahead'
    BY <2>2
  <2>4. NotBehind'
    BY <2>2
  <2>5. InternalFollowsWall'
    BY <2>2 DEF Drift
  <2>. QED
    BY <2>1, <2>3, <2>4, <2>5
<1>3. CASE CheckpointFails
  <2>0. faults' \in Nat
    <3>1. CASE Savable
      BY <1>3, <3>1 DEF CheckpointFails, Fault, ClockTypeOK
    <3>2. CASE ~Savable
      BY <1>3, <3>2 DEF CheckpointFails, ClockTypeOK
    <3>. QED
      BY <3>1, <3>2
  <2>1. ClockTypeOK'
    BY <1>3, <2>0 DEF CheckpointFails, ClockTypeOK
  <2>2. /\ step = "save" /\ step' = "idle" /\ status = "waiting"
        /\ status' = status /\ pending' = pending /\ pending = None /\ last' = last
        /\ up' = up /\ restored' = restored /\ state' = state /\ saved' = saved
        /\ bornAt' = bornAt /\ uneven' = uneven
    BY <1>3 DEF CheckpointFails
  <2>3. Resuming' /\ Synchronised' /\ Ahead' /\ NotBehind'
    BY <2>2
  <2>4. InternalFollowsWall'
    BY <2>2 DEF Drift
  <2>. QED
    BY <2>1, <2>3, <2>4
<1>. QED
  BY <1>1, <1>2, <1>3

LEMMA Stuttering ==
    ASSUME ClockInv, UNCHANGED clockVars
    PROVE  ClockInv'
<1>1. /\ wall' = wall /\ mono' = mono /\ faults' = faults /\ saved' = saved
      /\ up' = up /\ status' = status /\ last' = last /\ pending' = pending
      /\ running' = running /\ state' = state /\ restored' = restored
      /\ healthy' = healthy /\ step' = step /\ raised' = raised
      /\ bornAt' = bornAt /\ uneven' = uneven
  BY DEF clockVars, clocks, inProcess
<1>2. ClockTypeOK'
  BY <1>1 DEF ClockInv, ClockTypeOK
<1>3. Resuming' /\ Synchronised' /\ Ahead' /\ NotBehind'
  BY <1>1 DEF ClockInv, Resuming, Synchronised, Ahead, NotBehind, AtStartup
<1>4. InternalFollowsWall'
  BY <1>1 DEF ClockInv, InternalFollowsWall, Drift
<1>. QED
  BY <1>2, <1>3, <1>4 DEF ClockInv

-----------------------------------------------------------------------------

\* Every reachable state satisfies the inductive invariant: State is fresh,
\* restored or synchronised with the runtime's last observation, and never
\* behind the newest checkpoint.
THEOREM ClockInductive == ClockSpec => []ClockInv
<1>1. ClockInv /\ [ClockNext]_clockVars => ClockInv'
  BY ClocksMove, ProcessesChange, StartupBegins, PeriodicBegins, LifecycleRuns,
     CallsEnd, Stuttering DEF ClockNext, RunTimeCycle, Program
<1>. QED
  BY Initially, <1>1, PTL DEF ClockSpec

\* Type correctness for every tolerance and all bounds.
THEOREM ClockTypeCorrect == ClockSpec => []ClockTypeOK
BY ClockInductive, PTL DEF ClockInv

\* The internal time, saved or in the running process, is the wall-clock age
\* of the life up to one tolerance for each uneven cycle, for any number of
\* cycles, adjustments, deaths and restarts.
THEOREM TimeFollowsWall == ClockSpec => []InternalFollowsWall
BY ClockInductive, PTL DEF ClockInv

\* Internal time never runs back, in a process or between checkpoints.
THEOREM NeverRunsBack == ClockSpec => TimeNeverRunsBack
<1>1. ASSUME ClockInv, [ClockNext]_clockVars PROVE GoesForward \/ UNCHANGED clockVars
  <2> USE DEF GoesForward
  <2>1. /\ saved # None => saved.elapsed \in Nat
        /\ state.elapsed \in Nat
    BY <1>1 DEF ClockInv, ClockTypeOK, States
  <2>2. CASE RunLifecycle
    <3>1. /\ saved' = saved /\ state'.operating = "waiting"
          /\ state.operating = "waiting" => state'.elapsed >= state.elapsed
      BY <1>1, <2>2, LifecycleAdvances DEF RunLifecycle
    <3>. QED
      BY <2>1, <3>1
  <2>3. CASE Checkpoint
    <3>1. /\ up /\ saved' = state /\ state' = state /\ state # None
      BY <1>1, <2>3, NoneAssumption DEF Checkpoint, inProcess, ClockInv, ClockTypeOK, Synchronised
    <3>. QED
      BY <1>1, <2>1, <3>1 DEF ClockInv, NotBehind
  <2>4. CASE ProcessOpens
    BY <2>1, <2>4 DEF ProcessOpens
  <2>5. CASE Quit \/ Unwind \/ Die
    BY <2>1, <2>5 DEF Quit, Unwind, Die, Down
  <2>6. CASE Tick \/ Adjust \/ Reboot \/ CallerCatches \/ Start \/ RunTimeCycle
             \/ RefuseRestart \/ CheckpointFails
    <3>1. saved' = saved /\ state' = state
      BY <2>6 DEF Tick, Adjust, Reboot, CallerCatches, Start, RunTimeCycle, BeginStartup,
                  BeginPeriodic, RefuseCycle, RefuseRestart, CheckpointFails, inProcess
    <3>. QED
      BY <2>1, <3>1
  <2>. QED
    BY <1>1, <2>2, <2>3, <2>4, <2>5, <2>6 DEF ClockNext, Program
<1>2. ClockInv /\ [ClockNext]_clockVars => [GoesForward]_clockVars
  BY <1>1
<1>. QED
  BY ClockInductive, <1>2, PTL DEF ClockSpec, TimeNeverRunsBack
==============================================================================
