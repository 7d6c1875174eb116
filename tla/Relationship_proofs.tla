-------------------------- MODULE Relationship_proofs --------------------------
(***************************************************************************)
(* Theorems about the two modules of the relationship continuity.          *)
(*                                                                         *)
(* About RelationshipWindow, for all budgets, all lengths and every number *)
(* of items and inputs: no reply is made from the words of an item that is *)
(* not given for its own input, as long as no restart raises the limit     *)
(* within the dialogue.  The budgets are sums over sets, and the items are *)
(* selected by a recursive function, so this part begins with what both    *)
(* compute.                                                                *)
(*                                                                         *)
(* About RelationshipChanges, for every set of contents, every time to     *)
(* live and every number of commands: the types, the finality of a         *)
(* withdrawal, that the records tell every version, and the refinement of  *)
(* ConfirmedChange.                                                        *)
(***************************************************************************)
EXTENDS RelationshipChanges, RelationshipWindow,
        FiniteSetTheorems, SequenceTheorems, WellFoundedInduction, TLAPS

------------------------------------------------------------------------------
(* Induction and sums *)

\* Induction over the natural numbers, about a set of them.
LEMMA AllNumbers ==
    ASSUME NEW G \in SUBSET Nat, 0 \in G, \A n \in G : n + 1 \in G
    PROVE  \A n \in Nat : n \in G
<1> DEFINE R == OpToRel(<, Nat)
           Rest == Nat \ G
<1>1. \A a, b \in Nat : <<a, b>> \in R <=> a < b
    BY DEF OpToRel
<1>2. IsWellFoundedOn(R, Nat)
    BY NatLessThanWellFounded
<1>3. SUFFICES ASSUME Rest # {} PROVE FALSE
    OBVIOUS
<1> HIDE DEF R
<1>4. PICK m \in Rest : \A n \in Rest : ~(<<n, m>> \in R)
    BY <1>2, <1>3, WFMin
<1>5. m \in Nat /\ m # 0 /\ m - 1 \in Nat
    OBVIOUS
<1>6. m - 1 \in G
    <2>1. m - 1 < m
        BY <1>5
    <2>2. <<m - 1, m>> \in R
        BY <1>1, <1>5, <2>1
    <2>3. m - 1 \notin Rest
        BY <1>4, <2>2
    <2> QED
        BY <1>5, <2>3
<1>7. (m - 1) + 1 \in G
    BY <1>6
<1> QED
    BY <1>5, <1>7

AnyOf(s) == CHOOSE x \in s : TRUE

\* The partial sums that SumFunctionOnSet is computed from.
IsTotal(g, f, S) ==
    g = [s \in SUBSET S |-> IF s = {} THEN 0 ELSE f[AnyOf(s)] + g[s \ {AnyOf(s)}]]

Total(f, S) == CHOOSE g : IsTotal(g, f, S)

LEMMA SumIsTotal ==
    ASSUME NEW f, NEW S
    PROVE  SumFunctionOnSet(f, S) = Total(f, S)[S]
    BY DEF SumFunctionOnSet, FoldFunctionOnSet, MapThenFoldSet, Total, IsTotal, AnyOf

LEMMA AnyOfIsIn ==
    ASSUME NEW s, s # {}
    PROVE  AnyOf(s) \in s
    BY DEF AnyOf

\* Subsets of at most k elements, and partial sums of them.
Layer(S, k) == {s \in SUBSET S : Cardinality(s) <= k}
Layered(f, S) ==
    {k \in Nat : \E h \in [Layer(S, k) -> Nat] : \A s \in Layer(S, k) :
        h[s] = IF s = {} THEN 0 ELSE f[AnyOf(s)] + h[s \ {AnyOf(s)}]}

LEMMA TotalExists ==
    ASSUME NEW f, NEW S, IsFiniteSet(S), \A x \in S : f[x] \in Nat
    PROVE  /\ Total(f, S) \in [SUBSET S -> Nat]
           /\ IsTotal(Total(f, S), f, S)
<1>1. ASSUME NEW s \in SUBSET S
      PROVE  /\ IsFiniteSet(s) /\ Cardinality(s) \in Nat
             /\ Cardinality(s) <= Cardinality(S)
             /\ s # {} => /\ AnyOf(s) \in s
                          /\ s \ {AnyOf(s)} \in SUBSET S
                          /\ Cardinality(s \ {AnyOf(s)}) = Cardinality(s) - 1
             /\ Cardinality(s) = 0 <=> s = {}
    <2>1. IsFiniteSet(s) /\ Cardinality(s) \in Nat /\ Cardinality(s) <= Cardinality(S)
        BY FS_Subset, FS_CardinalityType
    <2>2. Cardinality(s) = 0 <=> s = {}
        BY <2>1, FS_EmptySet
    <2>3. ASSUME s # {}
          PROVE  AnyOf(s) \in s /\ Cardinality(s \ {AnyOf(s)}) = Cardinality(s) - 1
        BY <2>1, <2>3, AnyOfIsIn, FS_RemoveElement
    <2> QED
        BY <2>1, <2>2, <2>3
<1>2. 0 \in Layered(f, S)
    <2>1. ASSUME NEW s \in Layer(S, 0)
          PROVE  s = {}
        <3>1. s \in SUBSET S /\ Cardinality(s) <= 0
            BY DEF Layer
        <3>2. Cardinality(s) \in Nat /\ (Cardinality(s) = 0 <=> s = {})
            BY <1>1, <3>1
        <3> QED
            BY <3>1, <3>2
    <2>2. [s \in Layer(S, 0) |-> 0] \in [Layer(S, 0) -> Nat]
        OBVIOUS
    <2> QED
        BY <2>1, <2>2 DEF Layered
<1>3. ASSUME NEW k \in Layered(f, S)
      PROVE  k + 1 \in Layered(f, S)
    <2>1. k \in Nat
        BY DEF Layered
    <2>2. PICK h \in [Layer(S, k) -> Nat] : \A s \in Layer(S, k) :
              h[s] = IF s = {} THEN 0 ELSE f[AnyOf(s)] + h[s \ {AnyOf(s)}]
        BY DEF Layered
    <2> DEFINE g == [s \in Layer(S, k + 1) |-> IF s = {} THEN 0 ELSE f[AnyOf(s)] + h[s \ {AnyOf(s)}]]
    <2>3. ASSUME NEW s \in Layer(S, k + 1), s # {}
          PROVE  AnyOf(s) \in S /\ s \ {AnyOf(s)} \in Layer(S, k)
        <3>1. s \in SUBSET S /\ Cardinality(s) <= k + 1
            BY DEF Layer
        <3>2. /\ Cardinality(s \ {AnyOf(s)}) = Cardinality(s) - 1 /\ Cardinality(s) \in Nat
              /\ AnyOf(s) \in s /\ s \ {AnyOf(s)} \in SUBSET S
            BY <1>1, <2>3, <3>1
        <3> QED
            BY <2>1, <3>1, <3>2 DEF Layer
    <2>4. g \in [Layer(S, k + 1) -> Nat]
        <3>1. ASSUME NEW s \in Layer(S, k + 1), s # {}
              PROVE  f[AnyOf(s)] + h[s \ {AnyOf(s)}] \in Nat
            BY <2>2, <2>3, <3>1
        <3> QED
            BY <3>1
    <2>5. ASSUME NEW s \in Layer(S, k + 1), s # {}
          PROVE  g[s \ {AnyOf(s)}] = h[s \ {AnyOf(s)}]
        <3> DEFINE r == s \ {AnyOf(s)}
        <3>1. r \in Layer(S, k)
            BY <2>3, <2>5
        <3>2. r \in Layer(S, k + 1)
            <4>1. r \in SUBSET S /\ Cardinality(r) <= k
                BY <3>1 DEF Layer
            <4>2. Cardinality(r) \in Nat
                BY <1>1, <4>1
            <4> QED
                BY <2>1, <4>1, <4>2 DEF Layer
        <3> HIDE DEF r
        <3>3. g[r] = h[r]
            BY <2>2, <3>1, <3>2
        <3> QED
            BY <3>3 DEF r
    <2>6. \A s \in Layer(S, k + 1) : g[s] = IF s = {} THEN 0 ELSE f[AnyOf(s)] + g[s \ {AnyOf(s)}]
        BY <2>5
    <2> HIDE DEF g
    <2> QED
        BY <2>1, <2>4, <2>6 DEF Layered
<1>4. Layered(f, S) \in SUBSET Nat
    BY DEF Layered
<1>5. Cardinality(S) \in Layered(f, S)
    BY <1>2, <1>3, <1>4, AllNumbers, FS_CardinalityType
<1>6. Layer(S, Cardinality(S)) = SUBSET S
    BY <1>1 DEF Layer
<1>7. PICK h \in [SUBSET S -> Nat] : \A s \in SUBSET S :
          h[s] = IF s = {} THEN 0 ELSE f[AnyOf(s)] + h[s \ {AnyOf(s)}]
    BY <1>5, <1>6 DEF Layered
<1>8. IsTotal(h, f, S)
    BY <1>7 DEF IsTotal
<1>9. IsTotal(Total(f, S), f, S)
    BY <1>8 DEF Total
<1>10. ASSUME NEW g, IsTotal(g, f, S)
       PROVE  g \in [SUBSET S -> Nat]
    <2>1. DOMAIN g = SUBSET S /\ \A s \in SUBSET S : g[s] = IF s = {} THEN 0 ELSE f[AnyOf(s)] + g[s \ {AnyOf(s)}]
        BY <1>10 DEF IsTotal
    <2> DEFINE G == {k \in Nat : \A s \in SUBSET S : Cardinality(s) <= k => g[s] \in Nat}
    <2>2. 0 \in G
        <3>1. ASSUME NEW s \in SUBSET S, Cardinality(s) <= 0
              PROVE  g[s] \in Nat
            <4>1. Cardinality(s) \in Nat /\ (Cardinality(s) = 0 <=> s = {})
                BY <1>1
            <4>2. s = {}
                BY <3>1, <4>1
            <4> QED
                BY <2>1, <4>2
        <3> QED
            BY <3>1
    <2>3. ASSUME NEW k \in G
          PROVE  k + 1 \in G
        <3>1. ASSUME NEW s \in SUBSET S, Cardinality(s) <= k + 1, s # {}
              PROVE  g[s] \in Nat
            <4>1. Cardinality(s \ {AnyOf(s)}) = Cardinality(s) - 1 /\ Cardinality(s) \in Nat
                  /\ AnyOf(s) \in S /\ s \ {AnyOf(s)} \in SUBSET S
                BY <1>1, <3>1
            <4>2. g[s \ {AnyOf(s)}] \in Nat
                <5> DEFINE r == s \ {AnyOf(s)}
                <5>1. r \in SUBSET S /\ Cardinality(r) <= k
                    BY <3>1, <4>1
                <5> HIDE DEF r
                <5>2. g[r] \in Nat
                    BY <5>1
                <5> QED
                    BY <5>2 DEF r
            <4>3. f[AnyOf(s)] \in Nat
                BY <4>1
            <4>4. g[s] = f[AnyOf(s)] + g[s \ {AnyOf(s)}]
                BY <2>1, <3>1
            <4> QED
                BY <4>2, <4>3, <4>4
        <3>2. ASSUME NEW s \in SUBSET S, Cardinality(s) <= k + 1
              PROVE  g[s] \in Nat
            <4>1. s = {} => g[s] = 0
                BY <2>1
            <4>2. s # {} => g[s] \in Nat
                BY <3>1, <3>2
            <4> QED
                BY <4>1, <4>2
        <3>3. k + 1 \in Nat
            OBVIOUS
        <3> QED
            BY <3>2, <3>3
    <2>4. Cardinality(S) \in G
        <3> HIDE DEF G
        <3>1. G \in SUBSET Nat
            BY DEF G
        <3> QED
            BY <2>2, <2>3, <3>1, AllNumbers, FS_CardinalityType
    <2>5. \A s \in SUBSET S : g[s] \in Nat
        BY <1>1, <2>4
    <2>6. g = [s \in SUBSET S |-> g[s]]
        BY <1>10 DEF IsTotal
    <2> QED
        BY <2>5, <2>6
<1> QED
    BY <1>9, <1>10

\* What a sum is: nothing, or any of its terms and the sum of the others.
LEMMA SumOfNothing ==
    ASSUME NEW f
    PROVE  SumFunctionOnSet(f, {}) = 0
<1>1. IsFiniteSet({})
    BY FS_EmptySet
<1>2. IsTotal(Total(f, {}), f, {})
    BY <1>1, TotalExists
<1> QED
    BY <1>2, SumIsTotal DEF IsTotal

\* A partial sum is the sum of its own set.
LEMMA PartialSum ==
    ASSUME NEW f, NEW S, IsFiniteSet(S), \A x \in S : f[x] \in Nat, NEW T \in SUBSET S
    PROVE  Total(f, S)[T] = SumFunctionOnSet(f, T)
<1> DEFINE g == Total(f, S)
           h == Total(f, T)
           G == {k \in Nat : \A s \in SUBSET T : Cardinality(s) = k => g[s] = h[s]}
<1>1. IsFiniteSet(T) /\ \A x \in T : f[x] \in Nat
    BY FS_Subset
<1>2. IsTotal(g, f, S) /\ IsTotal(h, f, T)
    BY <1>1, TotalExists
<1> HIDE DEF g, h
<1>3. \A s \in SUBSET T :
          /\ g[s] = IF s = {} THEN 0 ELSE f[AnyOf(s)] + g[s \ {AnyOf(s)}]
          /\ h[s] = IF s = {} THEN 0 ELSE f[AnyOf(s)] + h[s \ {AnyOf(s)}]
    BY <1>2 DEF IsTotal
<1>4. ASSUME NEW s \in SUBSET T
      PROVE  /\ IsFiniteSet(s) /\ Cardinality(s) \in Nat /\ (Cardinality(s) = 0 <=> s = {})
             /\ s # {} => /\ s \ {AnyOf(s)} \in SUBSET T
                          /\ Cardinality(s \ {AnyOf(s)}) = Cardinality(s) - 1
    <2>1. IsFiniteSet(s) /\ Cardinality(s) \in Nat
        BY <1>1, FS_Subset, FS_CardinalityType
    <2>2. Cardinality(s) = 0 <=> s = {}
        BY <2>1, FS_EmptySet
    <2>3. s # {} => Cardinality(s \ {AnyOf(s)}) = Cardinality(s) - 1
        BY <2>1, AnyOfIsIn, FS_RemoveElement
    <2> QED
        BY <2>1, <2>2, <2>3
<1>5. 0 \in G
    <2>1. \A s \in SUBSET T : Cardinality(s) = 0 => g[s] = h[s]
        BY <1>3, <1>4
    <2> QED
        BY <2>1
<1>6. ASSUME NEW k \in G
      PROVE  k + 1 \in G
    <2>1. k \in Nat
        OBVIOUS
    <2>2. ASSUME NEW s \in SUBSET T, Cardinality(s) = k + 1
          PROVE  g[s] = h[s]
        <3>1. s # {}
            <4>1. Cardinality(s) = 0 <=> s = {}
                BY <1>4
            <4> QED
                BY <2>1, <2>2, <4>1
        <3> DEFINE r == s \ {AnyOf(s)}
        <3>2. r \in SUBSET T /\ Cardinality(r) = Cardinality(s) - 1
            BY <1>4, <3>1
        <3>3. Cardinality(r) = k
            BY <2>1, <2>2, <3>2
        <3>4. g[s] = f[AnyOf(s)] + g[r] /\ h[s] = f[AnyOf(s)] + h[r]
            BY <1>3, <3>1
        <3> HIDE DEF r
        <3>5. g[r] = h[r]
            BY <3>2, <3>3
        <3> QED
            BY <3>4, <3>5
    <2>3. k + 1 \in Nat
        BY <2>1
    <2> QED
        BY <2>2, <2>3
<1>7. Cardinality(T) \in G
    <2> HIDE DEF G
    <2>1. G \in SUBSET Nat
        BY DEF G
    <2>2. Cardinality(T) \in Nat
        BY <1>1, FS_CardinalityType
    <2> QED
        BY <1>5, <1>6, <2>1, <2>2, AllNumbers
<1>8. g[T] = h[T]
    BY <1>7
<1> QED
    BY <1>8, SumIsTotal DEF g, h

LEMMA SumStep ==
    ASSUME NEW f, NEW S, IsFiniteSet(S), S # {}, \A x \in S : f[x] \in Nat
    PROVE  SumFunctionOnSet(f, S) = f[AnyOf(S)] + SumFunctionOnSet(f, S \ {AnyOf(S)})
<1>1. S \ {AnyOf(S)} \in SUBSET S /\ S \in SUBSET S
    OBVIOUS
<1> DEFINE g == Total(f, S)
<1>2. IsTotal(g, f, S)
    BY TotalExists
<1> HIDE DEF g
<1>3. g[S] = f[AnyOf(S)] + g[S \ {AnyOf(S)}]
    BY <1>1, <1>2 DEF IsTotal
<1>4. g[S] = SumFunctionOnSet(f, S)
    BY SumIsTotal DEF g
<1>5. g[S \ {AnyOf(S)}] = SumFunctionOnSet(f, S \ {AnyOf(S)})
    BY <1>1, PartialSum DEF g
<1> QED
    BY <1>3, <1>4, <1>5

LEMMA SumIsNat ==
    ASSUME NEW f, NEW S, IsFiniteSet(S), \A x \in S : f[x] \in Nat
    PROVE  SumFunctionOnSet(f, S) \in Nat
<1>1. Total(f, S) \in [SUBSET S -> Nat]
    BY TotalExists
<1>2. S \in SUBSET S
    OBVIOUS
<1>3. Total(f, S)[S] \in Nat
    BY <1>1, <1>2
<1> QED
    BY <1>3, SumIsTotal

LEMMA SumTakesOut ==
    ASSUME NEW f, NEW S, IsFiniteSet(S), \A x \in S : f[x] \in Nat, NEW x \in S
    PROVE  SumFunctionOnSet(f, S) = f[x] + SumFunctionOnSet(f, S \ {x})
<1> DEFINE G == {k \in Nat : \A T \in SUBSET S : Cardinality(T) = k =>
                    \A y \in T : SumFunctionOnSet(f, T) = f[y] + SumFunctionOnSet(f, T \ {y})}
<1>1. ASSUME NEW T \in SUBSET S
      PROVE  /\ IsFiniteSet(T) /\ Cardinality(T) \in Nat /\ (Cardinality(T) = 0 <=> T = {})
             /\ \A y \in T : f[y] \in Nat
             /\ \A y \in T : Cardinality(T \ {y}) = Cardinality(T) - 1
    BY FS_Subset, FS_CardinalityType, FS_EmptySet, FS_RemoveElement
<1>2. 0 \in G
    <2>1. \A T \in SUBSET S : Cardinality(T) = 0 => T = {}
        BY <1>1
    <2> QED
        BY <2>1
<1>3. ASSUME NEW k \in G
      PROVE  k + 1 \in G
    <2>1. ASSUME NEW T \in SUBSET S, Cardinality(T) = k + 1, NEW y \in T
          PROVE  SumFunctionOnSet(f, T) = f[y] + SumFunctionOnSet(f, T \ {y})
        <3> DEFINE c == AnyOf(T)
        <3>1. c \in T
            BY AnyOfIsIn
        <3> HIDE DEF c
        <3>2. SumFunctionOnSet(f, T) = f[c] + SumFunctionOnSet(f, T \ {c})
            BY <1>1, <2>1, SumStep DEF c
        <3>3. CASE y = c
            BY <3>2, <3>3
        <3>4. CASE y # c
            <4>1. /\ T \ {c} \in SUBSET S /\ Cardinality(T \ {c}) = k
                  /\ T \ {y} \in SUBSET S /\ Cardinality(T \ {y}) = k
                <5>1. Cardinality(T \ {c}) = Cardinality(T) - 1 /\ Cardinality(T \ {y}) = Cardinality(T) - 1
                    BY <1>1, <3>1
                <5>2. k \in Nat
                    OBVIOUS
                <5> QED
                    BY <2>1, <5>1, <5>2
            <4>2. SumFunctionOnSet(f, T \ {c}) = f[y] + SumFunctionOnSet(f, (T \ {c}) \ {y})
                <5>1. y \in T \ {c}
                    BY <3>4
                <5> QED
                    BY <4>1, <5>1
            <4>3. SumFunctionOnSet(f, T \ {y}) = f[c] + SumFunctionOnSet(f, (T \ {y}) \ {c})
                <5>1. c \in T \ {y}
                    BY <3>1, <3>4
                <5> QED
                    BY <4>1, <5>1
            <4> DEFINE rest == SumFunctionOnSet(f, (T \ {y}) \ {c})
            <4>4. (T \ {c}) \ {y} = (T \ {y}) \ {c}
                OBVIOUS
            <4>5. rest \in Nat
                BY <1>1, SumIsNat
            <4>6. f[c] \in Nat /\ f[y] \in Nat
                BY <3>1
            <4>7. SumFunctionOnSet(f, T \ {c}) = f[y] + rest /\ SumFunctionOnSet(f, T \ {y}) = f[c] + rest
                BY <4>2, <4>3, <4>4
            <4> HIDE DEF rest
            <4> QED
                BY <3>2, <4>5, <4>6, <4>7
        <3> QED
            BY <3>3, <3>4
    <2>2. k + 1 \in Nat
        OBVIOUS
    <2> QED
        BY <2>1, <2>2
<1>4. Cardinality(S) \in G
    <2> HIDE DEF G
    <2>1. G \in SUBSET Nat
        BY DEF G
    <2> QED
        BY <1>1, <1>2, <1>3, <2>1, AllNumbers
<1> QED
    BY <1>4

LEMMA SumGrows ==
    ASSUME NEW f, NEW S, IsFiniteSet(S), \A x \in S : f[x] \in Nat, NEW T \in SUBSET S
    PROVE  SumFunctionOnSet(f, T) <= SumFunctionOnSet(f, S)
<1> DEFINE G == {k \in Nat : \A U \in SUBSET S : T \subseteq U /\ Cardinality(U) = k =>
                    SumFunctionOnSet(f, T) <= SumFunctionOnSet(f, U)}
<1>1. ASSUME NEW U \in SUBSET S
      PROVE  /\ IsFiniteSet(U) /\ Cardinality(U) \in Nat /\ (Cardinality(U) = 0 <=> U = {})
             /\ \A y \in U : f[y] \in Nat
             /\ \A y \in U : Cardinality(U \ {y}) = Cardinality(U) - 1
             /\ SumFunctionOnSet(f, U) \in Nat
    <2>1. IsFiniteSet(U) /\ \A y \in U : f[y] \in Nat
        BY FS_Subset
    <2> QED
        BY <2>1, FS_CardinalityType, FS_EmptySet, FS_RemoveElement, SumIsNat
<1>2. 0 \in G
    <2>1. ASSUME NEW U \in SUBSET S, T \subseteq U, Cardinality(U) = 0
          PROVE  SumFunctionOnSet(f, T) <= SumFunctionOnSet(f, U)
        <3>1. U = {} /\ T = {}
            BY <1>1, <2>1
        <3> QED
            BY <1>1, <3>1
    <2> QED
        BY <2>1
<1>3. ASSUME NEW k \in G
      PROVE  k + 1 \in G
    <2>1. ASSUME NEW U \in SUBSET S, T \subseteq U, Cardinality(U) = k + 1
          PROVE  SumFunctionOnSet(f, T) <= SumFunctionOnSet(f, U)
        <3>1. CASE T = U
            BY <1>1, <3>1
        <3>2. CASE T # U
            <4>1. PICK y \in U : y \notin T
                BY <2>1, <3>2
            <4>2. SumFunctionOnSet(f, U) = f[y] + SumFunctionOnSet(f, U \ {y})
                <5>1. IsFiniteSet(U) /\ \A z \in U : f[z] \in Nat
                    BY <1>1
                <5> QED
                    BY <5>1, SumTakesOut
            <4>3. U \ {y} \in SUBSET S /\ T \subseteq U \ {y} /\ Cardinality(U \ {y}) = k
                <5>1. Cardinality(U \ {y}) = Cardinality(U) - 1
                    BY <1>1
                <5>2. k \in Nat
                    OBVIOUS
                <5> QED
                    BY <2>1, <4>1, <5>1, <5>2
            <4>4. SumFunctionOnSet(f, T) <= SumFunctionOnSet(f, U \ {y})
                BY <4>3
            <4>5. f[y] \in Nat /\ SumFunctionOnSet(f, T) \in Nat /\ SumFunctionOnSet(f, U \ {y}) \in Nat
                BY <1>1, <4>3
            <4> QED
                BY <4>2, <4>4, <4>5
        <3> QED
            BY <3>1, <3>2
    <2>2. k + 1 \in Nat
        OBVIOUS
    <2> QED
        BY <2>1, <2>2
<1>4. Cardinality(S) \in G
    <2> HIDE DEF G
    <2>1. G \in SUBSET Nat
        BY DEF G
    <2> QED
        BY <1>1, <1>2, <1>3, <2>1, AllNumbers
<1> QED
    BY <1>4

\* Only the terms matter.
LEMMA SumsAgree ==
    ASSUME NEW f, NEW g, NEW S, IsFiniteSet(S), \A x \in S : f[x] \in Nat /\ g[x] = f[x]
    PROVE  SumFunctionOnSet(g, S) = SumFunctionOnSet(f, S)
<1> DEFINE G == {k \in Nat : \A T \in SUBSET S : Cardinality(T) = k =>
                    SumFunctionOnSet(g, T) = SumFunctionOnSet(f, T)}
<1>1. ASSUME NEW T \in SUBSET S
      PROVE  /\ IsFiniteSet(T) /\ Cardinality(T) \in Nat /\ (Cardinality(T) = 0 <=> T = {})
             /\ \A y \in T : f[y] \in Nat /\ g[y] \in Nat
             /\ \A y \in T : Cardinality(T \ {y}) = Cardinality(T) - 1
    BY FS_Subset, FS_CardinalityType, FS_EmptySet, FS_RemoveElement
<1>2. 0 \in G
    <2>1. ASSUME NEW T \in SUBSET S, Cardinality(T) = 0
          PROVE  SumFunctionOnSet(g, T) = SumFunctionOnSet(f, T)
        <3>1. T = {}
            BY <1>1, <2>1
        <3> QED
            BY <3>1, SumOfNothing
    <2> QED
        BY <2>1
<1>3. ASSUME NEW k \in G
      PROVE  k + 1 \in G
    <2>1. ASSUME NEW T \in SUBSET S, Cardinality(T) = k + 1
          PROVE  SumFunctionOnSet(g, T) = SumFunctionOnSet(f, T)
        <3>1. PICK y \in T : TRUE
            BY <1>1, <2>1
        <3>2. SumFunctionOnSet(f, T) = f[y] + SumFunctionOnSet(f, T \ {y})
            BY <1>1, SumTakesOut
        <3>3. SumFunctionOnSet(g, T) = g[y] + SumFunctionOnSet(g, T \ {y})
            BY <1>1, SumTakesOut
        <3>4. Cardinality(T \ {y}) = k
            BY <1>1, <2>1
        <3>5. SumFunctionOnSet(g, T \ {y}) = SumFunctionOnSet(f, T \ {y})
            BY <3>4
        <3> QED
            BY <3>2, <3>3, <3>5
    <2>2. k + 1 \in Nat
        OBVIOUS
    <2> QED
        BY <2>1, <2>2
<1>4. Cardinality(S) \in G
    <2> HIDE DEF G
    <2>1. G \in SUBSET Nat
        BY DEF G
    <2> QED
        BY <1>1, <1>2, <1>3, <2>1, AllNumbers
<1> QED
    BY <1>4

------------------------------------------------------------------------------
(* Selection *)

\* How long the items are.
SizeOf == [i \in DOMAIN contents |-> contents[i].size]

LEMMA ContentShape ==
    ASSUME WindowTypeOK
    PROVE  /\ Len(contents) \in Nat /\ DOMAIN contents = 1..Len(contents)
           /\ IsFiniteSet(DOMAIN contents)
           /\ \A i \in DOMAIN contents : contents[i] \in Content
           /\ \A i \in DOMAIN contents : SizeOf[i] = contents[i].size /\ SizeOf[i] \in Nat
<1>1. /\ Len(contents) \in Nat /\ DOMAIN contents = 1..Len(contents)
      /\ \A i \in DOMAIN contents : contents[i] \in Content
    BY LenProperties, ElementOfSeq DEF WindowTypeOK
<1>2. IsFiniteSet(DOMAIN contents)
    BY <1>1, FS_Interval
<1>3. \A i \in DOMAIN contents : SizeOf[i] = contents[i].size /\ SizeOf[i] \in Nat
    BY <1>1, WindowBounds DEF SizeOf, Content
<1> QED
    BY <1>1, <1>2, <1>3

\* Characters is the sum of these, and grows with the set.
LEMMA CharactersOf ==
    ASSUME WindowTypeOK, NEW S \in SUBSET DOMAIN contents
    PROVE  /\ IsFiniteSet(S)
           /\ Characters(S) \in Nat
           /\ \A T \in SUBSET S : Characters(T) <= Characters(S)
           /\ \A i \in DOMAIN contents \ S : Characters(S \cup {i}) = contents[i].size + Characters(S)
<1>1. IsFiniteSet(S) /\ \A i \in S : SizeOf[i] \in Nat
    BY ContentShape, FS_Subset
<1>2. \A T : Characters(T) = SumFunctionOnSet(SizeOf, T)
    BY DEF Characters, SizeOf
<1>3. Characters(S) \in Nat
    BY <1>1, <1>2, SumIsNat
<1>4. ASSUME NEW T \in SUBSET S
      PROVE  Characters(T) <= Characters(S)
    BY <1>1, <1>2, SumGrows
<1>5. ASSUME NEW i \in DOMAIN contents \ S
      PROVE  Characters(S \cup {i}) = contents[i].size + Characters(S)
    <2> DEFINE U == S \cup {i}
    <2>1. IsFiniteSet(U) /\ U \ {i} = S
        BY <1>1, FS_AddElement
    <2>2. \A j \in U : SizeOf[j] \in Nat
        BY ContentShape
    <2>3. i \in U
        OBVIOUS
    <2> HIDE DEF U
    <2>4. SumFunctionOnSet(SizeOf, U) = SizeOf[i] + SumFunctionOnSet(SizeOf, U \ {i})
        BY <2>1, <2>2, <2>3, SumTakesOut
    <2>5. SizeOf[i] = contents[i].size
        BY ContentShape
    <2> QED
        BY <1>2, <2>1, <2>4, <2>5 DEF U
<1> QED
    BY <1>1, <1>3, <1>4, <1>5

Takes(topics, budget, i, before) == i \in topics /\ Applicable(i) /\ Fits(i, before, budget)

\* The k-th item from the newest, and the selection after it.
Place(k) == Len(contents) - k + 1
After(topics, budget, k, before) ==
    IF Takes(topics, budget, Place(k), before) THEN before \cup {Place(k)} ELSE before
IsSelection(g, topics, budget) ==
    g = [k \in 0..Len(contents) |-> IF k = 0 THEN {} ELSE After(topics, budget, k, g[k - 1])]
Selection(topics, budget) == CHOOSE g : IsSelection(g, topics, budget)

LEMMA SelectIsSelection ==
    ASSUME NEW topics, NEW budget
    PROVE  Select(topics, budget) = Selection(topics, budget)[Len(contents)]
    BY DEF Select, Selection, IsSelection, After, Takes, Place

LEMMA SelectionExists ==
    ASSUME WindowTypeOK, NEW topics, NEW budget
    PROVE  IsSelection(Selection(topics, budget), topics, budget)
<1> DEFINE last == Len(contents)
           V == SUBSET DOMAIN contents
           Follows(h, n) == h[0] = {} /\ \A k \in 1..n : h[k] = After(topics, budget, k, h[k - 1])
           G == {n \in Nat : n <= last => \E h \in [0..n -> V] : Follows(h, n)}
<1>1. last \in Nat /\ DOMAIN contents = 1..last
    BY ContentShape
<1>2. 0 \in G
    <2>1. [k \in 0..0 |-> {}] \in [0..0 -> V] /\ Follows([k \in 0..0 |-> {}], 0)
        OBVIOUS
    <2> QED
        BY <2>1
<1>3. ASSUME NEW n \in G
      PROVE  n + 1 \in G
    <2>0. n + 1 \in Nat
        OBVIOUS
    <2> SUFFICES ASSUME n + 1 <= last
                 PROVE  \E h \in [0..n + 1 -> V] : Follows(h, n + 1)
        BY <2>0, Zenon
    <2>1. n \in Nat /\ n <= last
        BY <1>1
    <2>2. PICK h \in [0..n -> V] : Follows(h, n)
        BY <2>1
    <2> DEFINE new == After(topics, budget, n + 1, h[n])
               g == [k \in 0..n + 1 |-> IF k = n + 1 THEN new ELSE h[k]]
    <2>3. h[n] \in V
        BY <2>1, <2>2
    <2>4. new \in V
        <3>1. Place(n + 1) \in DOMAIN contents
            BY <1>1, <2>1 DEF Place
        <3> QED
            BY <2>3, <3>1 DEF After
    <2>5. g \in [0..n + 1 -> V]
        <3> HIDE DEF new, V
        <3>1. \A k \in 0..n + 1 : k # n + 1 => k \in 0..n
            BY <2>1
        <3> QED
            BY <2>2, <2>4, <3>1
    <2>6. g[0] = {}
        BY <2>1, <2>2
    <2>7. ASSUME NEW k \in 1..n + 1
          PROVE  g[k] = After(topics, budget, k, g[k - 1])
        <3> HIDE DEF new
        <3>1. k - 1 \in 0..n /\ g[k - 1] = h[k - 1]
            BY <2>1
        <3>2. CASE k = n + 1
            BY <2>1, <3>1, <3>2 DEF new
        <3>3. CASE k # n + 1
            <4>1. k \in 1..n /\ g[k] = h[k]
                BY <2>1, <3>3
            <4> QED
                BY <2>2, <3>1, <4>1
        <3> QED
            BY <3>2, <3>3
    <2> HIDE DEF g, V
    <2> QED
        BY <2>5, <2>6, <2>7
<1>4. last \in G
    <2> HIDE DEF G, last
    <2>1. G \in SUBSET Nat
        BY DEF G
    <2> QED
        BY <1>1, <1>2, <1>3, <2>1, AllNumbers
<1>5. PICK h \in [0..last -> V] : Follows(h, last)
    BY <1>1, <1>4
<1>6. IsSelection(h, topics, budget)
    <2>1. h = [k \in 0..last |-> h[k]]
        OBVIOUS
    <2>2. ASSUME NEW k \in 0..last
          PROVE  h[k] = IF k = 0 THEN {} ELSE After(topics, budget, k, h[k - 1])
        BY <1>1, <1>5
    <2> QED
        BY <2>1, <2>2 DEF IsSelection
<1> QED
    BY <1>6 DEF Selection

\* What has been selected before an item is considered, and at the end.
LEMMA SelectionSteps ==
    ASSUME WindowTypeOK, NEW topics, NEW budget
    PROVE  LET g == Selection(topics, budget)
           IN  /\ g[0] = {}
               /\ \A k \in 1..Len(contents) : g[k] = After(topics, budget, k, g[k - 1])
               /\ \A k \in 0..Len(contents) : g[k] \in SUBSET (Place(k)..Len(contents))
               /\ \A k \in 0..Len(contents) : g[k] \subseteq g[Len(contents)]
<1> DEFINE last == Len(contents)
           g == Selection(topics, budget)
<1>1. last \in Nat /\ DOMAIN contents = 1..last
    BY ContentShape
<1>2. IsSelection(g, topics, budget)
    BY SelectionExists
<1> HIDE DEF g
<1>3. g[0] = {}
    BY <1>1, <1>2 DEF IsSelection
<1>4. ASSUME NEW k \in 1..last
      PROVE  g[k] = After(topics, budget, k, g[k - 1])
    <2>1. k \in 0..last /\ k # 0
        BY <1>1
    <2> QED
        BY <1>2, <2>1 DEF IsSelection
<1>5. \A k \in 0..last : g[k] \in SUBSET (Place(k)..last)
    <2> DEFINE G == {n \in Nat : n <= last => g[n] \in SUBSET (Place(n)..last)}
    <2>1. 0 \in G
        BY <1>3
    <2>2. ASSUME NEW n \in G
          PROVE  n + 1 \in G
        <3> SUFFICES ASSUME n + 1 <= last
                     PROVE  g[n + 1] \in SUBSET (Place(n + 1)..last)
            OBVIOUS
        <3>1. n \in Nat /\ n <= last /\ n + 1 \in 1..last /\ (n + 1) - 1 = n
            BY <1>1
        <3>2. g[n] \in SUBSET (Place(n)..last)
            BY <3>1
        <3>3. g[n + 1] = After(topics, budget, n + 1, g[n])
            BY <1>4, <3>1
        <3>4. Place(n + 1) \in Place(n + 1)..last /\ Place(n)..last \subseteq Place(n + 1)..last
            BY <1>1, <3>1 DEF Place
        <3> QED
            BY <3>2, <3>3, <3>4 DEF After
    <2> HIDE DEF G, last
    <2>3. G \in SUBSET Nat
        BY DEF G
    <2>4. \A n \in Nat : n \in G
        BY <2>1, <2>2, <2>3, AllNumbers
    <2> QED
        BY <1>1, <2>4 DEF G
<1>6. \A k \in 0..last : g[k] \subseteq g[last]
    <2> DEFINE G == {n \in Nat : n <= last => g[last - n] \subseteq g[last]}
    <2>1. 0 \in G
        BY <1>1
    <2>2. ASSUME NEW n \in G
          PROVE  n + 1 \in G
        <3> SUFFICES ASSUME n + 1 <= last
                     PROVE  g[last - (n + 1)] \subseteq g[last]
            OBVIOUS
        <3>1. n \in Nat /\ n <= last /\ last - n \in 1..last /\ (last - n) - 1 = last - (n + 1)
            BY <1>1
        <3>2. g[last - n] = After(topics, budget, last - n, g[last - (n + 1)])
            BY <1>4, <3>1
        <3>3. g[last - n] \subseteq g[last]
            BY <3>1
        <3> QED
            BY <3>2, <3>3 DEF After
    <2> HIDE DEF G, last
    <2>3. G \in SUBSET Nat
        BY DEF G
    <2>4. \A n \in Nat : n \in G
        BY <2>1, <2>2, <2>3, AllNumbers
    <2>5. \A k \in 0..last : last - k \in Nat /\ last - k <= last /\ last - (last - k) = k
        BY <1>1
    <2> QED
        BY <2>4, <2>5 DEF G
<1> QED
    BY <1>3, <1>4, <1>5, <1>6 DEF g

\* A selection is of items, at most so many, and within its budget.
LEMMA SelectProperties ==
    ASSUME WindowTypeOK, NEW topics, NEW budget \in Nat
    PROVE  /\ Select(topics, budget) \in SUBSET DOMAIN contents
           /\ Cardinality(Select(topics, budget)) <= MaxSelected
           /\ Characters(Select(topics, budget)) <= budget
<1> DEFINE last == Len(contents)
           g == Selection(topics, budget)
           Sound(S) == Cardinality(S) <= MaxSelected /\ Characters(S) <= budget
           G == {n \in Nat : n <= last => Sound(g[n])}
<1>1. last \in Nat /\ DOMAIN contents = 1..last /\ MaxSelected \in Nat
    BY ContentShape, WindowBounds
<1>2. /\ g[0] = {}
      /\ \A k \in 1..last : g[k] = After(topics, budget, k, g[k - 1])
      /\ \A k \in 0..last : g[k] \in SUBSET (Place(k)..last)
    BY SelectionSteps
<1> HIDE DEF g
<1>3. 0 \in G
    <2>1. Cardinality({}) = 0
        BY FS_EmptySet
    <2>2. Characters({}) = 0
        BY SumOfNothing DEF Characters
    <2>3. Sound(g[0])
        BY <1>1, <1>2, <2>1, <2>2
    <2> HIDE DEF Sound
    <2> QED
        BY <2>3
<1>4. ASSUME NEW n \in G
      PROVE  n + 1 \in G
    <2> SUFFICES ASSUME n + 1 <= last
                 PROVE  Sound(g[n + 1])
        OBVIOUS
    <2>1. n \in Nat /\ n <= last /\ n + 1 \in 1..last /\ (n + 1) - 1 = n
        BY <1>1
    <2> DEFINE i == Place(n + 1)
               S == g[n]
    <2>2. Sound(S)
        BY <2>1
    <2>3. g[n + 1] = After(topics, budget, n + 1, S)
        BY <1>2, <2>1
    <2>4. S \in SUBSET (Place(n)..last)
        BY <1>2, <2>1
    <2>5. i \in DOMAIN contents \ S /\ S \in SUBSET DOMAIN contents
        BY <1>1, <2>1, <2>4 DEF Place
    <2> HIDE DEF S
    <2>6. CASE Takes(topics, budget, i, S)
        <3>1. g[n + 1] = S \cup {i}
            BY <2>3, <2>6 DEF After
        <3>2. Cardinality(S) < MaxSelected /\ contents[i].size <= budget - Characters(S)
            BY <2>6 DEF Takes, Fits
        <3>3. IsFiniteSet(S) /\ Characters(S) \in Nat
            BY <2>5, CharactersOf
        <3>4. Characters(S \cup {i}) = contents[i].size + Characters(S)
            BY <2>5, CharactersOf
        <3>5. Cardinality(S \cup {i}) = Cardinality(S) + 1 /\ Cardinality(S) \in Nat
            BY <2>5, <3>3, FS_AddElement, FS_CardinalityType
        <3>6. contents[i].size \in Nat
            BY <2>5, ContentShape
        <3>7. Cardinality(S \cup {i}) <= MaxSelected
            BY <1>1, <3>2, <3>5
        <3>8. Characters(S \cup {i}) <= budget
            BY <3>2, <3>3, <3>4, <3>6
        <3> QED
            BY <3>1, <3>7, <3>8
    <2>7. CASE ~Takes(topics, budget, i, S)
        BY <2>2, <2>3, <2>7 DEF After
    <2> QED
        BY <2>6, <2>7
<1>5. Sound(g[last])
    <2> HIDE DEF G, last
    <2>1. G \in SUBSET Nat
        BY DEF G
    <2>2. last \in G
        BY <1>1, <1>3, <1>4, <2>1, AllNumbers
    <2> QED
        BY <1>1, <2>2 DEF G
<1>6. g[last] \in SUBSET DOMAIN contents
    BY <1>1, <1>2 DEF Place
<1> QED
    BY <1>5, <1>6, SelectIsSelection DEF g

\* A budget that has room for what a larger one selects, selects the same.
LEMMA SelectAlike ==
    ASSUME WindowTypeOK, NEW topics, NEW small \in Nat, NEW large \in Nat, small <= large,
           Characters(Select(topics, large)) <= small
    PROVE  Select(topics, small) = Select(topics, large)
<1> DEFINE last == Len(contents)
           g == Selection(topics, small)
           h == Selection(topics, large)
           G == {n \in Nat : n <= last => g[n] = h[n]}
<1>1. last \in Nat /\ DOMAIN contents = 1..last
    BY ContentShape
<1>2. g[0] = {} /\ \A k \in 1..last : g[k] = After(topics, small, k, g[k - 1])
    BY SelectionSteps
<1>3. h[0] = {} /\ \A k \in 1..last : h[k] = After(topics, large, k, h[k - 1])
    BY SelectionSteps
<1>4. /\ \A k \in 0..last : h[k] \in SUBSET (Place(k)..last)
      /\ \A k \in 0..last : h[k] \subseteq h[last]
    BY SelectionSteps
<1>5. h[last] = Select(topics, large) /\ g[last] = Select(topics, small)
    BY SelectIsSelection
<1> HIDE DEF g, h
<1>6. 0 \in G
    BY <1>2, <1>3
<1>7. ASSUME NEW n \in G
      PROVE  n + 1 \in G
    <2> SUFFICES ASSUME n + 1 <= last
                 PROVE  g[n + 1] = h[n + 1]
        OBVIOUS
    <2>1. n \in Nat /\ n <= last /\ n + 1 \in 1..last /\ (n + 1) - 1 = n /\ n \in 0..last /\ n + 1 \in 0..last
        BY <1>1
    <2> DEFINE i == Place(n + 1)
               S == h[n]
               total == Select(topics, large)
    <2>2. g[n] = S
        BY <2>1
    <2>3. g[n + 1] = After(topics, small, n + 1, S) /\ h[n + 1] = After(topics, large, n + 1, S)
        BY <1>2, <1>3, <2>1, <2>2
    <2>4. S \in SUBSET (Place(n)..last) /\ h[n + 1] \subseteq total
        BY <1>4, <1>5, <2>1
    <2>5. i \in DOMAIN contents \ S /\ S \in SUBSET DOMAIN contents
        BY <1>1, <2>1, <2>4 DEF Place
    <2>6. total \in SUBSET DOMAIN contents
        BY SelectProperties
    <2>7. Characters(S) \in Nat /\ contents[i].size \in Nat /\ Characters(total) \in Nat
        BY <2>5, <2>6, CharactersOf, ContentShape
    <2> HIDE DEF S, total
    <2>8. Takes(topics, small, i, S) => Takes(topics, large, i, S)
        BY <2>7 DEF Takes, Fits
    <2>9. ASSUME Takes(topics, large, i, S)
          PROVE  Takes(topics, small, i, S)
        <3>1. h[n + 1] = S \cup {i}
            BY <2>3, <2>9 DEF After
        <3>2. S \cup {i} \in SUBSET total
            BY <2>4, <3>1
        <3>3. Characters(S \cup {i}) <= Characters(total)
            BY <2>6, <3>2, CharactersOf
        <3>4. Characters(S \cup {i}) = contents[i].size + Characters(S)
            BY <2>5, CharactersOf
        <3>5. Characters(total) <= small
            BY DEF total
        <3>6. contents[i].size <= small - Characters(S)
            BY <2>7, <3>3, <3>4, <3>5
        <3> QED
            BY <2>9, <3>6 DEF Takes, Fits
    <2> QED
        BY <2>3, <2>8, <2>9 DEF After
<1>8. last \in G
    <2> HIDE DEF G, last
    <2>1. G \in SUBSET Nat
        BY DEF G
    <2> QED
        BY <1>1, <1>6, <1>7, <2>1, AllNumbers
<1> QED
    BY <1>1, <1>5, <1>8

------------------------------------------------------------------------------
(* The inductive invariant of the window *)

\* The items that versions are of.
OwnersOf(S) == {v[1] : v \in S}

\* Usages name versions that an item has or had.
Reaches(e) ==
    \A v \in e.used : v[1] \in DOMAIN contents /\ v[2] <= contents[v[1]].version

\* An input that was given other items than were recorded had no room for these;
\* while they are what they were, no input of this session has it either.
Crowded(e) ==
    e.used \subseteq Current(DOMAIN contents) =>
        Characters(OwnersOf(e.used)) + Cardinality(e.experience) + e.length > limit
Passed(l) ==
    /\ \A k \in exchanges[l].dialogue : exchanges[k].given \subseteq exchanges[l].given
    /\ exchanges[l].given \subseteq exchanges[l].used \/ Crowded(exchanges[l])

WindowInv ==
    /\ WindowTypeOK
    /\ \A l \in DOMAIN exchanges : Reaches(exchanges[l])
    /\ raised \/ \A l \in DOMAIN exchanges : Passed(l)

LEMMA ExchangeShape ==
    ASSUME WindowTypeOK
    PROVE  /\ Len(exchanges) \in Nat /\ DOMAIN exchanges = 1..Len(exchanges)
           /\ IsFiniteSet(DOMAIN exchanges)
           /\ \A l \in DOMAIN exchanges : exchanges[l] \in Exchange
<1>1. /\ Len(exchanges) \in Nat /\ DOMAIN exchanges = 1..Len(exchanges)
      /\ \A l \in DOMAIN exchanges : exchanges[l] \in Exchange
    BY LenProperties, ElementOfSeq DEF WindowTypeOK
<1> QED
    BY <1>1, FS_Interval

\* The versions of a set of items are as many, and are of these items.
LEMMA CurrentOf ==
    ASSUME WindowTypeOK, NEW S \in SUBSET DOMAIN contents
    PROVE  /\ Current(S) \in SUBSET (Nat \X Nat)
           /\ Cardinality(Current(S)) <= Cardinality(S)
           /\ OwnersOf(Current(S)) = S
           /\ Current(S) \subseteq Current(DOMAIN contents)
<1>1. \A i \in S : i \in Nat /\ contents[i].version \in Nat
    BY ContentShape DEF Content
<1>2. Current(S) \in SUBSET (Nat \X Nat)
    BY <1>1 DEF Current
<1>3. Cardinality(Current(S)) <= Cardinality(S)
    <2> DEFINE f == [i \in S |-> <<i, contents[i].version>>]
    <2>1. f \in Surjection(S, Current(S))
        BY DEF Surjection, Current
    <2>2. IsFiniteSet(S)
        BY CharactersOf
    <2> QED
        BY <2>1, <2>2, FS_Surjection
<1>4. OwnersOf(Current(S)) = S
    <2>1. ASSUME NEW i \in S
          PROVE  i \in OwnersOf(Current(S))
        <3>1. <<i, contents[i].version>> \in Current(S)
            BY DEF Current
        <3>2. <<i, contents[i].version>>[1] = i
            OBVIOUS
        <3> QED
            BY <3>1, <3>2 DEF OwnersOf
    <2>2. ASSUME NEW v \in Current(S)
          PROVE  v[1] \in S
        BY DEF Current
    <2> QED
        BY <2>1, <2>2 DEF OwnersOf
<1>5. Current(S) \subseteq Current(DOMAIN contents)
    BY DEF Current
<1> QED
    BY <1>2, <1>3, <1>4, <1>5

\* What is excluded stays excluded with all that was made from it.
LEMMA DependentHolds ==
    ASSUME NEW seeds \in SUBSET DOMAIN exchanges
    PROVE  seeds \subseteq Dependent(seeds)
<1> DEFINE Closed(T) == \A l \in DOMAIN exchanges : exchanges[l].dialogue \cap T # {} => l \in T
           Minimal(S) == /\ seeds \subseteq S
                         /\ Closed(S)
                         /\ \A T \in SUBSET DOMAIN exchanges : (seeds \subseteq T /\ Closed(T)) => S \subseteq T
           M == {l \in DOMAIN exchanges :
                    \A T \in SUBSET DOMAIN exchanges : (seeds \subseteq T /\ Closed(T)) => l \in T}
<1>1. Dependent(seeds) = CHOOSE S \in SUBSET DOMAIN exchanges : Minimal(S)
    BY DEF Dependent
<1>2. Minimal(M)
    <2>1. seeds \subseteq M
        OBVIOUS
    <2>2. \A T \in SUBSET DOMAIN exchanges : (seeds \subseteq T /\ Closed(T)) => M \subseteq T
        OBVIOUS
    <2>3. ASSUME NEW l \in DOMAIN exchanges, exchanges[l].dialogue \cap M # {}
          PROVE  l \in M
        <3> SUFFICES ASSUME NEW T \in SUBSET DOMAIN exchanges, seeds \subseteq T, Closed(T)
                     PROVE  l \in T
            OBVIOUS
        <3>1. exchanges[l].dialogue \cap T # {}
            BY <2>2, <2>3
        <3> QED
            BY <3>1
    <2> HIDE DEF M
    <2> QED
        BY <2>1, <2>2, <2>3
<1>3. M \in SUBSET DOMAIN exchanges
    OBVIOUS
<1> HIDE DEF M, Minimal
<1>4. Minimal(Dependent(seeds))
    BY <1>1, <1>2, <1>3
<1> QED
    BY <1>4 DEF Minimal

\* A quoted exchange is not excluded, and has room.
LEMMA WindowHolds ==
    ASSUME WindowTypeOK, NEW excluded, NEW room \in Int, NEW k \in Window(excluded, room)
    PROVE  /\ k \in DOMAIN exchanges /\ k \notin excluded
           /\ exchanges[k].length + Reply <= room
<1> DEFINE open == DOMAIN exchanges \ excluded
           newer == {j \in open : j >= k}
           size == [l \in DOMAIN exchanges |-> exchanges[l].length + Reply]
<1>1. k \in open /\ SumFunctionOnSet(size, newer) <= room
    BY DEF Window
<1>2. k \in newer /\ newer \in SUBSET DOMAIN exchanges
    BY <1>1, ExchangeShape
<1>3. IsFiniteSet(newer)
    BY <1>2, ExchangeShape, FS_Subset
<1>4. \A j \in newer : size[j] \in Nat
    BY ExchangeShape, WindowBounds DEF Exchange
<1> HIDE DEF newer, size
<1>5. SumFunctionOnSet(size, newer) = size[k] + SumFunctionOnSet(size, newer \ {k})
    BY <1>2, <1>3, <1>4, SumTakesOut
<1>6. SumFunctionOnSet(size, newer \ {k}) \in Nat
    <2>1. IsFiniteSet(newer \ {k}) /\ \A j \in newer \ {k} : size[j] \in Nat
        BY <1>3, <1>4, FS_Subset
    <2> QED
        BY <2>1, SumIsNat
<1>7. size[k] = exchanges[k].length + Reply /\ size[k] \in Nat
    BY <1>1, <1>2, <1>4 DEF size
<1>8. size[k] <= room
    BY <1>1, <1>5, <1>6, <1>7
<1> QED
    BY <1>1, <1>7, <1>8

------------------------------------------------------------------------------
(* Inputs *)

\* One more exchange, as it must be.
Acceptable(e) ==
    /\ e \in Exchange
    /\ e.dialogue \subseteq DOMAIN exchanges
    /\ Cardinality(e.given) <= MaxSelected
    /\ Cardinality(e.used) <= MaxSelected
    /\ Reaches(e)
    /\ raised \/ /\ \A k \in e.dialogue : exchanges[k].given \subseteq e.given
                 /\ e.given \subseteq e.used \/ Crowded(e)

LEMMA Replied ==
    ASSUME WindowInv, NEW e, Acceptable(e), exchanges' = Append(exchanges, e),
           UNCHANGED <<contents, limit, raised>>
    PROVE  WindowInv'
<1> DEFINE last == Len(exchanges)
<1>1. last \in Nat /\ DOMAIN exchanges = 1..last /\ \A l \in DOMAIN exchanges : exchanges[l] \in Exchange
    BY ExchangeShape DEF WindowInv
<1>2. /\ exchanges' \in Seq(Exchange)
      /\ Len(exchanges') = last + 1
      /\ \A l \in 1..last : exchanges'[l] = exchanges[l]
      /\ exchanges'[last + 1] = e
    BY AppendProperties DEF WindowInv, WindowTypeOK, Acceptable
<1>3. DOMAIN exchanges' = 1..(last + 1)
    BY <1>2, LenProperties
<1>4. ASSUME NEW l \in DOMAIN exchanges'
      PROVE  \/ l \in DOMAIN exchanges /\ exchanges'[l] = exchanges[l]
             \/ l = last + 1 /\ exchanges'[l] = e
    BY <1>1, <1>2, <1>3
<1> HIDE DEF last
<1>5. ASSUME NEW l \in DOMAIN exchanges'
      PROVE  /\ exchanges'[l].dialogue \subseteq 1..l - 1
             /\ Cardinality(exchanges'[l].given) <= MaxSelected
             /\ Cardinality(exchanges'[l].used) <= MaxSelected
             /\ Reaches(exchanges[l])'
             /\ raised' \/ Passed(l)'
    <2>1. \A k \in DOMAIN exchanges : exchanges'[k] = exchanges[k]
        BY <1>1, <1>2
    <2>2. CASE l \in DOMAIN exchanges /\ exchanges'[l] = exchanges[l]
        <3>1. /\ Cardinality(exchanges[l].given) <= MaxSelected
              /\ Cardinality(exchanges[l].used) <= MaxSelected
              /\ exchanges[l].dialogue \subseteq 1..l - 1
            BY <2>2 DEF WindowInv, WindowTypeOK
        <3>2. \A k \in exchanges[l].dialogue : k \in DOMAIN exchanges
            BY <1>1, <2>2, <3>1
        <3>3. Reaches(exchanges[l])'
            BY <2>2 DEF WindowInv, Reaches
        <3>4. raised' \/ Passed(l)'
            BY <2>1, <2>2, <3>2 DEF WindowInv, Passed, Crowded, Current, Characters
        <3> QED
            BY <2>1, <2>2, <3>1, <3>2, <3>3, <3>4
    <2>3. CASE l = last + 1 /\ exchanges'[l] = e
        <3>1. e.dialogue \subseteq 1..l - 1 /\ \A k \in e.dialogue : exchanges'[k] = exchanges[k]
            BY <1>1, <2>1, <2>3 DEF Acceptable
        <3>2. Reaches(exchanges[l])'
            BY <2>3 DEF Acceptable, Reaches
        <3>3. raised' \/ Passed(l)'
            BY <2>3, <3>1 DEF Acceptable, Passed, Crowded, Current, Characters
        <3> QED
            BY <2>3, <3>1, <3>2, <3>3 DEF Acceptable
    <2> QED
        BY <1>4, <2>2, <2>3
<1>6. WindowTypeOK'
    BY <1>2, <1>5 DEF WindowInv, WindowTypeOK
<1> QED
    BY <1>5, <1>6 DEF WindowInv

\* What an input is recorded to have used.
LEMMA UsedIs ==
    ASSUME WindowTypeOK, NEW topics
    PROVE  LET S == RecordedAsUsed(topics)
           IN  /\ S \in SUBSET DOMAIN contents
               /\ Current(S) \in SUBSET (Nat \X Nat)
               /\ Cardinality(Current(S)) <= MaxSelected
               /\ Characters(S) <= MaxCharacters /\ Characters(S) \in Nat
               /\ OwnersOf(Current(S)) = S
               /\ \A v \in Current(S) : v[1] \in DOMAIN contents /\ v[2] = contents[v[1]].version
<1> DEFINE S == RecordedAsUsed(topics)
<1>1. S \in SUBSET DOMAIN contents /\ Cardinality(S) <= MaxSelected /\ Characters(S) <= MaxCharacters
    BY SelectProperties, WindowBounds DEF RecordedAsUsed
<1> HIDE DEF S
<1>2. /\ Current(S) \in SUBSET (Nat \X Nat)
      /\ Cardinality(Current(S)) <= Cardinality(S)
      /\ OwnersOf(Current(S)) = S
    BY <1>1, CurrentOf
<1>3. Characters(S) \in Nat /\ IsFiniteSet(S)
    BY <1>1, CharactersOf
<1>4. Cardinality(S) \in Nat /\ Cardinality(Current(S)) \in Nat
    <2>1. IsFiniteSet(Current(S))
        <3> DEFINE f == [i \in S |-> <<i, contents[i].version>>]
        <3>1. f \in Surjection(S, Current(S))
            BY DEF Surjection, Current
        <3> QED
            BY <1>3, <3>1, FS_Surjection
    <2> QED
        BY <1>3, <2>1, FS_CardinalityType
<1>5. Cardinality(Current(S)) <= MaxSelected
    BY <1>1, <1>2, <1>4, WindowBounds
<1>6. \A v \in Current(S) : v[1] \in DOMAIN contents /\ v[2] = contents[v[1]].version
    BY <1>1 DEF Current
<1> QED
    BY <1>1, <1>2, <1>3, <1>5, <1>6 DEF S

\* What is missing from the record of an input had no room beside it.
LEMMA GivenOrCrowded ==
    ASSUME WindowTypeOK, NEW topics, NEW length \in Nat, NEW experience \in SUBSET Experiences,
           NEW budget \in Nat, length <= limit, Cardinality(experience) <= limit - length,
           budget = Smaller(MaxCharacters, limit - length - Cardinality(experience)),
           NEW e, e.given = Current(Select(topics, budget)),
           e.used = Current(RecordedAsUsed(topics)), e.length = length, e.experience = experience
    PROVE  e.given \subseteq e.used \/ Crowded(e)
<1> DEFINE S == RecordedAsUsed(topics)
           n == Cardinality(experience)
<1>1. OwnersOf(e.used) = S /\ Characters(S) \in Nat /\ Characters(S) <= MaxCharacters
    BY UsedIs
<1>2. n \in Nat /\ limit \in Nat /\ MaxCharacters \in Nat
    BY WindowBounds, FS_Subset, FS_CardinalityType DEF WindowTypeOK
<1> HIDE DEF S, n
<1>3. CASE Characters(S) + n + length > limit
    BY <1>1, <1>3 DEF Crowded, n
<1>4. CASE Characters(S) + n + length <= limit
    <2>1. Characters(S) <= budget /\ budget <= MaxCharacters
        BY <1>1, <1>2, <1>4 DEF Smaller, n
    <2>2. Select(topics, budget) = S
        BY <1>2, <2>1, SelectAlike DEF RecordedAsUsed, S
    <2> QED
        BY <2>2 DEF S
<1> QED
    BY <1>1, <1>2, <1>3, <1>4

LEMMA AssistedStep ==
    ASSUME WindowInv, NEW topics, NEW length \in Lengths, NEW experience \in SUBSET Experiences,
           Assisted(topics, length, experience)
    PROVE  WindowInv'
<1> DEFINE n == Cardinality(experience)
           budget == Smaller(MaxCharacters, Free(length) - n)
           given == Select(topics, budget)
           withheld == Withheld(given, experience)
           room == Room(length, given, experience)
           dialogue == Window(Dependent(withheld), room)
           used == Current(RecordedAsUsed(topics))
           e == [length |-> length, given |-> Current(given), dialogue |-> dialogue,
                 used |-> used, experience |-> experience]
<1>1. /\ length <= limit /\ n <= Free(length)
      /\ exchanges' = Append(exchanges, e)
      /\ UNCHANGED <<contents, limit, raised>>
    BY DEF Assisted, Complete
<1>2. /\ n \in Nat /\ limit \in Nat /\ MaxCharacters \in Nat /\ length \in Nat /\ Reply \in Nat
      /\ IsFiniteSet(experience) /\ WindowTypeOK
    BY WindowBounds, FS_Subset, FS_CardinalityType DEF WindowInv, WindowTypeOK
<1>3. Free(length) = limit - length
    BY <1>1, <1>2 DEF Free, Larger
<1>4. budget \in Nat /\ budget = Smaller(MaxCharacters, limit - length - n)
    BY <1>1, <1>2, <1>3 DEF Smaller
<1> HIDE DEF budget
<1>5. /\ given \in SUBSET DOMAIN contents
      /\ Cardinality(given) <= MaxSelected
      /\ IsFiniteSet(given) /\ Characters(given) \in Nat
    BY <1>2, <1>4, SelectProperties, CharactersOf
<1> HIDE DEF given
<1>6. /\ Current(given) \in SUBSET (Nat \X Nat)
      /\ Cardinality(Current(given)) <= MaxSelected
      /\ Current(given) \subseteq Current(DOMAIN contents)
      /\ OwnersOf(Current(given)) = given
    <2>1. Cardinality(Current(given)) <= Cardinality(given) /\ Cardinality(given) \in Nat
        BY <1>2, <1>5, CurrentOf, FS_CardinalityType
    <2>2. IsFiniteSet(Current(given))
        <3> DEFINE f == [i \in given |-> <<i, contents[i].version>>]
        <3>1. f \in Surjection(given, Current(given))
            BY DEF Surjection, Current
        <3> QED
            BY <1>5, <3>1, FS_Surjection
    <2>3. Cardinality(Current(given)) \in Nat
        BY <2>2, FS_CardinalityType
    <2>4. Cardinality(Current(given)) <= MaxSelected
        BY <1>5, <2>1, <2>3, WindowBounds
    <2> QED
        BY <1>2, <1>5, <2>4, CurrentOf
<1>7. room = limit - Characters(given) - n - length /\ room \in Int
    BY <1>2, <1>5 DEF Room
<1> HIDE DEF room, n
<1>8. ASSUME NEW k \in dialogue
      PROVE  /\ k \in DOMAIN exchanges /\ k \notin withheld
             /\ exchanges[k].length + Reply <= room
    <2>1. withheld \in SUBSET DOMAIN exchanges
        BY DEF Withheld
    <2>2. k \notin Dependent(withheld) /\ k \in DOMAIN exchanges /\ exchanges[k].length + Reply <= room
        BY <1>2, <1>7, WindowHolds
    <2> HIDE DEF withheld
    <2> QED
        BY <2>1, <2>2, DependentHolds
<1>9. /\ used \in SUBSET (Nat \X Nat)
      /\ Cardinality(used) <= MaxSelected
      /\ \A v \in used : v[1] \in DOMAIN contents /\ v[2] = contents[v[1]].version
    BY <1>2, UsedIs
<1> HIDE DEF dialogue, used
<1>10. e \in Exchange
    <2>1. dialogue \in SUBSET Nat
        BY <1>2, <1>8, ExchangeShape
    <2> QED
        BY <1>2, <1>6, <1>9, <2>1 DEF Exchange
<1>11. Reaches(e)
    <2>1. \A i \in DOMAIN contents : contents[i].version \in Nat
        BY <1>2, ContentShape DEF Content
    <2>2. \A v \in e.used : v[1] \in DOMAIN contents /\ v[2] <= contents[v[1]].version
        BY <1>9, <2>1
    <2> QED
        BY <2>2 DEF Reaches
<1>12. e.given \subseteq e.used \/ Crowded(e)
    <2>1. /\ e.given = Current(Select(topics, budget)) /\ e.used = Current(RecordedAsUsed(topics))
          /\ e.length = length /\ e.experience = experience
        BY DEF given, used
    <2>2. Cardinality(experience) <= limit - length
          /\ budget = Smaller(MaxCharacters, limit - length - Cardinality(experience))
        BY <1>1, <1>3, <1>4 DEF n
    <2> HIDE DEF e
    <2> QED
        BY <1>1, <1>2, <1>4, <2>1, <2>2, GivenOrCrowded
<1>13. ASSUME ~raised, NEW k \in dialogue
       PROVE  exchanges[k].given \subseteq Current(given)
    <2> DEFINE d == exchanges[k]
    <2>1. k \in DOMAIN exchanges /\ k \notin withheld /\ d \in Exchange
        BY <1>2, <1>8, ExchangeShape
    <2>2. d.used \subseteq Current(given) /\ d.experience \subseteq experience
        BY <2>1 DEF Withheld
    <2>3. d.given \subseteq d.used \/ Crowded(d)
        BY <1>13, <2>1 DEF WindowInv, Passed
    <2>4. d.length \in Nat /\ d.length + Reply <= room
        BY <1>8, <2>1 DEF Exchange
    <2> HIDE DEF d
    <2>5. ~Crowded(d)
        <3>1. d.used \subseteq Current(DOMAIN contents)
            BY <1>6, <2>2
        <3>2. OwnersOf(d.used) \in SUBSET given
            <4>1. OwnersOf(d.used) \subseteq OwnersOf(Current(given))
                BY <2>2 DEF OwnersOf
            <4> QED
                BY <1>6, <4>1
        <3>3. Characters(OwnersOf(d.used)) <= Characters(given) /\ Characters(OwnersOf(d.used)) \in Nat
            BY <1>2, <1>5, <3>2, CharactersOf
        <3>4. Cardinality(d.experience) <= n /\ Cardinality(d.experience) \in Nat
            BY <1>2, <2>2, FS_Subset, FS_CardinalityType DEF n
        <3>5. Characters(OwnersOf(d.used)) + Cardinality(d.experience) + d.length <= limit
            BY <1>2, <1>5, <1>7, <2>4, <3>3, <3>4
        <3>6. Characters(OwnersOf(d.used)) + Cardinality(d.experience) + d.length \in Nat
            BY <2>4, <3>3, <3>4
        <3> QED
            BY <1>2, <3>1, <3>5, <3>6 DEF Crowded
    <2> QED
        BY <2>2, <2>3, <2>5 DEF d
<1>14. Acceptable(e)
    <2>1. /\ e.dialogue = dialogue /\ e.given = Current(given) /\ e.used = used
        OBVIOUS
    <2>2. dialogue \subseteq DOMAIN exchanges
        BY <1>8
    <2> HIDE DEF e
    <2>3. raised \/ \A k \in e.dialogue : exchanges[k].given \subseteq e.given
        BY <1>13, <2>1
    <2> QED
        BY <1>6, <1>9, <1>10, <1>11, <1>12, <2>1, <2>2, <2>3 DEF Acceptable
<1> HIDE DEF e
<1> QED
    BY <1>1, <1>14, Replied

LEMMA UnassistedStep ==
    ASSUME WindowInv, NEW topics, NEW length \in Lengths, NEW experience \in SUBSET Experiences,
           Unassisted(topics, length, experience)
    PROVE  WindowInv'
<1> DEFINE used == Current(RecordedAsUsed(topics))
           e == [length |-> length, given |-> {}, dialogue |-> {},
                 used |-> used, experience |-> experience]
<1>1. exchanges' = Append(exchanges, e) /\ UNCHANGED <<contents, limit, raised>>
    BY DEF Unassisted, Complete
<1>2. length \in Nat /\ WindowTypeOK /\ MaxSelected \in Nat
    BY WindowBounds DEF WindowInv
<1>3. /\ used \in SUBSET (Nat \X Nat)
      /\ Cardinality(used) <= MaxSelected
      /\ \A v \in used : v[1] \in DOMAIN contents /\ v[2] = contents[v[1]].version
    BY <1>2, UsedIs
<1> HIDE DEF used
<1>4. e \in Exchange
    BY <1>2, <1>3 DEF Exchange
<1>5. Reaches(e)
    <2>1. \A i \in DOMAIN contents : contents[i].version \in Nat
        BY <1>2, ContentShape DEF Content
    <2>2. \A v \in e.used : v[1] \in DOMAIN contents /\ v[2] <= contents[v[1]].version
        BY <1>3, <2>1
    <2> QED
        BY <2>2 DEF Reaches
<1>6. Acceptable(e)
    <2>1. e.dialogue = {} /\ e.given = {} /\ e.used = used
        OBVIOUS
    <2>2. Cardinality(e.given) <= MaxSelected
        BY <1>2, <2>1, FS_EmptySet
    <2> HIDE DEF e
    <2> QED
        BY <1>3, <1>4, <1>5, <2>1, <2>2 DEF Acceptable
<1> HIDE DEF e
<1> QED
    BY <1>1, <1>6, Replied

------------------------------------------------------------------------------
(* Items, contexts and sessions *)

\* Items are not lost, versions grow, and a version keeps its length.
Altering ==
    /\ DOMAIN contents \subseteq DOMAIN contents'
    /\ \A i \in DOMAIN contents :
        /\ contents[i].version <= contents'[i].version
        /\ contents[i].version = contents'[i].version => contents'[i].size = contents[i].size

LEMMA AlteringStep ==
    ASSUME WindowInv, contents' \in Seq(Content), Len(contents') <= MaxItems, Altering,
           UNCHANGED <<exchanges, limit, raised>>
    PROVE  WindowInv'
<1>1. WindowTypeOK /\ WindowTypeOK'
    BY DEF WindowInv, WindowTypeOK
<1>2. /\ \A i \in DOMAIN contents : contents[i].version \in Nat /\ contents[i].size \in Nat
      /\ \A i \in DOMAIN contents' : contents'[i].version \in Nat /\ contents'[i].size \in Nat
      /\ IsFiniteSet(DOMAIN contents)
    <2>1. \A c \in Content : c.version \in Nat /\ c.size \in Nat
        BY WindowBounds DEF Content
    <2>2. \A i \in DOMAIN contents' : contents'[i] \in Content
        BY LenProperties, ElementOfSeq
    <2>3. /\ \A i \in DOMAIN contents : contents[i] \in Content
          /\ IsFiniteSet(DOMAIN contents)
        BY <1>1, ContentShape
    <2> QED
        BY <2>1, <2>2, <2>3
<1>3. ASSUME NEW e \in Exchange, Reaches(e)
      PROVE  /\ Reaches(e)'
             /\ Crowded(e) => Crowded(e)'
    <2> DEFINE S == OwnersOf(e.used)
    <2>1. \A v \in e.used : v[1] \in DOMAIN contents /\ v[2] <= contents[v[1]].version
        BY <1>3 DEF Reaches
    <2>2. S \in SUBSET DOMAIN contents
        BY <2>1 DEF OwnersOf
    <2>3. Reaches(e)'
        <3> SUFFICES ASSUME NEW v \in e.used
                     PROVE  v[1] \in DOMAIN contents' /\ v[2] <= contents'[v[1]].version
            BY DEF Reaches
        <3>1. v[1] \in DOMAIN contents /\ v[2] <= contents[v[1]].version
            BY <2>1
        <3>2. v[2] \in Nat
            BY DEF Exchange
        <3>3. v[1] \in DOMAIN contents' /\ contents[v[1]].version <= contents'[v[1]].version
            BY <3>1 DEF Altering
        <3>4. contents[v[1]].version \in Nat /\ contents'[v[1]].version \in Nat
            BY <1>2, <3>1, <3>3
        <3> QED
            BY <3>1, <3>2, <3>3, <3>4
    <2>4. ASSUME Crowded(e), e.used \subseteq Current(DOMAIN contents)'
          PROVE  Characters(S)' + Cardinality(e.experience) + e.length > limit
        <3>1. ASSUME NEW v \in e.used
              PROVE  /\ v = <<v[1], contents[v[1]].version>>
                     /\ contents'[v[1]].size = contents[v[1]].size
                     /\ v[1] \in DOMAIN contents
            <4>1. PICK i \in DOMAIN contents' : v = <<i, contents'[i].version>>
                BY <2>4 DEF Current
            <4>2. v[1] = i /\ v[2] = contents'[i].version
                BY <4>1
            <4>3. i \in DOMAIN contents /\ contents'[i].version <= contents[i].version
                BY <2>1, <4>2
            <4>4. contents'[i].version = contents[i].version
                BY <1>2, <4>3 DEF Altering
            <4> QED
                BY <4>1, <4>2, <4>3, <4>4 DEF Altering
        <3>2. e.used \subseteq Current(DOMAIN contents)
            BY <3>1 DEF Current
        <3>3. Characters(S) + Cardinality(e.experience) + e.length > limit
            BY <2>4, <3>2 DEF Crowded
        <3>4. \A i \in S : contents'[i].size = contents[i].size /\ i \in DOMAIN contents /\ i \in DOMAIN contents'
            BY <3>1 DEF OwnersOf, Altering
        <3>5. Characters(S)' = Characters(S)
            <4> DEFINE f == [i \in DOMAIN contents |-> contents[i].size]
                       g == [i \in DOMAIN contents' |-> contents'[i].size]
            <4>1. IsFiniteSet(S)
                BY <1>2, <2>2, FS_Subset
            <4>2. \A i \in S : f[i] \in Nat /\ g[i] = f[i]
                BY <1>2, <3>4
            <4>3. Characters(S) = SumFunctionOnSet(f, S) /\ Characters(S)' = SumFunctionOnSet(g, S)
                BY DEF Characters
            <4> HIDE DEF f, g, S
            <4> QED
                BY <4>1, <4>2, <4>3, SumsAgree
        <3> QED
            BY <3>3, <3>5
    <2> QED
        BY <2>3, <2>4 DEF Crowded
<1>4. ASSUME NEW l \in DOMAIN exchanges
      PROVE  /\ exchanges[l] \in Exchange /\ Reaches(exchanges[l])
             /\ Reaches(exchanges[l])'
    <2>1. exchanges[l] \in Exchange /\ Reaches(exchanges[l])
        BY <1>1, ExchangeShape DEF WindowInv
    <2>2. PICK e : e = exchanges[l]
        OBVIOUS
    <2>3. Reaches(e)'
        BY <1>3, <2>1, <2>2
    <2> QED
        BY <2>1, <2>2, <2>3 DEF Reaches
<1>5. raised \/ \A l \in DOMAIN exchanges : Passed(l)'
    <2> SUFFICES ASSUME ~raised, NEW l \in DOMAIN exchanges
                 PROVE  Passed(l)'
        OBVIOUS
    <2>1. Reaches(exchanges[l]) /\ Passed(l)
        BY DEF WindowInv
    <2>2. Crowded(exchanges[l]) => Crowded(exchanges[l])'
        <3>1. PICK e : e = exchanges[l]
            OBVIOUS
        <3>2. Crowded(e) => Crowded(e)'
            BY <1>3, <1>4, <2>1, <3>1
        <3> QED
            BY <3>1, <3>2 DEF Crowded
    <2> QED
        BY <2>1, <2>2 DEF Passed
<1> QED
    BY <1>1, <1>4, <1>5 DEF WindowInv

\* The part that what is altered keeps: all commands and the clock only append
\* an item or change one.
LEMMA AppendedItem ==
    ASSUME WindowTypeOK, NEW c \in Content, Len(contents) < MaxItems,
           contents' = Append(contents, c)
    PROVE  contents' \in Seq(Content) /\ Len(contents') <= MaxItems /\ Altering
<1>1. Len(contents) \in Nat /\ DOMAIN contents = 1..Len(contents)
    BY ContentShape
<1>2. /\ contents' \in Seq(Content)
      /\ Len(contents') = Len(contents) + 1
      /\ \A i \in 1..Len(contents) : contents'[i] = contents[i]
    BY AppendProperties DEF WindowTypeOK
<1>3. DOMAIN contents' = 1..Len(contents) + 1
    BY <1>2, LenProperties
<1>4. \A i \in DOMAIN contents : contents[i].version \in Nat
    BY ContentShape DEF Content
<1>5. Altering
    BY <1>1, <1>2, <1>3, <1>4 DEF Altering
<1> QED
    BY <1>1, <1>2, <1>5, WindowBounds

LEMMA ChangedItem ==
    ASSUME WindowTypeOK, NEW i \in DOMAIN contents, NEW c \in Content,
           contents' = [contents EXCEPT ![i] = c],
           \/ c.version = contents[i].version /\ c.size = contents[i].size
           \/ c.version = contents[i].version + 1
    PROVE  contents' \in Seq(Content) /\ Len(contents') <= MaxItems /\ Altering
<1>1. Len(contents) \in Nat /\ DOMAIN contents = 1..Len(contents) /\ Len(contents) <= MaxItems
    BY ContentShape DEF WindowTypeOK
<1>2. /\ contents' \in Seq(Content)
      /\ Len(contents') = Len(contents)
      /\ \A k \in DOMAIN contents : contents'[k] = IF k = i THEN c ELSE contents[k]
    BY ExceptSeq, <1>1 DEF WindowTypeOK
<1>3. DOMAIN contents' = DOMAIN contents
    OBVIOUS
<1>4. \A k \in DOMAIN contents : contents[k].version \in Nat
    BY ContentShape DEF Content
<1>5. ASSUME NEW k \in DOMAIN contents
      PROVE  /\ contents[k].version <= contents'[k].version
             /\ contents[k].version = contents'[k].version => contents'[k].size = contents[k].size
    BY <1>2, <1>4
<1> QED
    BY <1>1, <1>2, <1>3, <1>5 DEF Altering

LEMMA AdoptStep ==
    ASSUME WindowInv, NEW size \in Sizes, Adopt(size)
    PROVE  WindowInv'
<1>1. [size |-> size, version |-> 1, active |-> TRUE, expired |-> FALSE] \in Content
    BY DEF Content
<1>2. contents' \in Seq(Content) /\ Len(contents') <= MaxItems /\ Altering
    BY <1>1, AppendedItem DEF Adopt, WindowInv
<1> QED
    BY <1>2, AlteringStep DEF Adopt

LEMMA CorrectStep ==
    ASSUME WindowInv, NEW i \in DOMAIN contents, NEW size \in Sizes, Correct(i, size)
    PROVE  WindowInv'
<1> DEFINE c == [size |-> size, version |-> contents[i].version + 1, active |-> TRUE, expired |-> FALSE]
<1>1. contents[i].version = 1 /\ contents' = [contents EXCEPT ![i] = c]
    BY DEF Correct, Alterable
<1>2. c \in Content /\ c.version = contents[i].version + 1
    BY <1>1 DEF Content
<1> HIDE DEF c
<1>3. contents' \in Seq(Content) /\ Len(contents') <= MaxItems /\ Altering
    BY <1>1, <1>2, ChangedItem DEF WindowInv
<1> QED
    BY <1>3, AlteringStep DEF Correct

LEMMA EndContentStep ==
    ASSUME WindowInv, NEW i \in DOMAIN contents, EndContent(i)
    PROVE  WindowInv'
<1> DEFINE c == [contents[i] EXCEPT !.version = @ + 1, !.active = FALSE]
<1>1. contents[i] \in Content
    BY ContentShape DEF WindowInv
<1>2. contents[i].version = 1 /\ contents' = [contents EXCEPT ![i] = c]
    <2>1. contents[i].version = 1
        BY DEF EndContent, Alterable
    <2>2. contents' = [contents EXCEPT ![i] = c]
        BY DEF EndContent
    <2> QED
        BY <2>1, <2>2
<1>3. c \in Content /\ c.version = contents[i].version + 1
    <2>1. c = [contents[i] EXCEPT !.version = 2, !.active = FALSE]
        BY <1>2
    <2>2. [contents[i] EXCEPT !.version = 2, !.active = FALSE] \in Content
        BY <1>1 DEF Content
    <2>3. c.version = contents[i].version + 1
        BY <1>1 DEF Content
    <2> HIDE DEF c
    <2> QED
        BY <2>1, <2>2, <2>3
<1> HIDE DEF c
<1>4. contents' \in Seq(Content) /\ Len(contents') <= MaxItems /\ Altering
    BY <1>2, <1>3, ChangedItem DEF WindowInv
<1> QED
    BY <1>4, AlteringStep DEF EndContent

LEMMA LapseStep ==
    ASSUME WindowInv, NEW i \in DOMAIN contents, Lapse(i)
    PROVE  WindowInv'
<1> DEFINE c == [contents[i] EXCEPT !.expired = TRUE]
<1>1. contents[i] \in Content
    BY ContentShape DEF WindowInv
<1>2. contents' = [contents EXCEPT ![i] = c]
    BY DEF Lapse
<1>3. c \in Content /\ c.version = contents[i].version /\ c.size = contents[i].size
    BY <1>1 DEF Content
<1> HIDE DEF c
<1>4. contents' \in Seq(Content) /\ Len(contents') <= MaxItems /\ Altering
    BY <1>2, <1>3, ChangedItem DEF WindowInv
<1> QED
    BY <1>4, AlteringStep DEF Lapse

LEMMA NewContextStep ==
    ASSUME WindowInv, NewContext
    PROVE  WindowInv'
<1>1. exchanges' = <<>> /\ DOMAIN exchanges' = {} /\ exchanges' \in Seq(Exchange)
    BY EmptySeq DEF NewContext
<1> QED
    BY <1>1 DEF WindowInv, WindowTypeOK, NewContext

\* A lower limit leaves less room.
LEMMA RestartStep ==
    ASSUME WindowInv, NEW l \in InputLimits, Restart(l)
    PROVE  WindowInv'
<1>1. WindowTypeOK'
    BY DEF WindowInv, WindowTypeOK, Restart
<1>2. \A k \in DOMAIN exchanges' : Reaches(exchanges[k])'
    BY DEF WindowInv, Reaches, Restart
<1>3. CASE raised'
    BY <1>1, <1>2, <1>3 DEF WindowInv
<1>4. CASE ~raised' /\ exchanges = <<>>
    BY <1>1, <1>2, <1>4 DEF WindowInv, Restart
<1>5. CASE ~raised' /\ exchanges # <<>>
    <2>1. ~raised /\ limit' <= limit /\ limit \in Nat /\ limit' \in Nat
        <3>1. limit \in Nat /\ l \in Nat /\ limit' = l
            BY WindowBounds DEF Restart, WindowInv, WindowTypeOK
        <3>2. raised' = (raised \/ l > limit)
            BY <1>5 DEF Restart
        <3>3. ~raised /\ ~(l > limit)
            BY <1>5, <3>2
        <3> QED
            BY <3>1, <3>3
    <2>2. ASSUME NEW k \in DOMAIN exchanges
          PROVE  Passed(k)'
        <3>1. Passed(k)
            BY <2>1 DEF WindowInv
        <3>2. Crowded(exchanges[k]) => Crowded(exchanges[k])'
            <4> DEFINE S == OwnersOf(exchanges[k].used)
                       n == Cardinality(exchanges[k].experience)
            <4>1. exchanges[k] \in Exchange /\ Reaches(exchanges[k])
                BY ExchangeShape DEF WindowInv
            <4>2. S \in SUBSET DOMAIN contents
                BY <4>1 DEF OwnersOf, Reaches
            <4>3. Characters(S) \in Nat
                BY <4>2, CharactersOf DEF WindowInv
            <4>4. n \in Nat /\ exchanges[k].length \in Nat
                BY <4>1, WindowBounds, FS_Subset, FS_CardinalityType DEF Exchange
            <4>5. /\ Characters(S)' = Characters(S)
                  /\ Current(DOMAIN contents)' = Current(DOMAIN contents)
                  /\ exchanges' = exchanges
                BY DEF Restart, Characters, Current, OwnersOf
            <4> HIDE DEF S, n
            <4>6. Characters(S) + n + exchanges[k].length > limit
                    => Characters(S) + n + exchanges[k].length > limit'
                BY <2>1, <4>3, <4>4
            <4> QED
                BY <4>5, <4>6 DEF Crowded, S, n
        <3> QED
            BY <3>1, <3>2 DEF Passed, Restart
    <2> QED
        BY <1>1, <1>2, <2>2 DEF WindowInv, Restart
<1> QED
    BY <1>3, <1>4, <1>5 DEF Restart

LEMMA WindowStep ==
    ASSUME WindowInv, [WindowNext]_windowVars
    PROVE  WindowInv'
<1>1. ASSUME NEW topics, NEW length \in Lengths, NEW experience \in SUBSET Experiences,
             Assisted(topics, length, experience) \/ Unassisted(topics, length, experience)
      PROVE  WindowInv'
    BY <1>1, AssistedStep, UnassistedStep
<1>2. ASSUME NEW size \in Sizes, Adopt(size)
      PROVE  WindowInv'
    BY <1>2, AdoptStep
<1>3. ASSUME NEW i \in DOMAIN contents, NEW size \in Sizes, Correct(i, size)
      PROVE  WindowInv'
    BY <1>3, CorrectStep
<1>4. ASSUME NEW i \in DOMAIN contents, EndContent(i) \/ Lapse(i)
      PROVE  WindowInv'
    BY <1>4, EndContentStep, LapseStep
<1>5. ASSUME NewContext
      PROVE  WindowInv'
    BY <1>5, NewContextStep
<1>6. ASSUME NEW l \in InputLimits, Restart(l)
      PROVE  WindowInv'
    BY <1>6, RestartStep
<1>7. CASE UNCHANGED windowVars
    BY <1>7 DEF WindowInv, WindowTypeOK, Reaches, Passed, Crowded, Current, Characters, windowVars
<1> QED
    BY <1>1, <1>2, <1>3, <1>4, <1>5, <1>6, <1>7 DEF WindowNext

\* Whatever an input was given and its record does not cover, had no room
\* beside what was recorded.
THEOREM WindowInductive == WindowSpec => []WindowInv
<1>1. WindowInit => WindowInv
    <2> SUFFICES ASSUME WindowInit PROVE WindowInv
        OBVIOUS
    <2>1. /\ contents = <<>> /\ exchanges = <<>> /\ DOMAIN exchanges = {} /\ Len(contents) = 0
          /\ contents \in Seq(Content) /\ exchanges \in Seq(Exchange)
        BY EmptySeq DEF WindowInit
    <2>2. Len(contents) <= MaxItems
        BY <2>1, WindowBounds
    <2>3. WindowTypeOK
        BY <2>1, <2>2 DEF WindowInit, WindowTypeOK
    <2> QED
        BY <2>1, <2>3 DEF WindowInv
<1>2. WindowInv /\ [WindowNext]_windowVars => WindowInv'
    BY WindowStep
<1> QED
    BY <1>1, <1>2, PTL DEF WindowSpec

\* The items, the exchanges and the limit keep their types and bounds.
THEOREM WindowTypeCorrect == WindowSpec => []WindowTypeOK
<1>1. WindowInv => WindowTypeOK
    BY DEF WindowInv
<1> QED
    BY <1>1, WindowInductive, PTL

------------------------------------------------------------------------------
(* Quotations of quotations *)

\* The words of a reply are those of the versions its input was given, as each
\* exchange it quotes was given no others.
IsWords(w) ==
    w = [l \in DOMAIN exchanges |->
            exchanges[l].given \cup UNION {w[k] : k \in exchanges[l].dialogue}]

LEMMA WordsAreGiven ==
    ASSUME WindowTypeOK, \A l \in DOMAIN exchanges : Passed(l)
    PROVE  NothingReturnsByQuotation
<1> DEFINE last == Len(exchanges)
           w == [l \in DOMAIN exchanges |-> exchanges[l].given]
           G == {n \in Nat : \A l \in 1..n : l <= last => Words[l] \subseteq exchanges[l].given}
<1>1. last \in Nat /\ DOMAIN exchanges = 1..last
    BY ExchangeShape
<1>2. \A l \in DOMAIN exchanges : exchanges[l].dialogue \subseteq 1..l - 1
    BY DEF WindowTypeOK
<1>3. \A l \in DOMAIN exchanges : \A k \in exchanges[l].dialogue :
          k \in DOMAIN exchanges /\ exchanges[k].given \subseteq exchanges[l].given
    BY <1>1, <1>2 DEF Passed
<1>4. IsWords(w)
    <2>1. ASSUME NEW l \in DOMAIN exchanges
          PROVE  w[l] = exchanges[l].given \cup UNION {w[k] : k \in exchanges[l].dialogue}
        BY <1>3
    <2> QED
        BY <2>1 DEF IsWords
<1> HIDE DEF w
<1>5. Words = CHOOSE v : IsWords(v)
    BY DEF Words, IsWords
<1>6. IsWords(Words)
    BY <1>4, <1>5
<1>7. ASSUME NEW l \in DOMAIN exchanges
      PROVE  Words[l] = exchanges[l].given \cup UNION {Words[k] : k \in exchanges[l].dialogue}
    <2> DEFINE v == Words
    <2>1. IsWords(v)
        BY <1>6
    <2> HIDE DEF v
    <2>2. v[l] = exchanges[l].given \cup UNION {v[k] : k \in exchanges[l].dialogue}
        BY <2>1 DEF IsWords
    <2> QED
        BY <2>2 DEF v
<1>8. 0 \in G
    OBVIOUS
<1>9. ASSUME NEW n \in G
      PROVE  n + 1 \in G
    <2> SUFFICES ASSUME NEW l \in 1..n + 1, l <= last
                 PROVE  Words[l] \subseteq exchanges[l].given
        OBVIOUS
    <2>1. l \in DOMAIN exchanges
        BY <1>1
    <2>2. ASSUME NEW k \in exchanges[l].dialogue
          PROVE  Words[k] \subseteq exchanges[l].given
        <3>1. k \in 1..n /\ k <= last
            BY <1>1, <1>2, <2>1
        <3>2. Words[k] \subseteq exchanges[k].given
            BY <3>1
        <3> QED
            BY <1>3, <2>1, <3>2
    <2> QED
        BY <1>7, <2>1, <2>2
<1>10. \A n \in Nat : n \in G
    <2>1. G \in SUBSET Nat
        OBVIOUS
    <2> HIDE DEF G
    <2> QED
        BY <1>8, <1>9, <2>1, AllNumbers
<1>11. ASSUME NEW l \in DOMAIN exchanges
       PROVE  Words[l] \subseteq exchanges[l].given
    <2>1. l \in Nat /\ l \in 1..l /\ l <= last /\ l \in G
        BY <1>1, <1>10
    <2> QED
        BY <2>1
<1> QED
    BY <1>11 DEF NothingReturnsByQuotation

\* No reply is made from the words of an item that is not given for its own
\* input, however many replies have passed them on, as long as no restart
\* raises the limit within the dialogue (_prepare_memory_context,
\* _propose_dialogue_assistance and dialogue_exclusions).
THEOREM NothingComesBack == WindowSpec => []NothingReturnsUnlessRaised
<1>1. WindowInv => NothingReturnsUnlessRaised
    BY WordsAreGiven DEF WindowInv, NothingReturnsUnlessRaised
<1> QED
    BY <1>1, WindowInductive, PTL

------------------------------------------------------------------------------
(* Changes of the items: module RelationshipChanges *)

USE ChangeBounds

------------------------------------------------------------------------------
(* Types *)

\* One record is appended, at the time of the command.
LEMMA Recorded ==
    ASSUME TypeOK, NEW t \in Time, Received(t),
           NEW operation \in Operations, NEW status \in Statuses, NEW target \in Nat,
           NEW before \in Nat, NEW after \in Nat, NEW id \in 0..MaxChanges,
           Record(t, operation, status, target, before, after, id)
    PROVE  /\ changes' \in Seq(Change)
           /\ Len(changes') = Len(changes) + 1
           /\ Len(changes') <= MaxChanges
           /\ This \in Requests
           /\ \A n \in 1..Len(changes) : changes'[n] = changes[n]
           /\ changes'[Len(changes) + 1] =
                [operation |-> operation, status |-> status, target |-> target,
                 before |-> before, after |-> after, pending |-> id, at |-> t]
<1> DEFINE record == [operation |-> operation, status |-> status, target |-> target,
                      before |-> before, after |-> after, pending |-> id, at |-> t]
<1>1. record \in Change
  BY DEF Change
<1>2. changes \in Seq(Change) /\ Len(changes) \in Nat /\ Len(changes) <= MaxChanges
  BY DEF TypeOK
<1>3. changes' = Append(changes, record)
  BY DEF Record
<1>4. Len(changes) < MaxChanges
  BY DEF Received
<1> HIDE DEF record
<1>5. changes' \in Seq(Change) /\ Len(changes') = Len(changes) + 1
      /\ changes'[Len(changes) + 1] = record
      /\ \A n \in 1..Len(changes) : changes'[n] = changes[n]
  BY <1>1, <1>2, <1>3
<1> QED
  BY <1>2, <1>4, <1>5 DEF record, This, Requests

\* A refused command changes the history alone.
LEMMA Refusals ==
    ASSUME TypeOK, NEW t \in Time, Received(t),
           NEW operation \in Operations, NEW status \in Statuses, NEW target \in Nat,
           NEW before \in Nat, NEW id \in 0..MaxChanges,
           Refuse(t, operation, status, target, before, id)
    PROVE  TypeOK'
<1>1. Record(t, operation, status, target, before, 0, id) /\ items' = items /\ pending' = pending
  BY DEF Refuse
<1>2. changes' \in Seq(Change) /\ Len(changes') = Len(changes) + 1 /\ Len(changes') <= MaxChanges
  BY <1>1, Recorded
<1> QED
  BY <1>1, <1>2 DEF TypeOK, Pending, Requests

LEMMA Versions ==
    ASSUME TypeOK, NEW target \in 0..Len(items)
    PROVE  /\ Version(target) \in Nat
           /\ target # 0 => target \in DOMAIN items /\ items[target] \in Item
                            /\ Version(target) = items[target].version
                            /\ Version(target) \in Nat \ {0}
<1>1. items \in Seq(Item) /\ DOMAIN items = 1..Len(items)
  BY DEF TypeOK
<1>2. target # 0 => target \in DOMAIN items /\ items[target] \in Item
  BY <1>1
<1>3. target # 0 => items[target].version \in Nat \ {0}
  BY <1>2 DEF Item
<1> QED
  BY <1>2, <1>3 DEF Version

LEMMA ConfirmedType ==
    ASSUME TypeOK, NEW t \in Time, Received(t), NEW p \in pending, StillApplies(p)
    PROVE  /\ Confirmed(p, t) \in Item
           /\ p.target \in 0..Len(items)
<1>1. p \in Pending
  BY DEF TypeOK
<1>2. p.target \in 0..Len(items)
  BY <1>1 DEF StillApplies, Pending, TypeOK
<1>3. This \in Requests
  BY DEF Received, This, Requests, TypeOK
<1>4. Version(p.target) + 1 \in Nat \ {0}
  BY <1>2, Versions
<1> DEFINE old == IF p.target = 0 THEN <<>> ELSE items[p.target].sources
<1>5. old \in Seq(Requests)
  BY <1>2, Versions DEF Item
<1>6. Append(old, p.id) \in Seq(Requests)
  BY <1>1, <1>5 DEF Pending
<1> QED
  BY <1>1, <1>2, <1>3, <1>4, <1>6 DEF Confirmed, Item, Pending

LEMMA WithdrawnType ==
    ASSUME NEW item \in Item
    PROVE  /\ Withdrawn(item) \in Item
           /\ Withdrawn(item).version = item.version + 1
           /\ Withdrawn(item).active = FALSE
<1>1. item.version + 1 \in Nat \ {0}
  BY DEF Item
<1> DEFINE next == item.version + 1
<1>2. [item EXCEPT !.version = next, !.active = FALSE] \in Item
  <2> HIDE DEF next
  <2>1. next \in Nat \ {0}
    BY <1>1 DEF next
  <2> QED
    BY <2>1 DEF Item
<1>3. Withdrawn(item) = [item EXCEPT !.version = next, !.active = FALSE]
  BY DEF Withdrawn
<1>4. [item EXCEPT !.version = next, !.active = FALSE].version = next
  BY DEF Item
<1>5. [item EXCEPT !.version = next, !.active = FALSE].active = FALSE
  BY DEF Item
<1> QED
  BY <1>2, <1>3, <1>4, <1>5

------------------------------------------------------------------------------
(* Five kinds of command, by what they leave behind *)

\* A record of a command that changed no item.
Noted(t) ==
    /\ Received(t)
    /\ \E operation \in Operations, status \in Statuses, target \in Nat, before \in Nat,
         id \in 0..MaxChanges : Record(t, operation, status, target, before, 0, id)

Nothing(t) == Noted(t) /\ items' = items /\ pending' = pending

Dropped(t) == Noted(t) /\ items' = items /\ pending # {} /\ pending' = {}

Proposed(t) == \E target \in 0..Len(items), content \in Contents, until \in Limits :
                   Propose(t, target, content, until)

TakenBack(t) == \E i \in 1..Len(items) : Withdraw(t, i)

LEMMA Refusing ==
    ASSUME NEW t, Received(t),
           NEW operation \in Operations, NEW status \in Statuses, NEW target \in Nat,
           NEW before \in Nat, NEW id \in 0..MaxChanges,
           Refuse(t, operation, status, target, before, id)
    PROVE  Nothing(t)
  BY DEF Refuse, Nothing, Noted

LEMMA Kinds ==
    ASSUME TypeOK, NEW t \in Time, Answer(t)
    PROVE  Nothing(t) \/ Dropped(t) \/ Proposed(t) \/ TakenBack(t) \/ Confirm(t)
<1> USE DEF Operations, Statuses
<1>0. 0 \in Nat /\ 0 \in 0..MaxChanges /\ Len(items) \in Nat
  BY DEF TypeOK
<1>id. \A p \in pending : p.id \in 0..MaxChanges /\ p.target \in Nat
  BY DEF TypeOK, Pending, Requests
<1>1. CASE Invalid(t)
  BY <1>0, <1>1, Refusing DEF Invalid
<1>2. ASSUME NEW i \in 1..Len(items) + 1, NEW operation \in {"correct", "withdraw"},
             Missing(t, operation, i) \/ Outdated(t, operation, i)
      PROVE  Nothing(t)
  <2>1. i \in Nat
    BY <1>0
  <2>2. CASE Missing(t, operation, i)
    BY <1>0, <2>1, <2>2, Refusing DEF Missing
  <2>3. CASE Outdated(t, operation, i)
    <3>1. i \in 0..Len(items) /\ i # 0 /\ Version(i) = items[i].version
      BY <1>0, <2>3 DEF Outdated, TypeOK, Version
    <3>2. items[i].version \in Nat
      BY <3>1, Versions
    <3> QED
      BY <1>0, <2>1, <2>3, <3>2, Refusing DEF Outdated
  <2> QED
    BY <1>2, <2>2, <2>3
<1>3. CASE \E i \in 1..Len(items) : Withdraw(t, i)
  BY <1>3 DEF TakenBack
<1>4. ASSUME NEW target \in 0..Len(items), Blocked(t, target)
      PROVE  Nothing(t)
  <2>1. Version(target) \in Nat /\ target \in Nat /\ Operation(target) \in Operations
    BY <1>0, Versions DEF Operation
  <2>2. PICK p \in pending : Refuse(t, Operation(target), "rejected", target, Version(target), p.id)
    BY <1>4 DEF Blocked
  <2> QED
    BY <1>4, <1>id, <2>1, <2>2, Refusing DEF Blocked
<1>5. ASSUME NEW target \in 0..Len(items), NEW content \in Contents, NEW until \in Limits,
             Pointless(t, target, content, until) \/ Propose(t, target, content, until)
      PROVE  Nothing(t) \/ Proposed(t)
  <2>1. Version(target) \in Nat /\ target \in Nat /\ Operation(target) \in Operations
    BY <1>0, Versions DEF Operation
  <2> QED
    BY <1>0, <1>5, <2>1, Refusing DEF Pointless, Proposed
<1>6. ASSUME NEW operation \in {"confirm", "cancel"}, NEW id \in Requests \cup {0},
             Unknown(t, operation, id)
      PROVE  Nothing(t)
  BY <1>0, <1>6, Refusing DEF Unknown
<1>7. CASE Cancel(t)
  BY <1>0, <1>id, <1>7 DEF Cancel, Dropped, Noted
<1>8. CASE Expire(t)
  BY <1>0, <1>id, <1>8 DEF Expire, Dropped, Noted
<1>9. CASE Overtaken(t)
  <2>1. PICK p \in pending : Record(t, "confirm", "stale", p.target, Version(p.target), 0, p.id)
    BY <1>9 DEF Overtaken
  <2>2. p.target \in Nat /\ p.id \in 0..MaxChanges
    BY <1>id
  <2>3. p.target \in 0..Len(items)
    BY DEF TypeOK, Pending
  <2>4. Version(p.target) \in Nat
    BY <2>3, Versions
  <2> QED
    BY <1>9, <2>1, <2>2, <2>4 DEF Overtaken, Dropped, Noted
<1>10. CASE Confirm(t)
  BY <1>10
<1> QED
  BY <1>1, <1>2, <1>3, <1>4, <1>5, <1>6, <1>7, <1>8, <1>9, <1>10 DEF Answer

LEMMA NotedKeepsType ==
    ASSUME TypeOK, NEW t \in Time, Noted(t), items' = items, pending' = pending \/ pending' = {}
    PROVE  TypeOK'
<1>1. PICK operation \in Operations, status \in Statuses, target \in Nat, before \in Nat,
           id \in 0..MaxChanges : Record(t, operation, status, target, before, 0, id)
  BY DEF Noted
<1>2. changes' \in Seq(Change) /\ Len(changes') = Len(changes) + 1 /\ Len(changes') <= MaxChanges
  BY <1>1, Recorded DEF Noted
<1>3. Len(changes) \in Nat
  BY DEF TypeOK
<1> QED
  BY <1>2, <1>3 DEF TypeOK, Pending, Requests

LEMMA TypeStep == TypeOK /\ [Next]_vars => TypeOK'
<1> SUFFICES ASSUME TypeOK, [Next]_vars
             PROVE  TypeOK'
  OBVIOUS
<1>1. CASE UNCHANGED vars
  BY <1>1 DEF TypeOK, vars
<1>2. ASSUME NEW t \in Time, Answer(t)
      PROVE  TypeOK'
  <2>0. t \in Nat /\ Len(changes) \in Nat /\ Len(items) \in Nat /\ DOMAIN items = 1..Len(items)
    BY DEF Time, TypeOK
  <2>1. CASE Nothing(t) \/ Dropped(t)
    BY <2>1, NotedKeepsType DEF Nothing, Dropped
  <2>2. ASSUME NEW target \in 0..Len(items), NEW content \in Contents, NEW until \in Limits,
               Propose(t, target, content, until)
        PROVE  TypeOK'
    <3>1. /\ Received(t)
          /\ Record(t, Operation(target), "required", target, Version(target), 0, This)
          /\ items' = items
      BY <2>2 DEF Propose
    <3>2. Version(target) \in Nat /\ target \in Nat /\ Operation(target) \in Operations
      BY Versions DEF Operation, Operations
    <3>3. This \in Requests /\ This \in 0..MaxChanges /\ "required" \in Statuses
      BY <2>0, <3>1 DEF Received, This, Requests, Statuses
    <3>4. changes' \in Seq(Change) /\ Len(changes') = Len(changes) + 1 /\ Len(changes') <= MaxChanges
      BY <3>1, <3>2, <3>3, Recorded
    <3> DEFINE p == [id |-> This, content |-> content, target |-> target,
                     expected |-> Version(target), until |-> until, at |-> t,
                     expires |-> IF until = Never THEN t + Ttl ELSE Least(t + Ttl, until)]
    <3>5. pending' = {p}
      BY <2>2 DEF Propose
    <3>6. (IF until = Never THEN t + Ttl ELSE Least(t + Ttl, until)) \in Nat
      BY <2>0 DEF Least, Time, Never
    <3>7. p \in Pending
      BY <3>2, <3>3, <3>6 DEF Pending
    <3>8. p.id = Len(changes) + 1 /\ p.target = target
      BY DEF This
    <3> HIDE DEF p
    <3>9. pending' \subseteq Pending /\ \A q, r \in pending' : q = r
      BY <3>5, <3>7
    <3>10. \A q \in pending' : q.id <= Len(changes') /\ q.target <= Len(items')
      BY <2>0, <3>1, <3>4, <3>5, <3>8
    <3> QED
      BY <3>1, <3>4, <3>9, <3>10 DEF TypeOK
  <2>3. ASSUME NEW i \in 1..Len(items), Withdraw(t, i)
        PROVE  TypeOK'
    <3>1. items[i] \in Item /\ items \in Seq(Item)
      BY <2>0 DEF TypeOK
    <3>2. /\ Received(t)
          /\ items' = [items EXCEPT ![i] = Withdrawn(items[i])]
          /\ pending' = pending
          /\ Record(t, "withdraw", "completed", i, items[i].version, Withdrawn(items[i]).version, 0)
      BY <2>3 DEF Withdraw
    <3>3. /\ Withdrawn(items[i]) \in Item
          /\ items[i].version \in Nat /\ Withdrawn(items[i]).version \in Nat
      BY <3>1, WithdrawnType DEF Item
    <3>4. "withdraw" \in Operations /\ "completed" \in Statuses /\ 0 \in 0..MaxChanges /\ i \in Nat
      BY DEF Operations, Statuses
    <3>5. changes' \in Seq(Change) /\ Len(changes') = Len(changes) + 1 /\ Len(changes') <= MaxChanges
      BY <3>2, <3>3, <3>4, Recorded
    <3>6. items' \in Seq(Item) /\ Len(items') = Len(items)
      BY <3>1, <3>2, <3>3
    <3> QED
      BY <2>0, <3>2, <3>5, <3>6 DEF TypeOK, Pending, Requests
  <2>4. CASE Confirm(t)
    <3>1. PICK p \in pending :
            /\ StillApplies(p)
            /\ items' = IF p.target = 0 THEN Append(items, Confirmed(p, t))
                        ELSE [items EXCEPT ![p.target] = Confirmed(p, t)]
            /\ Record(t, "confirm", "completed", IF p.target = 0 THEN Len(items) + 1 ELSE p.target,
                      Version(p.target), Version(p.target) + 1, p.id)
      BY <2>4 DEF Confirm
    <3>2. Received(t) /\ pending' = {}
      BY <2>4 DEF Confirm
    <3>3. Confirmed(p, t) \in Item /\ p.target \in 0..Len(items)
      BY <3>1, <3>2, ConfirmedType
    <3>4. Version(p.target) \in Nat
      BY <3>3, Versions
    <3>5. "confirm" \in Operations /\ "completed" \in Statuses /\ p.id \in 0..MaxChanges
      BY DEF Operations, Statuses, TypeOK, Pending, Requests
    <3>6. (IF p.target = 0 THEN Len(items) + 1 ELSE p.target) \in Nat /\ Version(p.target) + 1 \in Nat
      BY <2>0, <3>3, <3>4
    <3>7. changes' \in Seq(Change) /\ Len(changes') = Len(changes) + 1 /\ Len(changes') <= MaxChanges
      BY <3>1, <3>2, <3>4, <3>5, <3>6, Recorded
    <3>8. items' \in Seq(Item)
      <4>1. items \in Seq(Item)
        BY DEF TypeOK
      <4> QED
        BY <3>1, <3>3, <4>1
    <3> QED
      BY <3>2, <3>7, <3>8 DEF TypeOK
  <2> QED
    BY <1>2, <2>1, <2>2, <2>3, <2>4, Kinds DEF Proposed, TakenBack
<1> QED
  BY <1>1, <1>2 DEF Next

\* Types hold for every set of contents, time to live and number of commands.
THEOREM TypeCorrect == Spec => []TypeOK
<1>1. Init => TypeOK
  BY DEF Init, TypeOK
<1> QED
  BY <1>1, TypeStep, PTL DEF Spec

------------------------------------------------------------------------------
(* A withdrawal is final *)

LEMMA FinalStep ==
    ASSUME TypeOK, [Next]_vars
    PROVE  \A i \in DOMAIN items : ~items[i].active => i \in DOMAIN items' /\ items'[i] = items[i]
<1> SUFFICES ASSUME NEW i \in DOMAIN items, ~items[i].active
             PROVE  i \in DOMAIN items' /\ items'[i] = items[i]
  OBVIOUS
<1>0. items \in Seq(Item) /\ Len(items) \in Nat /\ DOMAIN items = 1..Len(items)
  BY DEF TypeOK
<1>1. CASE UNCHANGED vars
  BY <1>1 DEF vars
<1>2. ASSUME NEW t \in Time, Answer(t)
      PROVE  i \in DOMAIN items' /\ items'[i] = items[i]
  <2>1. CASE Nothing(t) \/ Dropped(t) \/ Proposed(t)
    BY <2>1 DEF Nothing, Dropped, Proposed, Propose
  <2>2. CASE TakenBack(t)
    <3>1. PICK j \in 1..Len(items) : items[j].active /\ items' = [items EXCEPT ![j] = Withdrawn(items[j])]
      BY <2>2 DEF TakenBack, Withdraw
    <3> QED
      BY <1>0, <3>1
  <2>3. CASE Confirm(t)
    <3>1. PICK p \in pending :
            /\ StillApplies(p)
            /\ items' = IF p.target = 0 THEN Append(items, Confirmed(p, t))
                        ELSE [items EXCEPT ![p.target] = Confirmed(p, t)]
      BY <2>3 DEF Confirm
    <3>2. CASE p.target = 0
      BY <1>0, <3>1, <3>2
    <3>3. CASE p.target # 0
      <4>1. p.target \in DOMAIN items /\ items[p.target].active
        BY <3>1, <3>3 DEF StillApplies
      <4> QED
        BY <1>0, <3>1, <3>3, <4>1
    <3> QED
      BY <3>2, <3>3
  <2> QED
    BY <1>2, <2>1, <2>2, <2>3, Kinds
<1> QED
  BY <1>1, <1>2 DEF Next

\* No command changes a withdrawn item, whatever waits for its confirmation.
THEOREM WithdrawalsAreFinal == Spec => WithdrawnStaysWithdrawn
<1> DEFINE Final == \A i \in DOMAIN items :
                        ~items[i].active => i \in DOMAIN items' /\ items'[i] = items[i]
<1>1. TypeOK /\ [Next]_vars => Final
  BY FinalStep
<1>2. Spec => [][Final]_vars
  BY <1>1, TypeCorrect, PTL DEF Spec
<1> QED
  BY <1>2 DEF WithdrawnStaysWithdrawn

------------------------------------------------------------------------------
(* What is held, as a function of the items *)

ItemKeys == (Nat \ {0}) \X (Nat \ {0})

RecordOf(i, item) == [key |-> <<i, item.version>>, fact |-> Fact(item.content, item.until),
                      confirmed |-> item.confirmation,
                      proposed |-> item.sources[Len(item.sources)]]

ActiveOf(s) == {j \in DOMAIN s : s[j].active}

HeldOf(s) == {RecordOf(i, s[i]) : i \in ActiveOf(s)}

KeptOf(held, key) == {h \in held : h.key \notin {key}}

LEMMA HeldIsHeldOf == Held = HeldOf(items)
  BY DEF Held, HeldOf, RecordOf, ActiveOf

LEMMA KeysOf ==
    ASSUME NEW i, NEW item
    PROVE  RecordOf(i, item).key = <<i, item.version>>
  BY DEF RecordOf

\* An item is held by one record, named by the item and its version.
LEMMA OneRecordEach ==
    ASSUME NEW s, NEW i \in ActiveOf(s), NEW h \in HeldOf(s), h.key = <<i, s[i].version>>
    PROVE  h = RecordOf(i, s[i])
<1>1. PICK j \in ActiveOf(s) : h = RecordOf(j, s[j])
  BY DEF HeldOf
<1>2. <<j, s[j].version>> = <<i, s[i].version>>
  BY <1>1, KeysOf
<1>3. j = i
  BY <1>2
<1> QED
  BY <1>1, <1>3

LEMMA HeldAppend ==
    ASSUME NEW s \in Seq(Item), NEW item \in Item, item.active
    PROVE  HeldOf(Append(s, item)) = HeldOf(s) \cup {RecordOf(Len(s) + 1, item)}
<1> DEFINE r == Append(s, item)
<1>1. /\ Len(s) \in Nat /\ DOMAIN s = 1..Len(s) /\ DOMAIN r = 1..Len(s) + 1
      /\ r[Len(s) + 1] = item /\ \A i \in 1..Len(s) : r[i] = s[i]
  OBVIOUS
<1> HIDE DEF r
<1>2. ActiveOf(r) = ActiveOf(s) \cup {Len(s) + 1}
  BY <1>1 DEF ActiveOf
<1>3. \A i \in ActiveOf(s) : r[i] = s[i]
  BY <1>1 DEF ActiveOf
<1>4. HeldOf(r) = HeldOf(s) \cup {RecordOf(Len(s) + 1, item)}
  BY <1>1, <1>2, <1>3 DEF HeldOf
<1> QED
  BY <1>4 DEF r

LEMMA HeldReplace ==
    ASSUME NEW s \in Seq(Item), NEW k \in ActiveOf(s), NEW item \in Item, item.active
    PROVE  HeldOf([s EXCEPT ![k] = item])
             = KeptOf(HeldOf(s), <<k, s[k].version>>) \cup {RecordOf(k, item)}
<1> DEFINE r == [s EXCEPT ![k] = item]
           kept == {h \in HeldOf(s) : h.key \notin {<<k, s[k].version>>}}
<1>1. /\ DOMAIN r = DOMAIN s /\ k \in DOMAIN s
      /\ r[k] = item /\ \A i \in DOMAIN s \ {k} : r[i] = s[i]
  BY DEF ActiveOf
<1> HIDE DEF r
<1>2. ActiveOf(r) = ActiveOf(s)
  BY <1>1 DEF ActiveOf
<1>3. ASSUME NEW i \in ActiveOf(s), i # k
      PROVE  r[i] = s[i] /\ RecordOf(i, s[i]) \in kept
  <2>1. <<i, s[i].version>> # <<k, s[k].version>>
    BY <1>3
  <2> QED
    BY <1>1, <1>3, <2>1, KeysOf DEF HeldOf, ActiveOf
<1>4. HeldOf(r) \subseteq kept \cup {RecordOf(k, item)}
  <2> SUFFICES ASSUME NEW i \in ActiveOf(r)
               PROVE  RecordOf(i, r[i]) \in kept \cup {RecordOf(k, item)}
    BY DEF HeldOf
  <2> QED
    BY <1>1, <1>2, <1>3
<1>5. ASSUME NEW h \in kept
      PROVE  h \in HeldOf(r)
  <2>1. PICK i \in ActiveOf(s) : h = RecordOf(i, s[i])
    BY DEF HeldOf
  <2>2. i # k
    BY <2>1, KeysOf
  <2> QED
    BY <1>2, <1>3, <2>1, <2>2 DEF HeldOf
<1>6. RecordOf(k, item) \in HeldOf(r)
  BY <1>1, <1>2 DEF HeldOf
<1> QED
  BY <1>4, <1>5, <1>6 DEF r, KeptOf

LEMMA HeldRemove ==
    ASSUME NEW s \in Seq(Item), NEW k \in ActiveOf(s), NEW item \in Item, item.active = FALSE
    PROVE  /\ HeldOf([s EXCEPT ![k] = item]) = HeldOf(s) \ {RecordOf(k, s[k])}
           /\ RecordOf(k, s[k]) \in HeldOf(s)
<1> DEFINE r == [s EXCEPT ![k] = item]
<1>1. /\ DOMAIN r = DOMAIN s /\ k \in DOMAIN s
      /\ r[k] = item /\ \A i \in DOMAIN s \ {k} : r[i] = s[i]
  BY DEF ActiveOf
<1> HIDE DEF r
<1>2. ActiveOf(r) = ActiveOf(s) \ {k}
  BY <1>1 DEF ActiveOf
<1>3. \A i \in ActiveOf(s) \ {k} : r[i] = s[i] /\ RecordOf(i, s[i]) # RecordOf(k, s[k])
  <2> SUFFICES ASSUME NEW i \in ActiveOf(s) \ {k}
               PROVE  r[i] = s[i] /\ RecordOf(i, s[i]) # RecordOf(k, s[k])
    OBVIOUS
  <2>1. <<i, s[i].version>> # <<k, s[k].version>>
    OBVIOUS
  <2> QED
    BY <1>1, <2>1, KeysOf DEF ActiveOf
<1>4. HeldOf(r) = HeldOf(s) \ {RecordOf(k, s[k])}
  BY <1>2, <1>3 DEF HeldOf
<1>5. RecordOf(k, s[k]) \in HeldOf(s)
  BY DEF HeldOf
<1> QED
  BY <1>4, <1>5 DEF r

------------------------------------------------------------------------------
(* RelationshipChanges implements ConfirmedChange *)

OpenOf(p) == [by |-> p.id, fact |-> Fact(p.content, p.until), expires |-> p.expires,
              over |-> IF p.target = 0 THEN {} ELSE {<<p.target, p.expected>>}]

LEMMA OpenIsOpenOf == Open = {OpenOf(p) : p \in pending}
  BY DEF Open, OpenOf

LEMMA OpenFields ==
    ASSUME NEW p
    PROVE  /\ OpenOf(p).by = p.id /\ OpenOf(p).fact = Fact(p.content, p.until)
           /\ OpenOf(p).expires = p.expires
           /\ p.target = 0 => OpenOf(p).over = {}
           /\ p.target # 0 => OpenOf(p).over = {<<p.target, p.expected>>}
  BY DEF OpenOf

\* Every command is an input handled at its own time.
LEMMA Handles ==
    ASSUME TypeOK, NEW t \in Time, Received(t),
           NEW operation \in Operations, NEW status \in Statuses, NEW target \in Nat,
           NEW before \in Nat, NEW after \in Nat, NEW id \in 0..MaxChanges,
           Record(t, operation, status, target, before, after, id)
    PROVE  Promise!Handled /\ Len(changes)' = Len(changes) + 1 /\ Now' = t
<1> DEFINE record == [operation |-> operation, status |-> status, target |-> target,
                      before |-> before, after |-> after, pending |-> id, at |-> t]
<1>0. changes' \in Seq(Change) /\ Len(changes') = Len(changes) + 1
      /\ changes'[Len(changes) + 1] = record
  BY Recorded
<1>1. /\ changes' \in Seq(Change)
      /\ Len(changes') = Len(changes) + 1
      /\ changes'[Len(changes) + 1].at = t
  BY <1>0
<1>2. Len(changes) \in Nat /\ t \in Nat /\ t >= Now
  BY DEF TypeOK, Time, Received
<1>3. Now' = t
  <2>1. changes' # <<>>
    BY <1>1, <1>2
  <2> QED
    BY <1>1, <2>1 DEF Now
<1> QED
  BY <1>1, <1>2, <1>3 DEF Promise!Handled

LEMMA NotedHandles ==
    ASSUME TypeOK, NEW t \in Time, Noted(t)
    PROVE  Promise!Handled
<1>1. PICK operation \in Operations, status \in Statuses, target \in Nat, before \in Nat,
           id \in 0..MaxChanges : Record(t, operation, status, target, before, 0, id)
  BY DEF Noted
<1> QED
  BY <1>1, Handles DEF Noted

LEMMA HeldKey ==
    ASSUME TypeOK, NEW i \in DOMAIN items, items[i].active
    PROVE  <<i, items[i].version>> \in Promise!HeldKeys
<1>1. RecordOf(i, items[i]) \in Held
  BY HeldIsHeldOf DEF HeldOf, ActiveOf
<1> QED
  BY <1>1, KeysOf DEF Promise!HeldKeys

LEMMA HeldKeyOf ==
    ASSUME TypeOK, NEW key \in Promise!HeldKeys
    PROVE  \E i \in DOMAIN items : key = <<i, items[i].version>>
<1>1. PICK h \in Held : key = h.key
  BY DEF Promise!HeldKeys
<1>2. PICK i \in ActiveOf(items) : h = RecordOf(i, items[i])
  BY <1>1, HeldIsHeldOf DEF HeldOf
<1> QED
  BY <1>1, <1>2, KeysOf DEF ActiveOf

LEMMA Proposes ==
    ASSUME TypeOK, NEW t \in Time, NEW target \in 0..Len(items), NEW content \in Contents,
           NEW until \in Limits, Propose(t, target, content, until)
    PROVE  Promise!Propose
<1> DEFINE expires == IF until = Never THEN t + Ttl ELSE Least(t + Ttl, until)
           p == [id |-> This, content |-> content, target |-> target,
                 expected |-> Version(target), until |-> until, at |-> t, expires |-> expires]
<1>1. /\ Received(t) /\ pending = {} /\ items' = items /\ t < until /\ Proposable(target)
      /\ Record(t, Operation(target), "required", target, Version(target), 0, This)
      /\ pending' = {p}
  BY DEF Propose
<1>2. Version(target) \in Nat /\ target \in Nat /\ Operation(target) \in Operations
      /\ (target # 0 => target \in DOMAIN items /\ Version(target) = items[target].version
                        /\ Version(target) \in Nat \ {0})
  BY Versions DEF Operation, Operations
<1>3. "required" \in Statuses /\ This \in 0..MaxChanges /\ Len(changes) \in Nat
  BY <1>1 DEF Statuses, This, Received, TypeOK
<1>4. Promise!Handled /\ Len(changes)' = Len(changes) + 1 /\ Now' = t
  BY <1>1, <1>2, <1>3, Handles
<1>5. t \in Nat /\ until \in Nat /\ expires > t
  BY <1>1 DEF Time, Least, Never
<1>6. /\ p.id = Len(changes) + 1 /\ p.content = content /\ p.target = target
      /\ p.expected = Version(target) /\ p.until = until /\ p.expires = expires
  BY DEF This
<1> HIDE DEF p, expires
<1> DEFINE o == OpenOf(p)
<1>7. Open' = {o}
  BY <1>1 DEF Open, OpenOf
<1>8. Open = {}
  BY <1>1, OpenIsOpenOf
<1>9. /\ o.by = Len(changes) + 1 /\ o.fact = Fact(content, until) /\ o.expires = expires
      /\ target = 0 => o.over = {}
      /\ target # 0 => o.over = {<<target, Version(target)>>}
  BY <1>6, OpenFields
<1> HIDE DEF o
<1>10. o.fact \in Contents \X Limits
  BY <1>9 DEF Fact
<1>11. o.over \subseteq (Nat \ {0}) \X (Nat \ {0}) /\ o.over \subseteq Promise!HeldKeys
       /\ \A k, l \in o.over : k = l
  <2>1. CASE target = 0
    BY <1>9, <2>1
  <2>2. CASE target # 0
    <3>1. o.over = {<<target, Version(target)>>}
      BY <1>9, <2>2
    <3>2. items[target].active
      BY <1>1, <2>2 DEF Proposable
    <3>3. <<target, Version(target)>> \in Promise!HeldKeys
      BY <1>2, <2>2, <3>2, HeldKey
    <3>4. <<target, Version(target)>> \in (Nat \ {0}) \X (Nat \ {0})
      BY <1>2, <2>2
    <3> QED
      BY <3>1, <3>3, <3>4
  <2> QED
    BY <2>1, <2>2
<1>12. Held' = Held
  BY <1>1 DEF Held
<1>13. Promise!Proposal(o)
  BY <1>3, <1>9, <1>10, <1>11 DEF Promise!Proposal
<1> QED
  BY <1>4, <1>5, <1>7, <1>8, <1>9, <1>11, <1>12, <1>13 DEF Promise!Propose

LEMMA Confirms ==
    ASSUME TypeOK, NEW t \in Time, Confirm(t)
    PROVE  Promise!Confirm
<1>1. PICK p \in pending :
        /\ InTime(p, t)
        /\ StillApplies(p)
        /\ items' = IF p.target = 0 THEN Append(items, Confirmed(p, t))
                    ELSE [items EXCEPT ![p.target] = Confirmed(p, t)]
        /\ Record(t, "confirm", "completed", IF p.target = 0 THEN Len(items) + 1 ELSE p.target,
                  Version(p.target), Version(p.target) + 1, p.id)
  BY DEF Confirm
<1>2. Received(t) /\ pending' = {}
  BY DEF Confirm
<1>3. Confirmed(p, t) \in Item /\ p.target \in 0..Len(items)
  BY <1>1, <1>2, ConfirmedType
<1>4. /\ Version(p.target) \in Nat
      /\ p.target # 0 => p.target \in DOMAIN items /\ Version(p.target) = items[p.target].version
  BY <1>3, Versions
<1>5. "confirm" \in Operations /\ "completed" \in Statuses /\ p.id \in 0..MaxChanges
  BY DEF Operations, Statuses, TypeOK, Pending, Requests
<1>6. /\ Len(items) \in Nat /\ Len(changes) \in Nat /\ items \in Seq(Item)
      /\ DOMAIN items = 1..Len(items)
      /\ p.id \in Nat /\ p.id <= Len(changes) /\ t \in Nat /\ p.expires \in Nat
  BY DEF TypeOK, Pending, Requests, Time
<1>7. (IF p.target = 0 THEN Len(items) + 1 ELSE p.target) \in Nat /\ Version(p.target) + 1 \in Nat
  BY <1>3, <1>4, <1>6
<1>8. Promise!Handled /\ Len(changes)' = Len(changes) + 1 /\ Now' = t
  BY <1>1, <1>2, <1>4, <1>5, <1>7, Handles
<1> DEFINE o == OpenOf(p)
           new == Confirmed(p, t)
           place == IF p.target = 0 THEN Len(items) + 1 ELSE p.target
           h == RecordOf(place, new)
<1>9. o \in Open /\ Open' = {}
  BY <1>2, OpenIsOpenOf DEF Open
<1>10. /\ o.by = p.id /\ o.fact = Fact(p.content, p.until) /\ o.expires = p.expires
       /\ p.target = 0 => o.over = {}
       /\ p.target # 0 => o.over = {<<p.target, p.expected>>}
  BY OpenFields
<1>11. /\ new.version = Version(p.target) + 1 /\ new.active = TRUE /\ new.confirmation = This
       /\ new.content = p.content /\ new.until = p.until
       /\ new.sources[Len(new.sources)] = p.id
  <2> DEFINE old == IF p.target = 0 THEN <<>> ELSE items[p.target].sources
  <2>1. old \in Seq(Requests)
    BY <1>3, Versions DEF Item
  <2>2. new.sources = Append(old, p.id)
    BY DEF Confirmed
  <2>3. Append(old, p.id)[Len(Append(old, p.id))] = p.id
    BY <1>5, <2>1
  <2> QED
    BY <2>2, <2>3 DEF Confirmed
<1>12. /\ h.key = <<place, Version(p.target) + 1>> /\ h.fact = o.fact
       /\ h.proposed = o.by /\ h.confirmed = This
  BY <1>10, <1>11 DEF RecordOf
<1> HIDE DEF o, new, h
<1>13. This = Len(changes)' /\ o.by < Len(changes)' /\ Now' < o.expires
  BY <1>1, <1>6, <1>8, <1>10 DEF This, InTime
<1>14. h.key \in ((Nat \ {0}) \X (Nat \ {0})) \ Promise!HeldKeys
  <2>1. place \in Nat \ {0} /\ Version(p.target) + 1 \in Nat \ {0}
    BY <1>3, <1>4, <1>6
  <2>2. \A i \in DOMAIN items : <<i, items[i].version>> # <<place, Version(p.target) + 1>>
    BY <1>3, <1>4, <1>6
  <2> QED
    BY <1>12, <2>1, <2>2, HeldKeyOf
<1> DEFINE kept == {g \in Held : g.key \notin o.over}
<1>15. o.over \subseteq Promise!HeldKeys /\ Held' = kept \cup {h}
  <2>1. new \in Item /\ new.active
    BY <1>3, <1>11 DEF new
  <2>2. CASE p.target = 0
    <3>1. items' = Append(items, new)
      BY <1>1, <2>2 DEF new
    <3>2. HeldOf(items') = HeldOf(items) \cup {h}
      BY <1>6, <2>1, <2>2, <3>1, HeldAppend DEF h
    <3>3. kept = Held /\ o.over = {}
      BY <1>10, <2>2
    <3>4. Held' = HeldOf(items')
      BY DEF Held, HeldOf, RecordOf, ActiveOf
    <3> QED
      BY <3>2, <3>3, <3>4, HeldIsHeldOf
  <2>3. CASE p.target # 0
    <3>1. items' = [items EXCEPT ![p.target] = new]
      BY <1>1, <2>3 DEF new
    <3>2. /\ p.target \in DOMAIN items /\ items[p.target].active
          /\ p.expected = items[p.target].version
      BY <1>1, <2>3 DEF StillApplies
    <3>3. p.target \in ActiveOf(items) /\ o.over = {<<p.target, items[p.target].version>>}
      BY <1>10, <2>3, <3>2 DEF ActiveOf
    <3>4. HeldOf(items') = KeptOf(HeldOf(items), <<p.target, items[p.target].version>>) \cup {h}
      <4>1. HeldOf([items EXCEPT ![p.target] = new])
              = KeptOf(HeldOf(items), <<p.target, items[p.target].version>>)
                  \cup {RecordOf(p.target, new)}
        <5>1. p.target \in ActiveOf(items)
          BY <3>3
        <5>2. items \in Seq(Item)
          BY <1>6
        <5> HIDE DEF kept, place
        <5> QED
          BY <2>1, <5>1, <5>2, HeldReplace, Zenon
      <4>2. h = RecordOf(p.target, new)
        BY <2>3 DEF h
      <4> QED
        BY <3>1, <4>1, <4>2
    <3>5. o.over \subseteq Promise!HeldKeys
      BY <3>2, <3>3, HeldKey
    <3>6. Held' = HeldOf(items')
      BY DEF Held, HeldOf, RecordOf, ActiveOf
    <3> QED
      BY <3>3, <3>4, <3>5, <3>6, HeldIsHeldOf DEF KeptOf
  <2> QED
    BY <2>2, <2>3
<1> QED
  BY <1>8, <1>9, <1>12, <1>13, <1>14, <1>15 DEF Promise!Confirm

LEMMA Withdraws ==
    ASSUME TypeOK, NEW t \in Time, NEW i \in 1..Len(items), Withdraw(t, i)
    PROVE  Promise!Withdraw
<1>1. /\ Received(t) /\ pending' = pending /\ items[i].active
      /\ items' = [items EXCEPT ![i] = Withdrawn(items[i])]
      /\ Record(t, "withdraw", "completed", i, items[i].version, Withdrawn(items[i]).version, 0)
  BY DEF Withdraw
<1>2. items \in Seq(Item) /\ DOMAIN items = 1..Len(items) /\ items[i] \in Item
  BY DEF TypeOK
<1>3. /\ Withdrawn(items[i]) \in Item /\ Withdrawn(items[i]).active = FALSE
      /\ items[i].version \in Nat /\ Withdrawn(items[i]).version \in Nat
  BY <1>2, WithdrawnType DEF Item
<1>4. "withdraw" \in Operations /\ "completed" \in Statuses /\ 0 \in 0..MaxChanges /\ i \in Nat
  BY DEF Operations, Statuses
<1>5. Promise!Handled
  BY <1>1, <1>3, <1>4, Handles
<1>6. i \in ActiveOf(items)
  BY <1>1, <1>2 DEF ActiveOf
<1>7. /\ HeldOf(items') = HeldOf(items) \ {RecordOf(i, items[i])}
      /\ RecordOf(i, items[i]) \in HeldOf(items)
  BY <1>1, <1>2, <1>3, <1>6, HeldRemove
<1>8. Held' = HeldOf(items')
  BY DEF Held, HeldOf, RecordOf, ActiveOf
<1>9. Open' = Open
  BY <1>1 DEF Open
<1> QED
  BY <1>5, <1>7, <1>8, <1>9, HeldIsHeldOf DEF Promise!Withdraw

LEMMA Implements == TypeOK /\ [Next]_vars => [Promise!Next]_(Promise!abstractVars)
<1> SUFFICES ASSUME TypeOK, [Next]_vars
             PROVE  [Promise!Next]_(Promise!abstractVars)
  OBVIOUS
<1>1. CASE UNCHANGED vars
  BY <1>1 DEF vars, Promise!abstractVars, Open, Held, Now
<1>2. ASSUME NEW t \in Time, Answer(t)
      PROVE  Promise!Next
  <2>1. CASE Nothing(t)
    <3>1. Promise!Handled /\ Open' = Open /\ Held' = Held
      BY <2>1, NotedHandles DEF Nothing, Open, Held
    <3> QED
      BY <3>1 DEF Promise!Next, Promise!Ignore
  <2>2. CASE Dropped(t)
    <3>1. Promise!Handled /\ Open' = {} /\ Held' = Held
      BY <2>2, NotedHandles DEF Dropped, Open, Held
    <3>2. Open # {}
      BY <2>2, OpenIsOpenOf DEF Dropped
    <3> QED
      BY <3>1, <3>2 DEF Promise!Next, Promise!Drop
  <2>3. CASE Proposed(t)
    BY <2>3, Proposes DEF Proposed, Promise!Next
  <2>4. CASE TakenBack(t)
    BY <2>4, Withdraws DEF TakenBack, Promise!Next
  <2>5. CASE Confirm(t)
    BY <2>5, Confirms DEF Promise!Next
  <2> QED
    BY <1>2, <2>1, <2>2, <2>3, <2>4, <2>5, Kinds
<1> QED
  BY <1>1, <1>2 DEF Next

\* Whatever holds was proposed by one command and confirmed by a later one in
\* time, about the version it was proposed for.
THEOREM ConfirmedApart == Spec => ConfirmedSeparately
<1>1. Init => Promise!Init
  BY DEF Init, Promise!Init, Now, Open, Held
<1>2. Spec => Promise!Spec
  BY <1>1, Implements, TypeCorrect, PTL DEF Spec, Promise!Spec
<1> QED
  BY <1>2 DEF ConfirmedSeparately

------------------------------------------------------------------------------
(* The records tell every version *)

MadeIn(c, i, v) == {n \in DOMAIN c : c[n].target = i /\ c[n].after = v}

Known(c, s) == \A n \in DOMAIN c :
    c[n].after # 0 => c[n].target \in DOMAIN s /\ c[n].after <= s[c[n].target].version

MadeOnce(c, s) == \A i \in DOMAIN s : \A v \in 1..s[i].version :
    \E n \in DOMAIN c : MadeIn(c, i, v) = {n}

InOrder(c, s) == \A i \in DOMAIN s : \A v, w \in 1..s[i].version :
    \A m \in MadeIn(c, i, v), n \in MadeIn(c, i, w) : v < w => m < n

LastTells(c, s) == \A i \in DOMAIN s : \A n \in MadeIn(c, i, s[i].version) :
    c[n].operation = "withdraw" <=> ~s[i].active

HistoryOf(c, s) == Known(c, s) /\ MadeOnce(c, s) /\ InOrder(c, s) /\ LastTells(c, s)

LEMMA AppendChange ==
    ASSUME NEW c \in Seq(Change), NEW r \in Change
    PROVE  /\ DOMAIN c = 1..Len(c) /\ DOMAIN Append(c, r) = 1..Len(c) + 1 /\ Len(c) \in Nat
           /\ Append(c, r)[Len(c) + 1] = r
           /\ \A n \in 1..Len(c) : Append(c, r)[n] = c[n]
  OBVIOUS

\* A record that makes no version.
LEMMA HistoryNoted ==
    ASSUME NEW c \in Seq(Change), NEW s \in Seq(Item), HistoryOf(c, s),
           NEW r \in Change, r.after = 0
    PROVE  HistoryOf(Append(c, r), s)
<1> DEFINE d == Append(c, r)
<1>1. /\ DOMAIN c = 1..Len(c) /\ DOMAIN d = 1..Len(c) + 1 /\ Len(c) \in Nat
      /\ d[Len(c) + 1] = r /\ \A n \in 1..Len(c) : d[n] = c[n]
  BY AppendChange
<1> HIDE DEF d
<1>2. ASSUME NEW i, NEW v, v # 0
      PROVE  MadeIn(d, i, v) = MadeIn(c, i, v)
  BY <1>1, <1>2 DEF MadeIn
<1>3. ASSUME NEW i \in DOMAIN s
      PROVE  s[i].version \in Nat \ {0} /\ (\A v \in 1..s[i].version : v # 0)
  <2>1. s[i] \in Item
    OBVIOUS
  <2> QED
    BY <2>1 DEF Item
<1>4. Known(d, s)
  BY <1>1 DEF Known, HistoryOf
<1>5. MadeOnce(d, s)
  <2> SUFFICES ASSUME NEW i \in DOMAIN s, NEW v \in 1..s[i].version
               PROVE  \E n \in DOMAIN d : MadeIn(d, i, v) = {n}
    BY DEF MadeOnce
  <2>1. PICK n \in DOMAIN c : MadeIn(c, i, v) = {n}
    BY DEF MadeOnce, HistoryOf
  <2>2. MadeIn(d, i, v) = MadeIn(c, i, v)
    BY <1>2, <1>3
  <2> QED
    BY <1>1, <2>1, <2>2
<1>6. InOrder(d, s)
  BY <1>2, <1>3 DEF InOrder, HistoryOf
<1>7. LastTells(d, s)
  <2> SUFFICES ASSUME NEW i \in DOMAIN s, NEW n \in MadeIn(d, i, s[i].version)
               PROVE  d[n].operation = "withdraw" <=> ~s[i].active
    BY DEF LastTells
  <2>0. MadeIn(d, i, s[i].version) = MadeIn(c, i, s[i].version)
    BY <1>2, <1>3
  <2>1. n \in MadeIn(c, i, s[i].version) /\ n \in DOMAIN c
    BY <2>0 DEF MadeIn
  <2> QED
    BY <1>1, <2>1 DEF LastTells, HistoryOf
<1> QED
  BY <1>4, <1>5, <1>6, <1>7 DEF HistoryOf, d

\* A record of the next version of one item, or of the first one of a new item.
LEMMA HistoryMade ==
    ASSUME NEW c \in Seq(Change), NEW s \in Seq(Item), HistoryOf(c, s),
           NEW u \in Seq(Item), NEW r \in Change, NEW k \in DOMAIN u, r.target = k,
           r.after = u[k].version, r.operation = "withdraw" <=> ~u[k].active,
           DOMAIN s \subseteq DOMAIN u, DOMAIN u \subseteq DOMAIN s \cup {k},
           \A i \in DOMAIN s \ {k} : u[i] = s[i],
           k \in DOMAIN s => u[k].version = s[k].version + 1,
           k \notin DOMAIN s => u[k].version = 1
    PROVE  HistoryOf(Append(c, r), u)
<1> DEFINE d == Append(c, r)
           new == Len(c) + 1
           last == u[k].version
<1>1. /\ DOMAIN c = 1..Len(c) /\ DOMAIN d = 1..Len(c) + 1 /\ Len(c) \in Nat
      /\ d[new] = r /\ \A n \in 1..Len(c) : d[n] = c[n]
  BY AppendChange
<1>2. /\ \A i \in DOMAIN s : s[i].version \in Nat \ {0}
      /\ \A i \in DOMAIN u : u[i].version \in Nat \ {0}
  <2>1. (\A i \in DOMAIN s : s[i] \in Item) /\ (\A i \in DOMAIN u : u[i] \in Item)
    OBVIOUS
  <2> QED
    BY <2>1 DEF Item
<1>3. r.target = k /\ r.after = last /\ last \in Nat \ {0}
  BY <1>2
<1>n. \A n \in DOMAIN c : c[n].after \in Nat
  <2>1. \A n \in DOMAIN c : c[n] \in Change
    OBVIOUS
  <2> QED
    BY <2>1 DEF Change
<1>m. ASSUME NEW j \in DOMAIN s
      PROVE  s[j].version <= u[j].version
  <2>1. CASE j = k
    <3>1. u[k].version = s[k].version + 1 /\ s[k].version \in Nat
      BY <1>2, <2>1
    <3> QED
      BY <2>1, <3>1
  <2>2. CASE j # k
    <3>1. u[j] = s[j] /\ s[j].version \in Nat
      BY <1>2, <2>2
    <3> QED
      BY <3>1
  <2> QED
    BY <2>1, <2>2
<1> HIDE DEF d
<1>4. MadeIn(c, k, last) = {}
  <2> SUFFICES ASSUME NEW n \in DOMAIN c, c[n].target = k, c[n].after = last
               PROVE  FALSE
    BY DEF MadeIn
  <2>1. k \in DOMAIN s /\ last <= s[k].version
    BY <1>3 DEF HistoryOf, Known
  <2> QED
    BY <1>2, <2>1
<1>5. MadeIn(d, k, last) = {new} /\ new \in DOMAIN d
  <2> HIDE DEF last
  <2>1. \A n \in 1..Len(c) : ~(d[n].target = k /\ d[n].after = last)
    BY <1>1, <1>4 DEF MadeIn
  <2>2. new \in DOMAIN d /\ d[new].target = k /\ d[new].after = last
    BY <1>1, <1>3
  <2>3. \A n \in DOMAIN d : n = new \/ n \in 1..Len(c)
    BY <1>1
  <2> QED
    BY <2>1, <2>2, <2>3 DEF MadeIn
<1>6. ASSUME NEW i, NEW v, i # k \/ v # last
      PROVE  MadeIn(d, i, v) = MadeIn(c, i, v)
  BY <1>1, <1>3, <1>6 DEF MadeIn
<1>7. ASSUME NEW i \in DOMAIN u, NEW v \in 1..u[i].version, i # k \/ v # last
      PROVE  /\ i \in DOMAIN s /\ v \in 1..s[i].version
             /\ MadeIn(d, i, v) = MadeIn(c, i, v)
  <2>1. MadeIn(d, i, v) = MadeIn(c, i, v)
    BY <1>6, <1>7
  <2>2. CASE i # k
    BY <2>1, <2>2
  <2>3. CASE i = k
    <3>1. v # last /\ k \in DOMAIN s
      BY <1>7, <2>3
    <3> QED
      BY <1>2, <2>1, <2>3, <3>1
  <2> QED
    BY <2>2, <2>3
<1>8. Known(d, u)
  <2> SUFFICES ASSUME NEW n \in DOMAIN d, d[n].after # 0
               PROVE  d[n].target \in DOMAIN u /\ d[n].after <= u[d[n].target].version
    BY DEF Known
  <2>1. CASE n = new
    BY <1>1, <1>3, <2>1
  <2>2. CASE n # new
    <3>1. n \in DOMAIN c /\ d[n] = c[n]
      BY <1>1, <2>2
    <3>2. c[n].target \in DOMAIN s /\ c[n].after <= s[c[n].target].version
      BY <3>1 DEF HistoryOf, Known
    <3>3. s[c[n].target].version <= u[c[n].target].version
      BY <1>m, <3>2
    <3> QED
      BY <1>2, <1>n, <3>1, <3>2, <3>3
  <2> QED
    BY <2>1, <2>2
<1>9. MadeOnce(d, u)
  <2> SUFFICES ASSUME NEW i \in DOMAIN u, NEW v \in 1..u[i].version
               PROVE  \E n \in DOMAIN d : MadeIn(d, i, v) = {n}
    BY DEF MadeOnce
  <2>1. CASE i = k /\ v = last
    BY <1>5, <2>1
  <2>2. CASE i # k \/ v # last
    <3>1. i \in DOMAIN s /\ v \in 1..s[i].version /\ MadeIn(d, i, v) = MadeIn(c, i, v)
      BY <1>7, <2>2
    <3>2. PICK n \in DOMAIN c : MadeIn(c, i, v) = {n}
      BY <3>1 DEF HistoryOf, MadeOnce
    <3>3. n \in DOMAIN d
      BY <1>1
    <3> QED
      BY <3>1, <3>2, <3>3
  <2> QED
    BY <2>1, <2>2
<1>10. InOrder(d, u)
  <2> SUFFICES ASSUME NEW i \in DOMAIN u, NEW v \in 1..u[i].version, NEW w \in 1..u[i].version,
                      NEW m \in MadeIn(d, i, v), NEW n \in MadeIn(d, i, w), v < w
               PROVE  m < n
    BY DEF InOrder
  <2>1. i # k \/ v # last
    BY <1>2
  <2>2. i \in DOMAIN s /\ v \in 1..s[i].version /\ m \in MadeIn(c, i, v)
    BY <1>7, <2>1
  <2>3. CASE i = k /\ w = last
    BY <1>1, <1>5, <2>2, <2>3 DEF MadeIn
  <2>4. CASE i # k \/ w # last
    <3>1. w \in 1..s[i].version /\ n \in MadeIn(c, i, w)
      BY <1>7, <2>4
    <3> QED
      BY <2>2, <3>1 DEF HistoryOf, InOrder
  <2> QED
    BY <2>3, <2>4
<1>11. LastTells(d, u)
  <2> SUFFICES ASSUME NEW i \in DOMAIN u, NEW n \in MadeIn(d, i, u[i].version)
               PROVE  d[n].operation = "withdraw" <=> ~u[i].active
    BY DEF LastTells
  <2>1. CASE i = k
    BY <1>1, <1>5, <2>1
  <2>2. CASE i # k
    <3>1. i \in DOMAIN s /\ u[i] = s[i]
      BY <2>2
    <3>2. n \in MadeIn(c, i, s[i].version)
      BY <1>6, <2>2, <3>1
    <3>3. n \in DOMAIN c /\ d[n] = c[n]
      BY <1>1, <3>2 DEF MadeIn
    <3> QED
      BY <3>1, <3>2, <3>3 DEF HistoryOf, LastTells
  <2> QED
    BY <2>1, <2>2
<1> QED
  BY <1>8, <1>9, <1>10, <1>11 DEF HistoryOf, d

\* The record of a command, as an element of the history.
LEMMA Appended ==
    ASSUME NEW t \in Time,
           NEW operation \in Operations, NEW status \in Statuses, NEW target \in Nat,
           NEW before \in Nat, NEW after \in Nat, NEW id \in 0..MaxChanges,
           Record(t, operation, status, target, before, after, id)
    PROVE  \E r \in Change : /\ changes' = Append(changes, r)
                             /\ r.target = target /\ r.after = after
                             /\ r.operation = operation
<1> DEFINE r == [operation |-> operation, status |-> status, target |-> target,
                 before |-> before, after |-> after, pending |-> id, at |-> t]
<1>1. r \in Change /\ r.target = target /\ r.after = after /\ r.operation = operation
  BY DEF Change
<1>2. changes' = Append(changes, r)
  BY DEF Record
<1> HIDE DEF r
<1> QED
  BY <1>1, <1>2

LEMMA HistoryStep ==
    ASSUME TypeOK, HistoryOf(changes, items), [Next]_vars
    PROVE  HistoryOf(changes', items')
<1>0. /\ changes \in Seq(Change) /\ items \in Seq(Item) /\ Len(items) \in Nat
      /\ DOMAIN items = 1..Len(items)
  BY DEF TypeOK
<1>1. CASE UNCHANGED vars
  BY <1>1 DEF vars
<1>2. ASSUME NEW t \in Time, Answer(t)
      PROVE  HistoryOf(changes', items')
  <2>1. CASE Nothing(t) \/ Dropped(t)
    <3>1. items' = items
      BY <2>1 DEF Nothing, Dropped
    <3>2. PICK operation \in Operations, status \in Statuses, target \in Nat, before \in Nat,
               id \in 0..MaxChanges : Record(t, operation, status, target, before, 0, id)
      BY <2>1 DEF Nothing, Dropped, Noted
    <3>3. PICK r \in Change : changes' = Append(changes, r) /\ r.after = 0
      BY <3>2, Appended
    <3> QED
      BY <1>0, <3>1, <3>3, HistoryNoted
  <2>2. ASSUME NEW target \in 0..Len(items), NEW content \in Contents, NEW until \in Limits,
               Propose(t, target, content, until)
        PROVE  HistoryOf(changes', items')
    <3>1. /\ Received(t) /\ items' = items
          /\ Record(t, Operation(target), "required", target, Version(target), 0, This)
      BY <2>2 DEF Propose
    <3>2. Version(target) \in Nat /\ target \in Nat /\ Operation(target) \in Operations
      BY Versions DEF Operation, Operations
    <3>3. This \in 0..MaxChanges /\ "required" \in Statuses
      BY <3>1 DEF Received, This, Statuses, TypeOK
    <3>4. PICK r \in Change : changes' = Append(changes, r) /\ r.after = 0
      BY <3>1, <3>2, <3>3, Appended
    <3> QED
      BY <1>0, <3>1, <3>4, HistoryNoted
  <2>3. ASSUME NEW i \in 1..Len(items), Withdraw(t, i)
        PROVE  HistoryOf(changes', items')
    <3> DEFINE item == Withdrawn(items[i])
               u == [items EXCEPT ![i] = item]
    <3>1. /\ items' = u
          /\ Record(t, "withdraw", "completed", i, items[i].version, item.version, 0)
      BY <2>3 DEF Withdraw
    <3>2. items[i] \in Item
      BY <1>0
    <3>3. /\ item \in Item /\ item.version = items[i].version + 1 /\ item.active = FALSE
          /\ items[i].version \in Nat /\ item.version \in Nat
      BY <3>2, WithdrawnType DEF Item
    <3>4. "withdraw" \in Operations /\ "completed" \in Statuses /\ 0 \in 0..MaxChanges /\ i \in Nat
      BY DEF Operations, Statuses
    <3> HIDE DEF item
    <3>5. PICK r \in Change : /\ changes' = Append(changes, r)
                              /\ r.target = i /\ r.after = item.version /\ r.operation = "withdraw"
      BY <3>1, <3>3, <3>4, Appended
    <3>6. /\ u \in Seq(Item) /\ DOMAIN u = DOMAIN items /\ u[i] = item
          /\ \A j \in DOMAIN items \ {i} : u[j] = items[j]
      BY <1>0, <3>3
    <3> HIDE DEF u
    <3>7. HistoryOf(Append(changes, r), u)
      BY <1>0, <3>3, <3>5, <3>6, HistoryMade
    <3> QED
      BY <3>1, <3>5, <3>7
  <2>4. CASE Confirm(t)
    <3>1. PICK p \in pending :
            /\ StillApplies(p)
            /\ items' = IF p.target = 0 THEN Append(items, Confirmed(p, t))
                        ELSE [items EXCEPT ![p.target] = Confirmed(p, t)]
            /\ Record(t, "confirm", "completed", IF p.target = 0 THEN Len(items) + 1 ELSE p.target,
                      Version(p.target), Version(p.target) + 1, p.id)
      BY <2>4 DEF Confirm
    <3>2. Received(t)
      BY <2>4 DEF Confirm
    <3> DEFINE item == Confirmed(p, t)
               k == IF p.target = 0 THEN Len(items) + 1 ELSE p.target
    <3>3. item \in Item /\ p.target \in 0..Len(items)
      BY <3>1, <3>2, ConfirmedType
    <3>4. /\ Version(p.target) \in Nat
          /\ p.target = 0 => Version(p.target) = 0
          /\ p.target # 0 => p.target \in DOMAIN items /\ Version(p.target) = items[p.target].version
      BY <3>3, Versions DEF Version
    <3>5. item.version = Version(p.target) + 1 /\ item.active = TRUE
      BY DEF Confirmed
    <3>6. "confirm" \in Operations /\ "completed" \in Statuses /\ p.id \in 0..MaxChanges
      BY DEF Operations, Statuses, TypeOK, Pending, Requests
    <3>7. k \in Nat /\ Version(p.target) + 1 \in Nat
      BY <1>0, <3>3, <3>4
    <3>8. PICK r \in Change : /\ changes' = Append(changes, r)
                              /\ r.target = k /\ r.after = Version(p.target) + 1
                              /\ r.operation = "confirm"
      BY <3>1, <3>4, <3>6, <3>7, Appended
    <3> HIDE DEF item
    <3>9. /\ items' \in Seq(Item) /\ k \in DOMAIN items' /\ items'[k] = item
          /\ DOMAIN items \subseteq DOMAIN items' /\ DOMAIN items' \subseteq DOMAIN items \cup {k}
          /\ \A j \in DOMAIN items \ {k} : items'[j] = items[j]
      <4>1. CASE p.target = 0
        <5>1. items' = Append(items, item) /\ k = Len(items) + 1
          BY <3>1, <4>1 DEF item
        <5> QED
          BY <1>0, <3>3, <5>1
      <4>2. CASE p.target # 0
        <5>1. items' = [items EXCEPT ![p.target] = item] /\ k = p.target /\ k \in DOMAIN items
          BY <3>1, <3>4, <4>2 DEF item
        <5> QED
          BY <1>0, <3>3, <5>1
      <4> QED
        BY <4>1, <4>2
    <3>10. /\ k \in DOMAIN items => item.version = items[k].version + 1
           /\ k \notin DOMAIN items => item.version = 1
      BY <1>0, <3>4, <3>5
    <3> DEFINE u == items'
    <3>11. /\ u \in Seq(Item) /\ k \in DOMAIN u /\ u[k] = item
           /\ DOMAIN items \subseteq DOMAIN u /\ DOMAIN u \subseteq DOMAIN items \cup {k}
           /\ \A j \in DOMAIN items \ {k} : u[j] = items[j]
      BY <3>9
    <3> HIDE DEF u, k
    <3>12. HistoryOf(Append(changes, r), u)
      BY <1>0, <3>5, <3>8, <3>10, <3>11, HistoryMade
    <3> QED
      BY <3>8, <3>12 DEF u
  <2> QED
    BY <1>2, <2>1, <2>2, <2>3, <2>4, Kinds DEF Proposed, TakenBack
<1> QED
  BY <1>1, <1>2 DEF Next

\* The history and the items agree, with the strengthening that a record never
\* is ahead of its item (Known).
HistoryInv == TypeOK /\ HistoryOf(changes, items)

LEMMA HistoryExplains == HistoryInv => HistoryExplainsItems
<1> SUFFICES ASSUME HistoryInv
             PROVE  HistoryExplainsItems
  OBVIOUS
<1>1. \A n \in DOMAIN changes : changes[n].after # 0 => changes[n].target \in DOMAIN items
  BY DEF HistoryInv, HistoryOf, Known
<1>2. ASSUME NEW i \in DOMAIN items
      PROVE  LET made == [v \in 1..items[i].version |->
                            {n \in DOMAIN changes : changes[n].target = i /\ changes[n].after = v}]
             IN  /\ \A v \in DOMAIN made : Cardinality(made[v]) = 1
                 /\ \A v, w \in DOMAIN made : \A m \in made[v], n \in made[w] : v < w => m < n
                 /\ \A n \in made[items[i].version] :
                     (changes[n].operation = "withdraw") = ~items[i].active
  <2> DEFINE made == [v \in 1..items[i].version |->
                        {n \in DOMAIN changes : changes[n].target = i /\ changes[n].after = v}]
  <2>0. items[i] \in Item /\ items[i].version \in 1..items[i].version /\ items[i].active \in BOOLEAN
    <3>1. items[i] \in Item
      BY DEF HistoryInv, TypeOK
    <3> QED
      BY <3>1 DEF Item
  <2>1. DOMAIN made = 1..items[i].version
    OBVIOUS
  <2>2. \A v \in 1..items[i].version : made[v] = MadeIn(changes, i, v)
    BY DEF MadeIn
  <2> HIDE DEF made
  <2>3. \A v \in DOMAIN made : Cardinality(made[v]) = 1
    <3> SUFFICES ASSUME NEW v \in DOMAIN made
                 PROVE  Cardinality(made[v]) = 1
      OBVIOUS
    <3>1. PICK n \in DOMAIN changes : MadeIn(changes, i, v) = {n}
      BY <2>1 DEF HistoryInv, HistoryOf, MadeOnce
    <3>2. made[v] = {n}
      BY <2>1, <2>2, <3>1
    <3> QED
      BY <3>2, FS_Singleton
  <2>4. \A v, w \in DOMAIN made : \A m \in made[v], n \in made[w] : v < w => m < n
    BY <2>1, <2>2 DEF HistoryInv, HistoryOf, InOrder
  <2>5. \A n \in made[items[i].version] : (changes[n].operation = "withdraw") = ~items[i].active
    <3> SUFFICES ASSUME NEW n \in made[items[i].version]
                 PROVE  (changes[n].operation = "withdraw") = ~items[i].active
      OBVIOUS
    <3>1. n \in MadeIn(changes, i, items[i].version)
      BY <2>0, <2>2
    <3>2. changes[n].operation = "withdraw" <=> ~items[i].active
      BY <3>1 DEF HistoryInv, HistoryOf, LastTells
    <3> QED
      BY <2>0, <3>2
  <2> QED
    BY <2>3, <2>4, <2>5 DEF made
<1> QED
  BY <1>1, <1>2 DEF HistoryExplainsItems

\* The invariant holds in every reachable state.
THEOREM Inductive == Spec => []HistoryInv
<1>1. Init => HistoryInv
  BY DEF Init, HistoryInv, TypeOK, HistoryOf, Known, MadeOnce, InOrder, LastTells
<1>2. HistoryInv /\ [Next]_vars => HistoryInv'
  BY HistoryStep, TypeStep DEF HistoryInv
<1> QED
  BY <1>1, <1>2, PTL DEF Spec

\* One completed record made each version of each item, in order, for any number
\* of commands.
THEOREM HistoryIsComplete == Spec => []HistoryExplainsItems
  BY Inductive, HistoryExplains, PTL
================================================================================
