---------------------------- MODULE OrderedProofs ----------------------------
(***************************************************************************)
(* Facts of naturals and of sequences that the proofs of several modules   *)
(* rest on.  Induction is stated over a set and not over a predicate: the  *)
(* library's induction theorems take an operator, which no prover here     *)
(* instantiates, and a set is what first-order provers can build.          *)
(***************************************************************************)
EXTENDS Ordered, Integers, Sequences, FiniteSetTheorems, FunctionTheorems, TLAPS

(* A set with 0 and every successor misses nothing: what is below a natural *)
(* it missed would fit into itself without its 0.                           *)
LEMMA SetInduction ==
    ASSUME NEW S \in SUBSET Nat, 0 \in S, \A n \in S : n + 1 \in S
    PROVE  S = Nat
<1>1. SUFFICES ASSUME NEW n \in Nat, n \notin S PROVE FALSE
  OBVIOUS
<1>. DEFINE A == {a \in S : a < n}
            B == A \ {0}
            f == [a \in A |-> a + 1]
<1>2. IsFiniteSet(A) /\ 0 \in A
  <2>1. A \subseteq 0..n
    <3>1. ASSUME NEW a \in A PROVE a \in 0..n
      <4>1. a \in Nat /\ a < n
        OBVIOUS
      <4>. QED BY <4>1
    <3>. HIDE DEF A
    <3>. QED BY <3>1
  <2>2. IsFiniteSet(0..n)
    BY FS_Interval
  <2>3. 0 \in A
    BY <1>1
  <2>. HIDE DEF A
  <2>. QED BY <2>1, <2>2, <2>3, FS_Subset
<1>3. /\ IsFiniteSet(B) /\ Cardinality(B) = Cardinality(A) - 1
      /\ Cardinality(A) \in Nat
  BY <1>2, FS_RemoveElement, FS_CardinalityType
<1>4. ASSUME NEW a \in A PROVE a + 1 \in B
  <2>1. a \in Nat /\ a + 1 \in S /\ a + 1 # n
    BY <1>1
  <2>. QED BY <2>1
<1>5. f \in Injection(A, B)
  <2>1. f \in [A -> B]
    <3>. HIDE DEF A, B
    <3>. QED BY <1>4
  <2>2. \A a, b \in A : f[a] = f[b] => a = b
    OBVIOUS
  <2>. HIDE DEF f, A, B
  <2>. QED BY <2>1, <2>2, Fun_IsInj
<1>6. Cardinality(A) <= Cardinality(B)
  <2>. HIDE DEF f, A, B
  <2>. QED BY <1>3, <1>5, FS_Injection
<1>. QED BY <1>3, <1>6

(* Naturals have a least member, and bounded ones a greatest. *)
LEMMA LeastMember ==
    ASSUME NEW S \in SUBSET Nat, S # {}
    PROVE  \E m \in S : \A s \in S : m <= s
<1>1. SUFFICES ASSUME \A m \in S : \E s \in S : s < m PROVE FALSE
  OBVIOUS
<1>. DEFINE T == {n \in Nat : \A s \in S : n <= s}
<1>2. 0 \in T
  OBVIOUS
<1>3. ASSUME NEW n \in T PROVE n + 1 \in T
  <2>1. n \notin S
    BY <1>1
  <2>. QED BY <2>1
<1>4. T = Nat
  <2>. HIDE DEF T
  <2>. QED BY <1>2, <1>3, SetInduction DEF T
<1>5. PICK s \in S : TRUE
  OBVIOUS
<1>6. s + 1 \in T
  <2>1. s + 1 \in Nat
    OBVIOUS
  <2>. HIDE DEF T
  <2>. QED BY <1>4, <2>1
<1>. QED BY <1>6

LEMMA GreatestMember ==
    ASSUME NEW n \in Nat, NEW S \in SUBSET 0..n, S # {}
    PROVE  \E m \in S : \A s \in S : s <= m
<1>. DEFINE T == {k \in 0..n : n - k \in S}
<1>1. T \in SUBSET Nat /\ T # {}
  <2>1. PICK s \in S : TRUE
    OBVIOUS
  <2>2. n - s \in T
    OBVIOUS
  <2>. QED BY <2>2
<1>2. PICK k \in T : \A t \in T : k <= t
  <2>. HIDE DEF T
  <2>. QED BY <1>1, LeastMember
<1>3. ASSUME NEW s \in S PROVE s <= n - k
  <2>1. s \in 0..n /\ n - s \in 0..n /\ n - (n - s) = s
    OBVIOUS
  <2>2. n - s \in T
    BY <2>1
  <2>3. k \in Int
    BY <1>2
  <2>4. k <= n - s
    <3>. HIDE DEF T
    <3>. QED BY <1>2, <2>2
  <2>. QED BY <2>1, <2>3, <2>4
<1>. QED BY <1>2, <1>3

-----------------------------------------------------------------------------
(* An element's place tells it from the others. *)
LEMMA PlaceGrows ==
    ASSUME NEW S \in SUBSET Nat, IsFiniteSet(S), NEW i \in S, NEW j \in S, i < j
    PROVE  /\ Cardinality(Below(S, i)) \in Nat /\ Cardinality(Below(S, j)) \in Nat
           /\ Cardinality(Below(S, i)) < Cardinality(Below(S, j))
<1>1. IsFiniteSet(Below(S, j)) /\ IsFiniteSet(Below(S, i))
  BY FS_Subset DEF Below
<1>2. Below(S, i) \in SUBSET Below(S, j) /\ Below(S, i) # Below(S, j)
  <2>1. i \in Nat /\ j \in Nat
    OBVIOUS
  <2>2. ASSUME NEW h \in S, h < i PROVE h < j
    <3>1. h \in Nat
      OBVIOUS
    <3>. QED BY <2>1, <2>2, <3>1
  <2>3. i \in Below(S, j) /\ i \notin Below(S, i)
    BY <2>1 DEF Below
  <2>. QED BY <2>2, <2>3 DEF Below
<1>. QED BY <1>1, <1>2, FS_Subset, FS_CardinalityType

LEMMA PlaceBound ==
    ASSUME NEW S \in SUBSET Nat, IsFiniteSet(S), NEW i \in S
    PROVE  Cardinality(Below(S, i)) \in 0..(Cardinality(S) - 1)
<1>1. Below(S, i) \in SUBSET (S \ {i})
  BY DEF Below
<1>2. IsFiniteSet(S \ {i}) /\ Cardinality(S \ {i}) = Cardinality(S) - 1
      /\ Cardinality(S) \in Nat
  BY FS_RemoveElement, FS_CardinalityType
<1>3. IsFiniteSet(Below(S, i)) /\ Cardinality(Below(S, i)) <= Cardinality(S \ {i})
  BY <1>1, <1>2, FS_Subset
<1>. QED BY <1>2, <1>3, FS_CardinalityType

(* And every place is somebody's. *)
LEMMA PlaceTaken ==
    ASSUME NEW S \in SUBSET Nat, IsFiniteSet(S), NEW k \in 1..Cardinality(S)
    PROVE  \E i \in S : Cardinality(Below(S, i)) = k - 1
<1>. DEFINE T == 0..(Cardinality(S) - 1)
            f == [i \in S |-> Cardinality(Below(S, i))]
<1>1. Cardinality(S) \in Nat
  BY FS_CardinalityType
<1>2. IsFiniteSet(T) /\ Cardinality(T) = Cardinality(S)
  <2>1. 0 \in Int /\ Cardinality(S) - 1 \in Int
    BY <1>1
  <2>2. /\ IsFiniteSet(T)
        /\ Cardinality(T) = IF 0 > Cardinality(S) - 1 THEN 0
                            ELSE (Cardinality(S) - 1) - 0 + 1
    BY <2>1, FS_Interval
  <2>. QED BY <1>1, <2>2
<1>3. f \in [S -> T]
  BY PlaceBound
<1>4. f \in Injection(S, T)
  <2>1. ASSUME NEW i \in S, NEW j \in S, f[i] = f[j] PROVE i = j
    <3>1. ~ (i < j) /\ ~ (j < i)
      BY <2>1, PlaceGrows
    <3>2. i \in Nat /\ j \in Nat
      OBVIOUS
    <3>. QED BY <3>1, <3>2
  <2>. HIDE DEF f, T
  <2>. QED BY <1>3, <2>1, Fun_IsInj
<1>5. f \in Surjection(S, T)
  <2>. HIDE DEF f, T
  <2>. QED BY <1>2, <1>4, FS_Injection
<1>6. k - 1 \in T
  BY <1>1
<1>. QED BY <1>5, <1>6 DEF Surjection

LEMMA AscendingAt ==
    ASSUME NEW S \in SUBSET Nat, IsFiniteSet(S), NEW k \in 1..Cardinality(S)
    PROVE  /\ Ascending(S)[k] \in S
           /\ Cardinality(Below(S, Ascending(S)[k])) = k - 1
BY PlaceTaken DEF Ascending

(* Whoever has place k is the one that stands there. *)
LEMMA AscendingIs ==
    ASSUME NEW S \in SUBSET Nat, IsFiniteSet(S), NEW k \in 1..Cardinality(S),
           NEW i \in S, Cardinality(Below(S, i)) = k - 1
    PROVE  Ascending(S)[k] = i
<1>. DEFINE a == Ascending(S)[k]
<1>1. a \in S /\ Cardinality(Below(S, a)) = k - 1
  BY AscendingAt
<1>2. ~ (i < a) /\ ~ (a < i)
  <2>. HIDE DEF a
  <2>. QED BY <1>1, PlaceGrows
<1>3. a \in Nat /\ i \in Nat
  <2>. HIDE DEF a
  <2>. QED BY <1>1
<1>. QED BY <1>2, <1>3

LEMMA AscendingType ==
    ASSUME NEW S \in SUBSET Nat, IsFiniteSet(S)
    PROVE  /\ Ascending(S) \in Seq(S) /\ Len(Ascending(S)) = Cardinality(S)
           /\ Cardinality(S) \in Nat
<1>1. Cardinality(S) \in Nat
  BY FS_CardinalityType
<1>2. \A k \in 1..Cardinality(S) : Ascending(S)[k] \in S
  BY AscendingAt
<1>3. Ascending(S) \in [1..Cardinality(S) -> S]
  BY <1>2 DEF Ascending
<1>. QED BY <1>1, <1>3

LEMMA AscendingEmpty == Ascending({}) = <<>>
BY FS_EmptySet DEF Ascending

(* A new greatest member comes last and moves nobody. *)
LEMMA AscendingAppend ==
    ASSUME NEW S \in SUBSET Nat, IsFiniteSet(S), NEW m \in Nat, \A s \in S : s < m
    PROVE  /\ IsFiniteSet(S \cup {m})
           /\ Ascending(S \cup {m}) = Append(Ascending(S), m)
<1>. DEFINE T == S \cup {m}
<1>1. /\ IsFiniteSet(T) /\ Cardinality(T) = Cardinality(S) + 1
      /\ Cardinality(S) \in Nat /\ T \in SUBSET Nat
  BY FS_AddElement, FS_CardinalityType
<1>2. \A i \in S : Below(T, i) = Below(S, i)
  BY DEF Below
<1>3. Below(T, m) = S
  <2>1. ~ (m < m) /\ \A s \in S : s < m
    OBVIOUS
  <2>. QED BY <2>1 DEF Below
<1>4. Ascending(S) \in Seq(S) /\ Len(Ascending(S)) = Cardinality(S)
  BY AscendingType
<1>. HIDE DEF T
<1>5. Ascending(T) \in Seq(T) /\ Len(Ascending(T)) = Cardinality(S) + 1
  BY <1>1, AscendingType
<1>6. ASSUME NEW k \in 1..Cardinality(S) PROVE Ascending(T)[k] = Ascending(S)[k]
  <2>1. /\ Ascending(S)[k] \in S
        /\ Cardinality(Below(S, Ascending(S)[k])) = k - 1
    BY AscendingAt
  <2>2. Ascending(S)[k] \in T /\ k \in 1..Cardinality(T)
    BY <1>1, <2>1 DEF T
  <2>3. Cardinality(Below(T, Ascending(S)[k])) = k - 1
    BY <1>2, <2>1
  <2>. QED BY <1>1, <2>2, <2>3, AscendingIs
<1>7. Ascending(T)[Cardinality(S) + 1] = m
  BY <1>1, <1>3, AscendingIs DEF T
<1>8. Ascending(T) = Append(Ascending(S), m)
  <2>1. /\ Append(Ascending(S), m) \in Seq(T)
        /\ Len(Append(Ascending(S), m)) = Cardinality(S) + 1
    BY <1>4 DEF T
  <2>2. \A k \in 1..(Cardinality(S) + 1) : Ascending(T)[k] = Append(Ascending(S), m)[k]
    BY <1>1, <1>4, <1>6, <1>7
  <2>. QED BY <1>1, <1>5, <2>1, <2>2
<1>. QED BY <1>1, <1>8 DEF T

(* And the greatest member is the last. *)
LEMMA AscendingLast ==
    ASSUME NEW S \in SUBSET Nat, IsFiniteSet(S), NEW m \in S, \A s \in S : s <= m
    PROVE  Cardinality(S) \in Nat \ {0} /\ Ascending(S)[Cardinality(S)] = m
<1>1. Below(S, m) = S \ {m}
  <2>1. ASSUME NEW s \in S PROVE s < m <=> s # m
    <3>1. s \in Nat /\ m \in Nat /\ s <= m
      OBVIOUS
    <3>. QED BY <3>1
  <2>. QED BY <2>1 DEF Below
<1>2. /\ Cardinality(S \ {m}) = Cardinality(S) - 1 /\ Cardinality(S) \in Nat
      /\ Cardinality(S) # 0
  BY FS_RemoveElement, FS_CardinalityType, FS_EmptySet
<1>. QED BY <1>1, <1>2, AscendingIs
=============================================================================
