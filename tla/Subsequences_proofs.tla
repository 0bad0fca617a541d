------------------------ MODULE Subsequences_proofs ------------------------
(* Lemmas about sets of numbers and about Subsequence, shared by the       *)
(* modules of proofs; induction over the numbers among them.               *)
EXTENDS Subsequences, Sequences, FiniteSetTheorems, SequenceTheorems, WellFoundedInduction, TLAPS

(* q goes up; every element of s is one of q at the positions P. *)
Increasing(q)  == \A i, j \in 1 .. Len(q) : i < j => q[i] < q[j]
Drawn(s, q, P) == \A i \in 1 .. Len(s) : \E p \in P : s[i] = q[p]

-----------------------------------------------------------------------------
(* Least, greatest and i-th element *)

(* A nonempty set of natural numbers has a least element. *)
LEMMA LeastExists ==
  ASSUME NEW S, S \subseteq Nat, S # {}
  PROVE  \E m \in S : \A n \in S : m <= n
<1>1. IsWellFoundedOn(OpToRel(<, Nat), Nat)
  BY NatLessThanWellFounded, Zenon
<1>2. PICK m \in S : \A n \in S : ~(<<n, m>> \in OpToRel(<, Nat))
  BY <1>1, WFMin, Zenon
<1>3. \A n \in S : ~(n < m)
  BY <1>2 DEF OpToRel
<1> QED
  BY <1>3

(* What holds of 0, and of n + 1 if of n, holds of every number: with sets *)
(* for predicates, so that the provers can use it.                         *)
LEMMA Induction ==
  ASSUME NEW S, 0 \in S, \A n \in Nat : n \in S => n + 1 \in S
  PROVE  \A n \in Nat : n \in S
<1> DEFINE T == Nat \ S
<1> SUFFICES ASSUME T # {} PROVE FALSE
  OBVIOUS
<1>1. PICK m \in T : \A n \in T : m <= n
  <2>1. T \subseteq Nat
    OBVIOUS
  <2> HIDE DEF T
  <2> QED
    BY <2>1, LeastExists
<1>2. m \in Nat /\ m # 0 /\ m \notin S
  OBVIOUS
<1>3. m - 1 \in Nat /\ (m - 1) + 1 = m /\ ~(m <= m - 1)
  BY <1>2
<1>4. m - 1 \in S
  BY <1>1, <1>3
<1> QED
  BY <1>2, <1>3, <1>4

(* A nonempty set of numbers that has an upper bound has a greatest element. *)
LEMMA GreatestExists ==
  ASSUME NEW S, S \subseteq Int, S # {}, NEW b \in Int, \A n \in S : n <= b
  PROVE  \E m \in S : \A n \in S : n <= m
<1> DEFINE T == {k \in Nat : b - k \in S}
<1>1. \A n \in S : b - n \in T
  OBVIOUS
<1>2. PICK m \in T : \A n \in T : m <= n
  <2>1. T \subseteq Nat /\ T # {}
    BY <1>1
  <2> QED
    BY <2>1, LeastExists
<1>3. b - m \in S /\ \A n \in S : n <= b - m
  <2>1. m \in Nat /\ b - m \in S
    OBVIOUS
  <2>2. \A n \in S : m <= b - n
    BY <1>1, <1>2
  <2> QED
    BY <2>1, <2>2
<1> QED
  BY <1>3

(* The elements below p, and how many they are. *)
LEMMA BelowFacts ==
  ASSUME NEW P, P \subseteq Nat, IsFiniteSet(P), NEW p \in P
  PROVE  /\ IsFiniteSet(Below(P, p)) /\ Below(P, p) \subseteq P /\ p \notin Below(P, p)
         /\ Cardinality(Below(P, p)) \in Nat
         /\ Cardinality(Below(P, p) \cup {p}) = Cardinality(Below(P, p)) + 1
<1>1. Below(P, p) \subseteq P /\ p \notin Below(P, p)
  BY DEF Below
<1>2. IsFiniteSet(Below(P, p))
  BY <1>1, FS_Subset
<1> QED
  BY <1>1, <1>2, FS_CardinalityType, FS_AddElement

(* The element after p has p and those below p below it. *)
LEMMA BelowNext ==
  ASSUME NEW P, P \subseteq Nat, IsFiniteSet(P), NEW p \in P,
         Cardinality(Below(P, p)) + 1 < Cardinality(P)
  PROVE  \E o \in P : Cardinality(Below(P, o)) = Cardinality(Below(P, p)) + 1
<1> DEFINE Above == {o \in P : p < o}
<1>1. \A o \in P : o \in Nat
  OBVIOUS
<1>2. Above # {}
  <2> SUFFICES ASSUME \A o \in P : ~(p < o) PROVE FALSE
    OBVIOUS
  <2>1. \A o \in P : o < p \/ o = p
    BY <1>1
  <2>2. P = Below(P, p) \cup {p}
    BY <2>1 DEF Below
  <2>3. Cardinality(P) = Cardinality(Below(P, p)) + 1 /\ Cardinality(Below(P, p)) \in Nat
    BY <2>2, BelowFacts
  <2> QED
    BY <2>3
<1>3. PICK m \in P : p < m /\ \A o \in P : p < o => m <= o
  <2>1. Above \subseteq Nat
    OBVIOUS
  <2>2. PICK m \in Above : \A o \in Above : m <= o
    BY <1>2, <2>1, LeastExists
  <2> QED
    BY <2>2
<1>4. \A o \in P : o < m <=> o < p \/ o = p
  BY <1>1, <1>3
<1>5. Below(P, m) = Below(P, p) \cup {p}
  BY <1>4 DEF Below
<1> QED
  BY <1>5, BelowFacts

(* Every rank of a finite set of numbers is taken. *)
LEMMA NthExists ==
  ASSUME NEW P, P \subseteq Nat, IsFiniteSet(P), NEW i \in 1 .. Cardinality(P)
  PROVE  Nth(P, i) \in P /\ Cardinality(Below(P, Nth(P, i))) = i - 1
<1> DEFINE Taken(j) == \E p \in P : Cardinality(Below(P, p)) = j - 1
           Missing == {j \in 1 .. Cardinality(P) : ~Taken(j)}
<1>1. Cardinality(P) \in Nat
  BY FS_CardinalityType
<1>2. Taken(1)
  <2>1. P # {}
    BY <1>1, FS_EmptySet
  <2>2. PICK m \in P : \A o \in P : m <= o
    BY <2>1, LeastExists
  <2>3. ASSUME NEW o \in P PROVE ~(o < m)
    <3>1. o \in Nat /\ m \in Nat /\ m <= o
      BY <2>2
    <3> QED
      BY <3>1
  <2>4. Below(P, m) = {}
    BY <2>3 DEF Below
  <2>5. Cardinality(Below(P, m)) = 1 - 1
    BY <2>4, FS_EmptySet
  <2> QED
    BY <2>2, <2>5
<1>3. ASSUME NEW j \in 2 .. Cardinality(P), Taken(j - 1)
      PROVE  Taken(j)
  <2>1. PICK p \in P : Cardinality(Below(P, p)) = (j - 1) - 1
    BY <1>3
  <2>2. Cardinality(Below(P, p)) + 1 < Cardinality(P)
    BY <1>1, <2>1
  <2>3. PICK o \in P : Cardinality(Below(P, o)) = Cardinality(Below(P, p)) + 1
    BY <2>2, BelowNext
  <2> QED
    BY <1>1, <2>1, <2>3
<1>4. ASSUME NEW j \in Missing, \A k \in Missing : j <= k
      PROVE  FALSE
  <2>1. j \in 1 .. Cardinality(P) /\ ~Taken(j)
    OBVIOUS
  <2>2. j \in 2 .. Cardinality(P) /\ j - 1 \in 1 .. Cardinality(P) /\ ~(j <= j - 1)
    BY <1>1, <1>2, <2>1
  <2>3. Taken(j - 1)
    BY <1>4, <2>2
  <2> QED
    BY <1>3, <2>1, <2>2, <2>3
<1>5. Missing = {}
  <2> SUFFICES ASSUME Missing # {} PROVE FALSE
    OBVIOUS
  <2>1. Missing \subseteq Nat
    BY <1>1
  <2> HIDE DEF Missing
  <2> QED
    BY <1>4, <2>1, LeastExists
<1>6. Taken(i)
  BY <1>5
<1> QED
  BY <1>6 DEF Nth

(* An element is the one of its rank. *)
LEMMA NthOfRank ==
  ASSUME NEW P, P \subseteq Nat, IsFiniteSet(P), NEW p \in P
  PROVE  \E i \in 1 .. Cardinality(P) : Nth(P, i) = p
<1> DEFINE i == Cardinality(Below(P, p)) + 1
           o == Nth(P, i)
<1>1. i \in 1 .. Cardinality(P)
  <2>1. Below(P, p) \cup {p} \subseteq P
    BY BelowFacts
  <2>2. Cardinality(Below(P, p) \cup {p}) <= Cardinality(P) /\ Cardinality(P) \in Nat
    BY <2>1, FS_Subset, FS_CardinalityType
  <2>3. Cardinality(Below(P, p) \cup {p}) = Cardinality(Below(P, p)) + 1 /\ Cardinality(Below(P, p)) \in Nat
    BY BelowFacts
  <2> QED
    BY <2>2, <2>3
<1>2. o \in P /\ Cardinality(Below(P, o)) = Cardinality(Below(P, p))
  <2>1. o \in P /\ Cardinality(Below(P, o)) = i - 1
    BY <1>1, NthExists
  <2>2. Cardinality(Below(P, p)) \in Nat
    BY BelowFacts
  <2> HIDE DEF o
  <2> QED
    BY <2>1, <2>2
<1>3. ASSUME NEW u \in P, NEW w \in P, u < w, Cardinality(Below(P, u)) = Cardinality(Below(P, w))
      PROVE  FALSE
  <2>1. Below(P, u) \cup {u} \subseteq Below(P, w)
    <3>1. \A x \in P : x \in Nat
      OBVIOUS
    <3>2. \A x \in P : x < u => x < w
      BY <1>3, <3>1
    <3> QED
      BY <1>3, <3>2 DEF Below
  <2>2. Cardinality(Below(P, u) \cup {u}) <= Cardinality(Below(P, w))
    BY <2>1, BelowFacts, FS_Subset
  <2>3. Cardinality(Below(P, u) \cup {u}) = Cardinality(Below(P, u)) + 1 /\ Cardinality(Below(P, u)) \in Nat
    BY BelowFacts
  <2> QED
    BY <1>3, <2>2, <2>3
<1>4. o = p
  <2>1. o \in Nat /\ p \in Nat /\ o \in P
    BY <1>2
  <2>2. ~(o < p) /\ ~(p < o)
    BY <1>2, <1>3
  <2> HIDE DEF o
  <2> QED
    BY <2>1, <2>2
<1> QED
  BY <1>1, <1>4

(* Ranks follow the order of the numbers. *)
LEMMA NthIncreases ==
  ASSUME NEW P, P \subseteq Nat, IsFiniteSet(P),
         NEW i \in 1 .. Cardinality(P), NEW j \in 1 .. Cardinality(P), i < j
  PROVE  Nth(P, i) < Nth(P, j)
<1>1. Cardinality(P) \in Nat
  BY FS_CardinalityType
<1>2. /\ Nth(P, i) \in P /\ Cardinality(Below(P, Nth(P, i))) = i - 1
      /\ Nth(P, j) \in P /\ Cardinality(Below(P, Nth(P, j))) = j - 1
  BY NthExists
<1> SUFFICES ASSUME ~(Nth(P, i) < Nth(P, j)) PROVE FALSE
  OBVIOUS
<1>3. Below(P, Nth(P, j)) \subseteq Below(P, Nth(P, i))
  <2>1. \A o \in P : o \in Nat
    OBVIOUS
  <2>2. Nth(P, i) \in Nat /\ Nth(P, j) \in Nat
    BY <1>2
  <2>3. \A o \in P : o < Nth(P, j) => o < Nth(P, i)
    BY <2>1, <2>2
  <2> QED
    BY <2>3 DEF Below
<1>4. Cardinality(Below(P, Nth(P, j))) <= Cardinality(Below(P, Nth(P, i)))
  BY <1>2, <1>3, BelowFacts, FS_Subset
<1> QED
  BY <1>1, <1>2, <1>4

(* The greatest element comes last. *)
LEMMA NthOfAll ==
  ASSUME NEW P, P \subseteq Nat, IsFiniteSet(P), NEW m \in P, \A p \in P : p <= m
  PROVE  Cardinality(P) >= 1 /\ Nth(P, Cardinality(P)) = m
<1> DEFINE n == Cardinality(P)
           p == Nth(P, n)
<1>1. n \in Nat /\ n >= 1
  BY FS_CardinalityType, FS_EmptySet
<1>2. n \in 1 .. Cardinality(P)
  BY <1>1
<1>3. p \in P /\ Cardinality(Below(P, p)) = n - 1
  BY <1>2, NthExists
<1>4. IsFiniteSet(P \ {m}) /\ Cardinality(P \ {m}) = n - 1
  BY FS_RemoveElement
<1>5. Cardinality(Below(P, p) \cup {p}) = n
  <2> HIDE DEF n, p
  <2>1. Cardinality(Below(P, p) \cup {p}) = Cardinality(Below(P, p)) + 1
    BY <1>3, BelowFacts
  <2> QED
    BY <1>1, <1>3, <2>1
<1>6. p # m => Below(P, p) \cup {p} \subseteq P \ {m}
  <2>1. p \in Nat /\ m \in Nat /\ p <= m
    BY <1>3
  <2>2. m \notin Below(P, p)
    BY <2>1 DEF Below
  <2> QED
    BY <1>3, <2>2 DEF Below
<1>7. p = m
  <2> SUFFICES ASSUME p # m PROVE FALSE
    OBVIOUS
  <2> HIDE DEF n, p
  <2>1. Cardinality(Below(P, p) \cup {p}) <= Cardinality(P \ {m})
    BY <1>4, <1>6, FS_Subset
  <2> QED
    BY <1>1, <1>4, <1>5, <2>1
<1> QED
  BY <1>1, <1>7

(* Sets that match one to one have the same number of elements. *)
LEMMA SameNumber ==
  ASSUME NEW S, NEW T, IsFiniteSet(T), NEW f \in [S -> T],
         \A a, b \in S : f[a] = f[b] => a = b, \A t \in T : \E s \in S : f[s] = t
  PROVE  IsFiniteSet(S) /\ Cardinality(S) = Cardinality(T)
<1>1. f \in Injection(S, T)
  BY DEF Injection, IsInjective
<1>2. f \in Surjection(S, T)
  BY DEF Surjection
<1> QED
  BY <1>1, <1>2, FS_Injection

-----------------------------------------------------------------------------
(* Subsequences *)

(* Two sequences put together, told by their elements. *)
LEMMA ConcatIs ==
  ASSUME NEW S, NEW s \in Seq(S), NEW t \in Seq(S), NEW u \in Seq(S), Len(u) = Len(s) + Len(t),
         \A i \in 1 .. Len(s) : u[i] = s[i], \A i \in 1 .. Len(t) : u[Len(s) + i] = t[i]
  PROVE  s \o t = u
<1>1. Len(s) \in Nat /\ Len(t) \in Nat
  BY LenProperties
<1>2. /\ s \o t \in Seq(S) /\ Len(s \o t) = Len(s) + Len(t)
      /\ \A i \in 1 .. Len(s) + Len(t) : (s \o t)[i] = IF i <= Len(s) THEN s[i] ELSE t[i - Len(s)]
  BY ConcatProperties
<1>3. ASSUME NEW i \in 1 .. Len(s) + Len(t) PROVE (s \o t)[i] = u[i]
  <2>1. CASE i <= Len(s)
    <3>1. i \in 1 .. Len(s)
      BY <1>1, <2>1
    <3> QED
      BY <1>2, <2>1, <3>1
  <2>2. CASE ~(i <= Len(s))
    <3>1. i - Len(s) \in 1 .. Len(t) /\ Len(s) + (i - Len(s)) = i
      BY <1>1, <2>2
    <3>2. u[Len(s) + (i - Len(s))] = t[i - Len(s)]
      BY <3>1
    <3> QED
      BY <1>2, <2>2, <3>1, <3>2
  <2> QED
    BY <2>1, <2>2
<1> QED
  BY <1>1, <1>2, <1>3, SeqEqual

(* A subsequence has one element for every position. *)
LEMMA SubsequenceType ==
  ASSUME NEW S, NEW q \in Seq(S), NEW P, P \subseteq 1 .. Len(q)
  PROVE  /\ P \subseteq Nat /\ IsFiniteSet(P)
         /\ Subsequence(q, P) \in Seq(S)
         /\ Len(Subsequence(q, P)) = Cardinality(P)
<1> DEFINE n == Cardinality(P)
           s == Subsequence(q, P)
<1>1. Len(q) \in Nat /\ P \subseteq Nat /\ IsFiniteSet(P)
  <2>1. Len(q) \in Nat
    BY LenProperties
  <2>2. IsFiniteSet(1 .. Len(q)) /\ P \subseteq Nat
    BY <2>1, FS_Interval
  <2> QED
    BY <2>1, <2>2, FS_Subset
<1>2. n \in Nat
  BY <1>1, FS_CardinalityType
<1>3. \A i \in 1 .. n : Nth(P, i) \in P
  BY <1>1, NthExists
<1>4. \A p \in P : q[p] \in S
  BY ElementOfSeq
<1>5. s \in [1 .. n -> S]
  BY <1>3, <1>4 DEF Subsequence
<1>6. s \in Seq(S)
  BY <1>2, <1>5, SeqDef
<1>7. Len(s) = n
  BY <1>2, <1>5, <1>6, LenProperties
<1> QED
  BY <1>1, <1>6, <1>7

(* A subsequence keeps the order, and adds nothing. *)
LEMMA SubsequenceFacts ==
  ASSUME NEW S, S \subseteq Int, NEW q \in Seq(S), NEW P, P \subseteq 1 .. Len(q), Increasing(q)
  PROVE  /\ Subsequence(q, P) \in Seq(S)
         /\ Increasing(Subsequence(q, P))
         /\ Drawn(Subsequence(q, P), q, P)
<1> DEFINE n == Cardinality(P)
           s == Subsequence(q, P)
<1>1. P \subseteq Nat /\ IsFiniteSet(P) /\ s \in Seq(S) /\ Len(s) = n
  BY SubsequenceType
<1>2. \A i \in 1 .. n : Nth(P, i) \in P
  BY <1>1, NthExists
<1>3. \A i, j \in 1 .. n : i < j => s[i] < s[j]
  BY <1>1, <1>2, NthIncreases DEF Subsequence, Increasing
<1>4. \A i \in 1 .. n : s[i] = q[Nth(P, i)]
  BY DEF Subsequence
<1> HIDE DEF s, n
<1> QED
  BY <1>1, <1>2, <1>3, <1>4 DEF Increasing, Drawn, s

(* If the last element stays, it stays the last. *)
LEMMA SubsequenceLast ==
  ASSUME NEW S, NEW q \in Seq(S), NEW P, P \subseteq 1 .. Len(q), Len(q) \in P
  PROVE  /\ Subsequence(q, P) # << >>
         /\ Subsequence(q, P)[Len(Subsequence(q, P))] = q[Len(q)]
<1> DEFINE n == Cardinality(P)
           s == Subsequence(q, P)
<1>1. P \subseteq Nat /\ IsFiniteSet(P) /\ s \in Seq(S) /\ Len(s) = n
  BY SubsequenceType
<1>2. \A p \in P : p <= Len(q)
  BY LenProperties
<1>3. n >= 1 /\ Nth(P, n) = Len(q)
  BY <1>1, <1>2, NthOfAll
<1>4. n \in 1 .. n
  BY <1>1, <1>3, FS_CardinalityType
<1>5. s[n] = q[Len(q)]
  BY <1>3, <1>4 DEF Subsequence
<1>6. s # << >>
  <2>1. n # 0
    BY <1>3
  <2> HIDE DEF s, n
  <2> QED
    BY <1>1, <2>1
<1> HIDE DEF s, n
<1> QED
  BY <1>1, <1>5, <1>6 DEF s
=============================================================================
