---------------------------- MODULE Layout_proofs ----------------------------
(***************************************************************************)
(* Proofs about what stands where in the matrices, for every choice of the *)
(* constants.  StateLayout, Transition and Updates: what the operations of *)
(* StateHelper keep of the layout of the state, the updates as a           *)
(* refinement of it, where the transition of the propagator lies in the    *)
(* covariance, and the columns of every Jacobian.                          *)
(***************************************************************************)
EXTENDS Updates, Subsequences_proofs

-----------------------------------------------------------------------------
(* Variables and their sizes *)

LEMMA BaseType == AtEnd \in Nat /\ AtEnd >= 10 /\ \A n \in 1 .. AtEnd - 1 : <<"base", n>> \in Base
BY LayoutAssumption DEF AtEnd, Base

LEMMA VariableKinds ==
  /\ IMU \in Base
  /\ Base \subseteq Variables
  /\ \A t \in ImageTimes : Clone(t) \in Variables \ Base
  /\ \A f \in Features : Landmark(f) \in Variables \ Base
  /\ \A t \in ImageTimes, f \in Features : Clone(t) # Landmark(f)
BY BaseType DEF Variables, Base, Clone, Landmark, IMU

(* Every variable takes up at least one row.                               *)
LEMMA SizeType == \A v \in Variables : Size(v) \in Nat \ {0}
<1> SUFFICES ASSUME NEW v \in Variables PROVE Size(v) \in Nat \ {0}
  OBVIOUS
<1>1. CASE v \in {"clone"} \X ImageTimes
  BY <1>1 DEF Size
<1>2. CASE v \in {"feat"} \X Features
  BY <1>2, LayoutAssumption DEF Size
<1>3. CASE v \in Base
  <2>1. PICK n \in 1 .. AtEnd - 1 : v = <<"base", n>>
    BY <1>3 DEF Base
  <2>2. n \in Nat /\ (n = 1 \/ n \in {2, 3} \/ n = 4 \/ n \in {5, 6} \/ n = 7 \/ n >= 8)
    BY <2>1, BaseType
  <2> QED
    BY <2>1, <2>2 DEF Size, IMU, DW, DA, TG, GYROtoIMU, ACCtoIMU, DT, IsPose
<1> QED
  BY <1>1, <1>2, <1>3 DEF Variables

LEMMA PoseSize ==
  Size(IMU) = 15 /\ \A t \in ImageTimes : Size(Clone(t)) = 6
BY DEF Size, IMU, DW, DA, TG, GYROtoIMU, ACCtoIMU, DT, Clone

LEMMA ComponentsAre ==
  \A v \in Variables : \A k \in 1 .. Size(v) : <<v, k>> \in Components
BY DEF Components

LEMMA ComponentParts ==
  ASSUME NEW c \in Components
  PROVE  c[1] \in Variables /\ c[2] \in 1 .. Size(c[1]) /\ c = <<c[1], c[2]>>
BY DEF Components

-----------------------------------------------------------------------------
(* The layout: what each operation on the covariance keeps. *)

LayoutType ==
  /\ id \in [Variables -> Nat \cup {-1}] /\ variables \subseteq Variables
  /\ cov_rows \in Nat /\ rows \in [1 .. cov_rows -> Components]

Layout == LayoutType /\ BlocksBelong /\ NoOrphanRow

(* Two blocks never overlap: their rows are about different variables.     *)
LEMMA BlocksDisjoint ==
  ASSUME Layout, NEW v \in variables, NEW w \in variables, v # w
  PROVE  id[v] + Size(v) <= id[w] \/ id[w] + Size(w) <= id[v]
<1>1. /\ id[v] \in Nat /\ id[w] \in Nat /\ Size(v) \in Nat \ {0} /\ Size(w) \in Nat \ {0}
      /\ v \in Variables /\ w \in Variables
  BY SizeType DEF Layout, LayoutType, BlocksBelong
<1>2. SUFFICES ASSUME id[v] < id[w] + Size(w), id[w] < id[v] + Size(v) PROVE FALSE
  BY <1>1
<1>3. CASE id[v] <= id[w]
  <2>1. id[w] - id[v] + 1 \in 1 .. Size(v) /\ 1 \in 1 .. Size(w)
    BY <1>1, <1>2, <1>3
  <2>2. rows[id[w] + 1] = <<w, 1>>
    BY <2>1 DEF Layout, BlocksBelong
  <2>3. rows[id[v] + (id[w] - id[v] + 1)] = <<v, id[w] - id[v] + 1>>
    BY <2>1 DEF Layout, BlocksBelong
  <2> QED
    BY <1>1, <2>2, <2>3
<1>4. CASE id[w] <= id[v]
  <2>1. id[v] - id[w] + 1 \in 1 .. Size(w) /\ 1 \in 1 .. Size(v)
    BY <1>1, <1>2, <1>4
  <2>2. rows[id[v] + 1] = <<v, 1>>
    BY <2>1 DEF Layout, BlocksBelong
  <2>3. rows[id[w] + (id[v] - id[w] + 1)] = <<w, id[v] - id[w] + 1>>
    BY <2>1 DEF Layout, BlocksBelong
  <2> QED
    BY <1>1, <2>2, <2>3
<1> QED
  BY <1>1, <1>3, <1>4

(* A variable appended with rows of its own.                               *)
LEMMA AppendedLayout ==
  ASSUME Layout, NEW v \in Variables, v \notin variables,
         id' = [id EXCEPT ![v] = cov_rows], variables' = variables \cup {v},
         cov_rows' = cov_rows + Size(v),
         rows' \in [1 .. cov_rows + Size(v) -> Components],
         \A i \in 1 .. cov_rows : rows'[i] = rows[i],
         \A i \in cov_rows + 1 .. cov_rows + Size(v) : rows'[i] = <<v, i - cov_rows>>
  PROVE  Layout'
<1>1. Size(v) \in Nat \ {0} /\ cov_rows \in Nat
  BY SizeType DEF Layout, LayoutType
<1>2. LayoutType'
  BY <1>1 DEF Layout, LayoutType
<1>3. BlocksBelong'
  <2> SUFFICES ASSUME NEW w \in variables'
               PROVE  /\ id'[w] >= 0 /\ id'[w] + Size(w) <= cov_rows'
                      /\ \A k \in 1 .. Size(w) : rows'[id'[w] + k] = <<w, k>>
    BY DEF BlocksBelong
  <2>1. CASE w = v
    <3>1. id'[w] = cov_rows
      BY <2>1 DEF Layout, LayoutType
    <3>2. ASSUME NEW k \in 1 .. Size(w) PROVE rows'[id'[w] + k] = <<w, k>>
      <4>1. cov_rows + k \in cov_rows + 1 .. cov_rows + Size(v) /\ (cov_rows + k) - cov_rows = k
        BY <1>1, <2>1
      <4> QED
        BY <2>1, <3>1, <4>1
    <3> QED
      BY <1>1, <2>1, <3>1, <3>2
  <2>2. CASE w # v
    <3>1. w \in variables /\ w \in Variables /\ id'[w] = id[w]
      BY <2>2 DEF Layout, LayoutType
    <3>2. Size(w) \in Nat /\ id[w] \in Nat /\ id[w] + Size(w) <= cov_rows
      BY <3>1, SizeType DEF Layout, LayoutType, BlocksBelong
    <3>3. ASSUME NEW k \in 1 .. Size(w) PROVE rows'[id'[w] + k] = <<w, k>>
      <4>1. id[w] + k \in 1 .. cov_rows
        BY <1>1, <3>2
      <4> QED
        BY <3>1, <4>1 DEF Layout, BlocksBelong
    <3> QED
      BY <1>1, <3>1, <3>2, <3>3
  <2> QED
    BY <2>1, <2>2
<1>4. NoOrphanRow'
  <2> SUFFICES ASSUME NEW i \in 1 .. cov_rows'
               PROVE  rows'[i][1] \in variables' /\ i = id'[rows'[i][1]] + rows'[i][2]
    BY DEF NoOrphanRow
  <2>1. CASE i <= cov_rows
    <3>1. i \in 1 .. cov_rows
      BY <1>1, <2>1
    <3>2. /\ rows'[i] = rows[i] /\ rows[i][1] \in variables
          /\ i = id[rows[i][1]] + rows[i][2]
      BY <3>1 DEF Layout, NoOrphanRow
    <3>3. id'[rows[i][1]] = id[rows[i][1]]
      BY <3>2 DEF Layout, LayoutType
    <3> QED
      BY <3>2, <3>3
  <2>2. CASE i > cov_rows
    <3>1. i \in cov_rows + 1 .. cov_rows + Size(v)
      BY <1>1, <2>2
    <3>2. rows'[i] = <<v, i - cov_rows>> /\ id'[v] = cov_rows
      BY <3>1 DEF Layout, LayoutType
    <3> QED
      BY <1>1, <3>1, <3>2
  <2> QED
    BY <1>1, <2>1, <2>2
<1> QED
  BY <1>2, <1>3, <1>4 DEF Layout

LEMMA PushKeepsLayout ==
  ASSUME Layout, NEW v \in Variables, v \notin variables, Push(v)
  PROVE  Layout'
<1>1. Size(v) \in Nat \ {0} /\ cov_rows \in Nat /\ rows \in [1 .. cov_rows -> Components]
  BY SizeType DEF Layout, LayoutType
<1>2. /\ id' = [id EXCEPT ![v] = cov_rows] /\ variables' = variables \cup {v}
      /\ cov_rows' = cov_rows + Size(v)
      /\ rows' = [i \in 1 .. cov_rows + Size(v) |->
                   IF i <= cov_rows THEN rows[i] ELSE <<v, i - cov_rows>>]
  BY DEF Push
<1>3. ASSUME NEW i \in 1 .. cov_rows + Size(v), ~(i <= cov_rows)
      PROVE  <<v, i - cov_rows>> \in Components
  <2>1. i - cov_rows \in 1 .. Size(v)
    BY <1>1, <1>3
  <2> QED
    BY <2>1, ComponentsAre
<1>4. rows' \in [1 .. cov_rows + Size(v) -> Components]
  BY <1>1, <1>2, <1>3
<1>5. \A i \in 1 .. cov_rows : rows'[i] = rows[i]
  BY <1>1, <1>2
<1>6. \A i \in cov_rows + 1 .. cov_rows + Size(v) : rows'[i] = <<v, i - cov_rows>>
  BY <1>1, <1>2
<1> QED
  BY <1>2, <1>4, <1>5, <1>6, AppendedLayout

(* The copied rows are those of the IMU's pose.                            *)
LEMMA CloneKeepsLayout ==
  ASSUME Layout, IMU \in variables, NEW t \in ImageTimes, Clone(t) \notin variables,
         ClonePose(Clone(t))
  PROVE  Layout'
<1> DEFINE v == Clone(t)
<1>1. /\ v \in Variables /\ Size(v) = 6 /\ Size(IMU) = 15
      /\ cov_rows \in Nat /\ rows \in [1 .. cov_rows -> Components]
  BY PoseSize, VariableKinds DEF Layout, LayoutType
<1>2. /\ id' = [id EXCEPT ![v] = cov_rows] /\ variables' = variables \cup {v}
      /\ cov_rows' = cov_rows + Size(v)
      /\ rows' = [i \in 1 .. cov_rows + Size(v) |->
                   IF i <= cov_rows THEN rows[i] ELSE AsClone(v, rows[id[IMU] + i - cov_rows])]
  BY DEF ClonePose
<1>3. /\ id[IMU] \in Nat
      /\ \A k \in 1 .. Size(IMU) : rows[id[IMU] + k] = <<IMU, k>>
  BY DEF Layout, LayoutType, BlocksBelong
<1>4. ASSUME NEW i \in cov_rows + 1 .. cov_rows + Size(v)
      PROVE  AsClone(v, rows[id[IMU] + i - cov_rows]) = <<v, i - cov_rows>>
  <2>1. i - cov_rows \in 1 .. 6 /\ id[IMU] + i - cov_rows = id[IMU] + (i - cov_rows)
    BY <1>1, <1>3
  <2>2. rows[id[IMU] + (i - cov_rows)] = <<IMU, i - cov_rows>>
    <3>1. i - cov_rows \in 1 .. Size(IMU)
      BY <1>1, <2>1
    <3> QED
      BY <1>3, <3>1
  <2> QED
    BY <1>1, <2>1, <2>2 DEF AsClone
<1>5. ASSUME NEW i \in 1 .. cov_rows + Size(v), ~(i <= cov_rows)
      PROVE  /\ AsClone(v, rows[id[IMU] + i - cov_rows]) = <<v, i - cov_rows>>
             /\ <<v, i - cov_rows>> \in Components
  <2>1. i \in cov_rows + 1 .. cov_rows + Size(v) /\ i - cov_rows \in 1 .. Size(v)
    BY <1>1, <1>5
  <2> QED
    BY <1>1, <1>4, <2>1, ComponentsAre
<1>6. rows' \in [1 .. cov_rows + Size(v) -> Components]
  <2> SUFFICES ASSUME NEW i \in 1 .. cov_rows + Size(v)
               PROVE  (IF i <= cov_rows THEN rows[i]
                       ELSE AsClone(v, rows[id[IMU] + i - cov_rows])) \in Components
    BY <1>2
  <2>1. CASE i <= cov_rows
    BY <1>1, <2>1
  <2>2. CASE ~(i <= cov_rows)
    BY <1>5, <2>2
  <2> QED
    BY <2>1, <2>2
<1>7. \A i \in 1 .. cov_rows : rows'[i] = rows[i]
  BY <1>1, <1>2
<1>8. \A i \in cov_rows + 1 .. cov_rows + Size(v) : rows'[i] = <<v, i - cov_rows>>
  BY <1>1, <1>2, <1>4
<1> QED
  BY <1>1, <1>2, <1>6, <1>7, <1>8, AppendedLayout

(* Where a remaining variable goes when marg is removed.                   *)
LEMMA MarginalizeMoves ==
  ASSUME Layout, NEW marg \in variables, Marginalize(marg), NEW v \in variables \ {marg}
  PROVE  /\ id'[v] = IF id[v] > id[marg] THEN id[v] - Size(marg) ELSE id[v]
         /\ id[v] > id[marg] => id[v] >= id[marg] + Size(marg)
         /\ ~(id[v] > id[marg]) => id[v] + Size(v) <= id[marg]
         /\ id[v] \in Nat /\ id[marg] \in Nat /\ Size(v) \in Nat \ {0} /\ Size(marg) \in Nat \ {0}
         /\ id[v] + Size(v) <= cov_rows /\ id[marg] + Size(marg) <= cov_rows
<1>1. v \in Variables /\ marg \in Variables /\ v # marg
  BY DEF Layout, LayoutType
<1>2. /\ id[v] \in Nat /\ id[marg] \in Nat /\ Size(v) \in Nat \ {0} /\ Size(marg) \in Nat \ {0}
      /\ id[v] + Size(v) <= cov_rows /\ id[marg] + Size(marg) <= cov_rows
  BY <1>1, SizeType DEF Layout, LayoutType, BlocksBelong
<1>3. id[v] + Size(v) <= id[marg] \/ id[marg] + Size(marg) <= id[v]
  BY <1>1, BlocksDisjoint
<1>4. id'[v] = IF id[v] > id[marg] THEN id[v] - Size(marg) ELSE id[v]
  BY <1>1 DEF Marginalize, Shifted
<1> QED
  BY <1>2, <1>3, <1>4

(* A row that is not one of the s rows after m moves with its block.       *)
LEMMA MovedIndex ==
  ASSUME NEW i \in Int, NEW j \in Int, NEW k \in Int, NEW m \in Nat, NEW s \in Nat,
         NEW a \in Nat, NEW b, NEW size \in Nat,
         j = IF i <= m THEN i ELSE i + s, j = a + k, 1 <= k, k <= size,
         a > m => a >= m + s, ~(a > m) => a + size <= m,
         b = IF a > m THEN a - s ELSE a
  PROVE  i = b + k
<1>1. CASE a > m
  BY <1>1
<1>2. CASE ~(a > m)
  BY <1>2
<1> QED
  BY <1>1, <1>2

LEMMA MarginalizeKeepsLayout ==
  ASSUME Layout, NEW marg \in variables, Marginalize(marg)
  PROVE  Layout' /\ variables' = variables \ {marg} /\ UNCHANGED exited
<1> DEFINE s == Size(marg)
           m == id[marg]
<1>1. /\ marg \in Variables /\ s \in Nat \ {0} /\ m \in Nat /\ m + s <= cov_rows
      /\ cov_rows \in Nat /\ rows \in [1 .. cov_rows -> Components]
      /\ id \in [Variables -> Nat \cup {-1}] /\ variables \subseteq Variables
  BY SizeType DEF Layout, LayoutType, BlocksBelong
<1>2. /\ cov_rows' = cov_rows - s
      /\ rows' = [i \in 1 .. cov_rows - s |-> rows[MovedFrom(marg, i)]]
      /\ id' = [v \in Variables |-> IF v = marg THEN -1
                                    ELSE IF v \in Shifted(marg) THEN id[v] - s ELSE id[v]]
      /\ variables' = variables \ {marg}
      /\ UNCHANGED exited
  BY DEF Marginalize
<1>3. \A i \in 1 .. cov_rows - s : /\ MovedFrom(marg, i) \in 1 .. cov_rows
                                   /\ MovedFrom(marg, i) = IF i <= m THEN i ELSE i + s
  BY <1>1 DEF MovedFrom
<1>4. LayoutType'
  <2>1. \A v \in Variables : v \in Shifted(marg) => id[v] - s \in Nat
    <3> SUFFICES ASSUME NEW v \in Shifted(marg) PROVE id[v] - s \in Nat
      OBVIOUS
    <3>1. v \in variables \ {marg} /\ id[v] > id[marg]
      BY DEF Shifted
    <3> QED
      BY <1>1, <3>1, MarginalizeMoves
  <2>2. id' \in [Variables -> Nat \cup {-1}]
    BY <1>1, <1>2, <2>1
  <2>3. rows' \in [1 .. cov_rows' -> Components]
    BY <1>1, <1>2, <1>3
  <2> QED
    BY <1>1, <1>2, <2>2, <2>3 DEF LayoutType
<1>5. BlocksBelong'
  <2> SUFFICES ASSUME NEW v \in variables'
               PROVE  /\ id'[v] >= 0 /\ id'[v] + Size(v) <= cov_rows'
                      /\ \A k \in 1 .. Size(v) : rows'[id'[v] + k] = <<v, k>>
    BY DEF BlocksBelong
  <2>1. /\ v \in variables \ {marg}
        /\ \A k \in 1 .. Size(v) : rows[id[v] + k] = <<v, k>>
    BY <1>2 DEF Layout, BlocksBelong
  <2>2. /\ id'[v] = IF id[v] > m THEN id[v] - s ELSE id[v]
        /\ id[v] > m => id[v] >= m + s
        /\ ~(id[v] > m) => id[v] + Size(v) <= m
        /\ id[v] \in Nat /\ Size(v) \in Nat \ {0} /\ id[v] + Size(v) <= cov_rows
    BY <2>1, MarginalizeMoves
  <2>3. id'[v] \in Nat /\ id'[v] + Size(v) <= cov_rows'
    BY <1>1, <1>2, <2>2
  <2>4. ASSUME NEW k \in 1 .. Size(v) PROVE rows'[id'[v] + k] = <<v, k>>
    <3>1. id'[v] + k \in 1 .. cov_rows - s
      <4>1. id'[v] \in Nat /\ id'[v] + Size(v) <= cov_rows - s
        BY <1>2, <2>3
      <4>2. cov_rows \in Nat /\ s \in Nat /\ k \in Nat /\ 1 <= k /\ k <= Size(v) /\ Size(v) \in Nat
        BY <1>1, <2>2
      <4> QED
        BY <4>1, <4>2
    <3>2. rows'[id'[v] + k] = rows[MovedFrom(marg, id'[v] + k)]
      BY <1>2, <3>1
    <3>3. MovedFrom(marg, id'[v] + k) = id[v] + k
      BY <1>1, <1>3, <2>2, <3>1
    <3> QED
      BY <2>1, <3>2, <3>3
  <2> QED
    BY <2>3, <2>4
<1>6. NoOrphanRow'
  <2> SUFFICES ASSUME NEW i \in 1 .. cov_rows'
               PROVE  rows'[i][1] \in variables' /\ i = id'[rows'[i][1]] + rows'[i][2]
    BY DEF NoOrphanRow
  <2> DEFINE j == MovedFrom(marg, i)
             v == rows[j][1]
             k == rows[j][2]
  <2>1. /\ i \in 1 .. cov_rows - s /\ rows'[i] = rows[j] /\ j \in 1 .. cov_rows
        /\ j = IF i <= m THEN i ELSE i + s
    BY <1>2, <1>3
  <2>2. v \in variables /\ j = id[v] + k
    BY <2>1 DEF Layout, NoOrphanRow
  <2>3. rows[j] \in Components
    BY <1>1, <2>1
  <2>4. k \in 1 .. Size(v)
    BY <2>3, ComponentParts
  <2>5. v # marg
    <3>1. CASE v = marg
      <4>1. j = m + k /\ k \in 1 .. s
        BY <2>2, <2>4, <3>1
      <4> QED
        BY <1>1, <2>1, <4>1
    <3> QED
      BY <3>1
  <2>6. /\ id'[v] = IF id[v] > m THEN id[v] - s ELSE id[v]
        /\ id[v] > m => id[v] >= m + s
        /\ ~(id[v] > m) => id[v] + Size(v) <= m
        /\ id[v] \in Nat /\ Size(v) \in Nat \ {0}
    BY <2>2, <2>5, MarginalizeMoves
  <2>7. i = id'[v] + k
    <3>1. /\ i \in Int /\ k \in Int /\ j = id[v] + k /\ 1 <= k /\ k <= Size(v)
      BY <1>1, <2>2, <2>4, <2>6
    <3>2. j \in Int /\ j = IF i <= m THEN i ELSE i + s
      BY <2>1
    <3>3. s \in Nat /\ m \in Nat /\ id[v] \in Nat /\ Size(v) \in Nat
      BY <1>1, <2>6
    <3> DEFINE a == id[v]
               b == id'[v]
               size == Size(v)
    <3>4. /\ a \in Nat /\ size \in Nat /\ s \in Nat /\ m \in Nat
          /\ i \in Int /\ k \in Int /\ j \in Int
          /\ j = a + k /\ 1 <= k /\ k <= size
          /\ j = IF i <= m THEN i ELSE i + s
      BY <3>1, <3>2, <3>3
    <3>5. /\ b = IF a > m THEN a - s ELSE a
          /\ a > m => a >= m + s
          /\ ~(a > m) => a + size <= m
      BY <2>6
    <3> HIDE DEF a, b, size, j, k, s, m
    <3>6. i = b + k
      BY <3>4, <3>5, MovedIndex
    <3> QED
      BY <3>6 DEF b
  <2> QED
    BY <1>2, <2>1, <2>2, <2>5, <2>7
<1> QED
  BY <1>2, <1>4, <1>5, <1>6 DEF Layout

-----------------------------------------------------------------------------
(* The inductive invariant *)

(* Nothing but the constructor runs before it is done.                     *)
ConstructorFirst ==
  /\ at < AtEnd => clones = {} /\ landmarks = {} /\ timestamp = 0
  /\ \A n \in 1 .. AtEnd - 1 : <<"base", n>> \in variables => n < at

ClonesInPast == \A t \in clones : t <= timestamp

(* The variables of the constructor come before all others, ...            *)
BaseInFront == \A v \in variables \cap Base, w \in variables \ Base : id[v] < id[w]

NoneBetween(j, k) == \A m \in j + 1 .. k - 1 : ~Estimated(m)

(* ... each directly behind the one taken up before it, ...                *)
Chained ==
  \A j, k \in 1 .. AtEnd - 1 :
    j < k /\ k < at /\ Estimated(j) /\ Estimated(k) /\ NoneBetween(j, k)
      => id[<<"base", j>>] + Size(<<"base", j>>) = id[<<"base", k>>]

(* ... and until the constructor is done the last one ends the covariance. *)
LastOfBase ==
  at < AtEnd =>
    \A j \in 1 .. AtEnd - 1 :
      j < at /\ Estimated(j) /\ NoneBetween(j, at)
        => id[<<"base", j>>] + Size(<<"base", j>>) = cov_rows

BaseInv == BaseInFront /\ Chained /\ LastOfBase

IInv == /\ TypeOK /\ BlocksBelong /\ NoOrphanRow /\ MapsMatchVariables /\ NoExit
        /\ ConstructorFirst /\ ClonesInPast /\ BaseInv

LEMMA IInvLayout == IInv => Layout
BY DEF IInv, TypeOK, Layout, LayoutType

(* Which variables are asked for never changes.                            *)
LEMMA EstimatedIsFixed ==
  ASSUME UNCHANGED options
  PROVE  /\ \A n \in Nat : Estimated(n)' <=> Estimated(n)
         /\ \A j, k \in Nat : NoneBetween(j, k)' <=> NoneBetween(j, k)
<1>1. \A n \in Nat : Estimated(n)' <=> Estimated(n)
  BY DEF Estimated, IsPose, Camera
<1>2. ASSUME NEW j \in Nat, NEW k \in Nat PROVE NoneBetween(j, k)' <=> NoneBetween(j, k)
  <2>1. \A m \in j + 1 .. k - 1 : Estimated(m)' <=> Estimated(m)
    BY <1>1
  <2> QED
    BY <2>1 DEF NoneBetween
<1> QED
  BY <1>1, <1>2

(* What is not in the state's maps is not in the state.                    *)
LEMMA AbsentUnlessMapped ==
  ASSUME IInv
  PROVE  /\ \A t \in ImageTimes : Clone(t) \in variables <=> t \in clones
         /\ \A f \in Features : Landmark(f) \in variables <=> f \in landmarks
BY VariableKinds DEF IInv, TypeOK, MapsMatchVariables, Clone, Landmark

LEMMA ImuInState == ASSUME IInv, at > 1 PROVE IMU \in variables
<1>1. 1 \in 1 .. at - 1 /\ Estimated(1)
  BY DEF IInv, TypeOK, Estimated
<1> QED
  BY <1>1 DEF IInv, MapsMatchVariables, IMU

(* An operation on other variables leaves those of the constructor alone.  *)
LEMMA BaseStays ==
  ASSUME IInv, at = AtEnd, UNCHANGED <<options, at>>,
         \A b \in Base : b \in variables' <=> b \in variables,
         \A b \in variables \cap Base : id'[b] = id[b]
  PROVE  /\ Chained' /\ LastOfBase' /\ ConstructorFirst'
         /\ \A n \in 1 .. at' - 1 : <<"base", n>> \in variables' <=> Estimated(n)'
<1>1. /\ AtEnd \in Nat
      /\ \A n \in 1 .. AtEnd - 1 : n \in Nat /\ <<"base", n>> \in Base
      /\ \A n \in 1 .. AtEnd - 1 : Estimated(n)' <=> Estimated(n)
      /\ \A j, k \in 1 .. AtEnd - 1 : NoneBetween(j, k)' <=> NoneBetween(j, k)
  <2>1. /\ AtEnd \in Nat
        /\ \A n \in 1 .. AtEnd - 1 : n \in Nat /\ <<"base", n>> \in Base
    BY BaseType
  <2> QED
    BY <2>1, EstimatedIsFixed
<1>2. \A n \in 1 .. AtEnd - 1 : Estimated(n) => <<"base", n>> \in variables
  BY DEF IInv, MapsMatchVariables
<1>3. Chained'
  <2> SUFFICES ASSUME NEW j \in 1 .. AtEnd - 1, NEW k \in 1 .. AtEnd - 1,
                      j < k, k < at, Estimated(j), Estimated(k), NoneBetween(j, k)
               PROVE  id'[<<"base", j>>] + Size(<<"base", j>>) = id'[<<"base", k>>]
    BY <1>1 DEF Chained
  <2>1. id[<<"base", j>>] + Size(<<"base", j>>) = id[<<"base", k>>]
    BY DEF IInv, BaseInv, Chained
  <2>2. <<"base", j>> \in variables \cap Base /\ <<"base", k>> \in variables \cap Base
    BY <1>1, <1>2
  <2> QED
    BY <2>1, <2>2
<1>4. LastOfBase'
  BY <1>1 DEF LastOfBase
<1>5. ConstructorFirst'
  BY <1>1 DEF ConstructorFirst, IInv
<1>6. \A n \in 1 .. at' - 1 : <<"base", n>> \in variables' <=> Estimated(n)'
  BY <1>1 DEF IInv, MapsMatchVariables
<1> QED
  BY <1>3, <1>4, <1>5, <1>6

-----------------------------------------------------------------------------
(* One lemma per kind of step *)

LEMMA InitIInv == Init => IInv
<1> SUFFICES ASSUME Init PROVE IInv
  OBVIOUS
<1>1. AtEnd \in Nat /\ AtEnd >= 10
  BY BaseType
<1>2. /\ options \in OptionSets /\ at \in 1 .. AtEnd /\ variables \subseteq Variables
      /\ cov_rows \in Nat /\ rows \in [1 .. cov_rows -> Components]
      /\ timestamp \in ImageTimes \cup {0} /\ clones \subseteq ImageTimes /\ landmarks \subseteq Features
  BY <1>1 DEF Init
<1>3. exited \in BOOLEAN /\ NoExit
  BY Zenon DEF Init, NoExit
<1>4. id \in [Variables -> Nat \cup {-1}]
  BY DEF Init
<1>5. TypeOK
  BY <1>2, <1>3, <1>4, Zenon DEF TypeOK
<1>6. BlocksBelong /\ NoOrphanRow /\ ClonesInPast /\ BaseInFront
  BY DEF Init, BlocksBelong, NoOrphanRow, ClonesInPast, BaseInFront
<1>7. MapsMatchVariables
  BY DEF Init, MapsMatchVariables
<1>8. ConstructorFirst
  BY DEF Init, ConstructorFirst
<1>9. Chained /\ LastOfBase
  BY DEF Init, Chained, LastOfBase
<1> QED
  BY <1>3, <1>5, <1>6, <1>7, <1>8, <1>9 DEF IInv, BaseInv

LEMMA ConstructKeepsIInv == IInv /\ Construct => IInv'
<1> SUFFICES ASSUME IInv, Construct PROVE IInv'
  OBVIOUS
<1> DEFINE b(n) == <<"base", n>>
<1>1. /\ at \in 1 .. AtEnd - 1 /\ at \in Nat /\ at' = at + 1 /\ AtEnd \in Nat
      /\ UNCHANGED <<options, timestamp, clones, landmarks, exited>>
      /\ clones = {} /\ landmarks = {} /\ timestamp = 0
  BY BaseType DEF Construct, IInv, TypeOK, ConstructorFirst
<1>2. /\ \A n \in 1 .. AtEnd - 1 : b(n) \in Base /\ b(n) \in Variables
      /\ \A n \in 1 .. AtEnd - 1 : b(n) \in variables => n < at
      /\ \A n \in 1 .. at - 1 : b(n) \in variables <=> Estimated(n)
      /\ b(at) \notin variables
  BY <1>1, BaseType, VariableKinds DEF IInv, ConstructorFirst, MapsMatchVariables
<1>3. /\ \A n \in 1 .. AtEnd - 1 : Estimated(n)' <=> Estimated(n)
      /\ \A j, k \in Nat : NoneBetween(j, k)' <=> NoneBetween(j, k)
  BY <1>1, EstimatedIsFixed
<1>4. Layout'
  <2>1. CASE Estimated(at)
    BY <1>1, <1>2, <2>1, IInvLayout, PushKeepsLayout DEF Construct
  <2>2. CASE ~Estimated(at)
    <3>1. UNCHANGED <<id, variables, cov_rows, rows>>
      BY <2>2 DEF Construct
    <3>2. Layout
      BY IInvLayout
    <3> QED
      BY <3>1, <3>2 DEF Layout, LayoutType, BlocksBelong, NoOrphanRow
  <2> QED
    BY <2>1, <2>2
<1>5. /\ variables' = IF Estimated(at) THEN variables \cup {b(at)} ELSE variables
      /\ Estimated(at) => cov_rows' = cov_rows + Size(b(at)) /\ id'[b(at)] = cov_rows
      /\ ~Estimated(at) => cov_rows' = cov_rows
      /\ \A n \in 1 .. AtEnd - 1 : n < at => id'[b(n)] = id[b(n)]
  <2>1. id \in [Variables -> Nat \cup {-1}]
    BY DEF IInv, TypeOK
  <2>2. CASE Estimated(at)
    <3>1. /\ id' = [id EXCEPT ![b(at)] = cov_rows] /\ variables' = variables \cup {b(at)}
          /\ cov_rows' = cov_rows + Size(b(at))
      BY <2>2 DEF Construct, Push
    <3>2. \A n \in 1 .. AtEnd - 1 : n < at => b(n) # b(at)
      BY <1>1
    <3> QED
      BY <1>1, <1>2, <2>1, <2>2, <3>1, <3>2
  <2>3. CASE ~Estimated(at)
    BY <2>3 DEF Construct
  <2> QED
    BY <2>2, <2>3
<1>6. variables \subseteq Base /\ variables' \subseteq Base
  <2>1. variables \ Base = {}
    BY <1>1 DEF IInv, MapsMatchVariables
  <2> QED
    BY <1>1, <1>2, <1>5, <2>1
<1>7. MapsMatchVariables'
  <2>1. \A n \in 1 .. at : b(n) \in variables' <=> Estimated(n)
    <3> SUFFICES ASSUME NEW n \in 1 .. at PROVE b(n) \in variables' <=> Estimated(n)
      OBVIOUS
    <3>1. CASE n = at
      BY <1>2, <1>5, <3>1
    <3>2. CASE n # at
      <4>1. n \in 1 .. at - 1 /\ b(n) # b(at)
        BY <1>1, <3>2
      <4> QED
        BY <1>2, <1>5, <4>1
    <3> QED
      BY <3>1, <3>2
  <2>2. \A n \in 1 .. at' - 1 : b(n) \in variables' <=> Estimated(n)'
    <3>1. \A n \in 1 .. at : Estimated(n)' <=> Estimated(n)
      BY <1>1, <1>3
    <3>2. 1 .. at' - 1 = 1 .. at
      BY <1>1
    <3> QED
      BY <2>1, <3>1, <3>2
  <2>3. (variables \ Base)' = {Clone(t) : t \in clones'} \cup {Landmark(f) : f \in landmarks'}
    BY <1>1, <1>6
  <2> QED
    BY <2>2, <2>3 DEF MapsMatchVariables
<1>8. ConstructorFirst' /\ ClonesInPast' /\ NoExit'
  BY <1>1, <1>2, <1>5 DEF ConstructorFirst, ClonesInPast, NoExit, IInv
<1>9. BaseInFront'
  BY <1>6 DEF BaseInFront
<1>10. Chained'
  <2> SUFFICES ASSUME NEW j \in 1 .. AtEnd - 1, NEW k \in 1 .. AtEnd - 1,
                      j < k, k < at', Estimated(j), Estimated(k), NoneBetween(j, k)
               PROVE  id'[b(j)] + Size(b(j)) = id'[b(k)]
    BY <1>1, <1>3 DEF Chained
  <2>1. j < at /\ k <= at
    BY <1>1
  <2>2. CASE k = at
    <3>1. id[b(j)] + Size(b(j)) = cov_rows
      BY <1>1, <2>1, <2>2 DEF IInv, BaseInv, LastOfBase
    <3> QED
      BY <1>5, <2>1, <2>2, <3>1
  <2>3. CASE k < at
    <3>1. id[b(j)] + Size(b(j)) = id[b(k)]
      BY <2>3 DEF IInv, BaseInv, Chained
    <3> QED
      BY <1>5, <2>1, <2>3, <3>1
  <2> QED
    BY <1>1, <2>1, <2>2, <2>3
<1>11. LastOfBase'
  <2> SUFFICES ASSUME NEW j \in 1 .. AtEnd - 1, j < at', Estimated(j), NoneBetween(j, at')
               PROVE  id'[b(j)] + Size(b(j)) = cov_rows'
    <3>1. \A j \in 1 .. AtEnd - 1 : NoneBetween(j, at)' <=> NoneBetween(j, at')
      BY <1>1, <1>3 DEF NoneBetween
    <3> QED
      BY <1>3, <3>1 DEF LastOfBase
  <2>1. CASE j = at
    BY <1>5, <2>1
  <2>2. CASE j < at
    <3>1. ~Estimated(at) /\ NoneBetween(j, at)
      BY <1>1, <2>2 DEF NoneBetween
    <3>2. id[b(j)] + Size(b(j)) = cov_rows
      BY <1>1, <2>2, <3>1 DEF IInv, BaseInv, LastOfBase
    <3> QED
      BY <1>5, <2>2, <3>1, <3>2
  <2> QED
    BY <1>1, <2>1, <2>2
<1>12. TypeOK'
  <2>1. exited' \in BOOLEAN
    BY <1>1, Zenon DEF IInv, TypeOK
  <2>2. /\ id' \in [Variables -> Nat \cup {-1}] /\ variables' \subseteq Variables
        /\ cov_rows' \in Nat /\ rows' \in [1 .. cov_rows' -> Components]
    BY <1>4 DEF Layout, LayoutType
  <2>3. /\ options' \in OptionSets /\ at' \in 1 .. AtEnd /\ timestamp' \in ImageTimes \cup {0}
        /\ clones' \subseteq ImageTimes /\ landmarks' \subseteq Features
    BY <1>1 DEF IInv, TypeOK
  <2> QED
    BY <2>1, <2>2, <2>3, Zenon DEF TypeOK
<1> QED
  BY <1>4, <1>7, <1>8, <1>9, <1>10, <1>11, <1>12 DEF IInv, BaseInv, Layout

(* A variable appended to those of the constructor leaves them in front.   *)
LEMMA AppendKeepsBase ==
  ASSUME IInv, at = AtEnd, UNCHANGED <<options, at>>, NEW v \in Variables \ Base,
         id' = [id EXCEPT ![v] = cov_rows], variables' = variables \cup {v}
  PROVE  /\ BaseInv' /\ ConstructorFirst'
         /\ \A n \in 1 .. at' - 1 : <<"base", n>> \in variables' <=> Estimated(n)'
<1>1. /\ id \in [Variables -> Nat \cup {-1}] /\ variables \subseteq Variables
      /\ \A w \in variables : id[w] \in Nat /\ id[w] < cov_rows
  <2>1. id \in [Variables -> Nat \cup {-1}] /\ variables \subseteq Variables /\ cov_rows \in Nat
    BY DEF IInv, TypeOK
  <2>2. \A w \in variables : /\ id[w] >= 0 /\ id[w] + Size(w) <= cov_rows
                             /\ Size(w) \in Nat \ {0} /\ id[w] \in Nat \cup {-1}
    BY <2>1, SizeType DEF IInv, BlocksBelong
  <2>3. \A w \in variables : id[w] \in Nat /\ id[w] < cov_rows
    BY <2>1, <2>2
  <2> QED
    BY <2>1, <2>3
<1>2. \A b \in Base : b \in variables' <=> b \in variables
  OBVIOUS
<1>3. \A w \in variables : w # v => id'[w] = id[w]
  BY <1>1
<1>4. BaseInFront'
  <2> SUFFICES ASSUME NEW b \in variables' \cap Base, NEW w \in variables' \ Base
               PROVE  id'[b] < id'[w]
    BY DEF BaseInFront
  <2>1. b \in variables \cap Base /\ id'[b] = id[b]
    BY <1>2, <1>3
  <2>2. CASE w = v
    BY <1>1, <2>1, <2>2
  <2>3. CASE w # v
    <3>1. w \in variables \ Base /\ id'[w] = id[w]
      BY <1>3, <2>3
    <3> QED
      BY <2>1, <3>1 DEF IInv, BaseInv, BaseInFront
  <2> QED
    BY <2>2, <2>3
<1>5. \A b \in variables \cap Base : id'[b] = id[b]
  BY <1>3
<1> QED
  BY <1>2, <1>4, <1>5, BaseStays DEF BaseInv

(* So does the removal of one that came behind them.                       *)
LEMMA MarginalizeKeepsBase ==
  ASSUME IInv, at = AtEnd, UNCHANGED <<options, at>>, NEW marg \in variables \ Base,
         Marginalize(marg)
  PROVE  /\ BaseInv' /\ ConstructorFirst'
         /\ \A n \in 1 .. at' - 1 : <<"base", n>> \in variables' <=> Estimated(n)'
<1>1. Layout /\ variables' = variables \ {marg}
  BY IInvLayout, MarginalizeKeepsLayout
<1>2. \A b \in Base : b \in variables' <=> b \in variables
  BY <1>1
<1>3. \A b \in variables \cap Base : id[b] \in Nat /\ id[marg] \in Nat /\ id'[b] = id[b]
  <2> SUFFICES ASSUME NEW b \in variables \cap Base
               PROVE  id[b] \in Nat /\ id[marg] \in Nat /\ id'[b] = id[b]
    OBVIOUS
  <2>1. id[b] < id[marg]
    BY DEF IInv, BaseInv, BaseInFront
  <2>2. /\ id'[b] = IF id[b] > id[marg] THEN id[b] - Size(marg) ELSE id[b]
        /\ id[b] \in Nat /\ id[marg] \in Nat
    BY <1>1, MarginalizeMoves
  <2> QED
    BY <2>1, <2>2
<1>4. BaseInFront'
  <2> SUFFICES ASSUME NEW b \in variables' \cap Base, NEW w \in variables' \ Base
               PROVE  id'[b] < id'[w]
    BY DEF BaseInFront
  <2>1. /\ b \in variables \cap Base /\ w \in variables \ Base /\ w # marg
    BY <1>1
  <2>2. id[b] < id[w] /\ id[b] < id[marg] /\ id'[b] = id[b]
    BY <1>3, <2>1 DEF IInv, BaseInv, BaseInFront
  <2>3. /\ id'[w] = IF id[w] > id[marg] THEN id[w] - Size(marg) ELSE id[w]
        /\ id[w] > id[marg] => id[w] >= id[marg] + Size(marg)
        /\ id[w] \in Nat /\ id[marg] \in Nat /\ Size(marg) \in Nat \ {0}
    BY <1>1, <2>1, MarginalizeMoves
  <2>4. id[b] \in Nat
    BY <1>3, <2>1
  <2> QED
    BY <2>2, <2>3, <2>4
<1> QED
  BY <1>2, <1>3, <1>4, BaseStays DEF BaseInv

(* A step that leaves the covariance alone.                                *)
LEMMA SameLayoutKeepsIInv ==
  ASSUME IInv, UNCHANGED <<options, at, id, variables, cov_rows, rows, clones, landmarks, exited>>,
         timestamp' \in ImageTimes \cup {0}, timestamp' # timestamp => at = AtEnd,
         timestamp' # timestamp => \A t \in clones : t <= timestamp'
  PROVE  IInv'
<1>1. AtEnd \in Nat /\ at \in 1 .. AtEnd
  BY BaseType DEF IInv, TypeOK
<1>2. /\ \A n \in Nat : Estimated(n)' <=> Estimated(n)
      /\ \A j, k \in Nat : NoneBetween(j, k)' <=> NoneBetween(j, k)
  BY EstimatedIsFixed
<1>3. \A j \in Nat : NoneBetween(j, at)' <=> NoneBetween(j, at)
  BY <1>1, <1>2 DEF NoneBetween
<1>4. TypeOK'
  BY Zenon DEF IInv, TypeOK
<1>5. BlocksBelong' /\ NoOrphanRow' /\ NoExit' /\ BaseInFront'
  BY DEF IInv, BaseInv, BlocksBelong, NoOrphanRow, NoExit, BaseInFront
<1>6. MapsMatchVariables'
  <2>1. \A n \in 1 .. at - 1 : n \in Nat
    BY <1>1
  <2> QED
    BY <1>2, <2>1 DEF IInv, MapsMatchVariables
<1>7. ConstructorFirst' /\ ClonesInPast'
  BY <1>1 DEF IInv, ConstructorFirst, ClonesInPast
<1>8. \A j \in 1 .. AtEnd - 1 : j \in Nat
  BY <1>1
<1>9. Chained'
  BY <1>2, <1>8 DEF IInv, BaseInv, Chained
<1>10. LastOfBase'
  BY <1>2, <1>3, <1>8 DEF IInv, BaseInv, LastOfBase
<1> QED
  BY <1>4, <1>5, <1>6, <1>7, <1>9, <1>10 DEF IInv, BaseInv

-----------------------------------------------------------------------------
LEMMA FourInARow ==
  ASSUME NEW a, NEW b, NEW c, NEW d, NEW s, s = <<a, b, c>> \o <<>> \o <<d>>
  PROVE  Len(s) = 4 /\ s[1] = a /\ s[2] = b /\ s[3] = c /\ s[4] = d
<1>1. <<a, b, c>> \in Seq({a, b, c})
  OBVIOUS
<1>2. <<a, b, c>> \o <<>> = <<a, b, c>>
  BY <1>1, ConcatEmptySeq
<1>3. s = <<a, b, c>> \o <<d>>
  BY <1>2
<1> QED
  BY <1>3

LEMMA ThreeAndOne ==
  ASSUME NEW a, NEW b, NEW c, NEW d, NEW S, a \in S, b \in S, c \in S, d \in S
  PROVE  LET p == <<a, b, c>> \o <<d>>
         IN p \in Seq(S) /\ Len(p) = 4 /\ p[1] = a /\ p[2] = b /\ p[3] = c /\ p[4] = d
OBVIOUS

LEMMA FourAndOne ==
  ASSUME NEW S, NEW p \in Seq(S), Len(p) = 4, NEW e \in S
  PROVE  /\ Len(p \o <<e>>) = 5
         /\ \A i \in 1 .. 4 : (p \o <<e>>)[i] = p[i]
         /\ (p \o <<e>>)[5] = e
<1>1. <<e>> \in Seq(S) /\ Len(<<e>>) = 1 /\ <<e>>[1] = e
  OBVIOUS
<1>2. /\ Len(p \o <<e>>) = Len(p) + Len(<<e>>)
      /\ \A i \in 1 .. Len(p) + Len(<<e>>) :
           (p \o <<e>>)[i] = IF i <= Len(p) THEN p[i] ELSE <<e>>[i - Len(p)]
  BY <1>1, ConcatProperties, Zenon
<1> QED
  BY <1>1, <1>2

LEMMA FiveInARow ==
  ASSUME NEW a, NEW b, NEW c, NEW d, NEW e
  PROVE  LET s == <<a, b, c>> \o <<d>> \o <<e>>
         IN Len(s) = 5 /\ s[1] = a /\ s[2] = b /\ s[3] = c /\ s[4] = d /\ s[5] = e
<1> DEFINE S == {a, b, c, d, e}
           p == <<a, b, c>> \o <<d>>
<1>1. p \in Seq(S) /\ Len(p) = 4 /\ p[1] = a /\ p[2] = b /\ p[3] = c /\ p[4] = d
  BY ThreeAndOne
<1>2. e \in S
  OBVIOUS
<1> HIDE DEF p, S
<1>3. /\ Len(p \o <<e>>) = 5 /\ (p \o <<e>>)[5] = e
      /\ \A i \in 1 .. 4 : (p \o <<e>>)[i] = p[i]
  BY <1>1, <1>2, FourAndOne
<1>4. /\ Len(p \o <<e>>) = 5 /\ (p \o <<e>>)[1] = a /\ (p \o <<e>>)[2] = b
      /\ (p \o <<e>>)[3] = c /\ (p \o <<e>>)[4] = d /\ (p \o <<e>>)[5] = e
  BY <1>1, <1>3
<1> QED
  BY <1>4, Zenon DEF p

(* The variables to propagate are contiguous: PhiOrder skips those of the  *)
(* constructor that the options do not ask for, and no others.             *)
LEMMA PhiOrderContiguous ==
  ASSUME IInv, at = AtEnd
  PROVE  Contiguous(PhiOrder)
<1> DEFINE Joins(v, w) == id[v] + Size(v) = id[w]
           imu == options.do_calib_imu_intrinsics
           tg  == options.do_calib_imu_g_sensitivity
           kal == options.kalibr
<1>1. AtEnd \in Nat /\ AtEnd >= 10
  BY BaseType
<1>2. ASSUME NEW j \in 1 .. 9, NEW k \in 1 .. 9,
             j < k, Estimated(j), Estimated(k), \A m \in j + 1 .. k - 1 : ~Estimated(m)
      PROVE  Joins(<<"base", j>>, <<"base", k>>)
  BY <1>1, <1>2 DEF IInv, BaseInv, Chained, NoneBetween
<1>3. /\ Estimated(1)
      /\ imu => Estimated(2) /\ Estimated(3)
      /\ imu /\ tg => Estimated(4)
      /\ ~tg => ~Estimated(4)
      /\ imu /\ kal => Estimated(5) /\ ~Estimated(6)
      /\ imu /\ ~kal => Estimated(6) /\ ~Estimated(5)
  BY DEF Estimated
<1>4. ASSUME NEW s, s = <<IMU>> PROVE Contiguous(s)
  BY <1>4 DEF Contiguous
<1>5. ASSUME NEW s, Len(s) = 4, Joins(s[1], s[2]), Joins(s[2], s[3]), Joins(s[3], s[4])
      PROVE  Contiguous(s)
  <2>1. \A i \in 1 .. Len(s) - 1 : i \in {1, 2, 3} /\ i + 1 \in {2, 3, 4}
    BY <1>5
  <2> QED
    BY <1>5, <2>1 DEF Contiguous
<1>6. ASSUME NEW s, Len(s) = 5, Joins(s[1], s[2]), Joins(s[2], s[3]), Joins(s[3], s[4]),
             Joins(s[4], s[5])
      PROVE  Contiguous(s)
  <2>1. \A i \in 1 .. Len(s) - 1 : i \in {1, 2, 3, 4}
    BY <1>6
  <2> QED
    BY <1>6, <2>1 DEF Contiguous
<1>7. CASE ~imu
  <2>1. PhiOrder = <<IMU>>
    BY <1>7 DEF PhiOrder
  <2> QED
    BY <1>4, <2>1
<1>8. CASE imu
  <2>1. Joins(IMU, DW) /\ Joins(DW, DA)
    BY <1>2, <1>3, <1>8 DEF IMU, DW, DA
  <2>2. CASE tg /\ kal
    <3>1. PhiOrder = <<IMU, DW, DA>> \o <<TG>> \o <<GYROtoIMU>>
      BY <1>8, <2>2, Zenon DEF PhiOrder
    <3>2. Joins(DA, TG) /\ Joins(TG, GYROtoIMU)
      BY <1>2, <1>3, <1>8, <2>2 DEF DA, TG, GYROtoIMU
    <3>3. /\ Len(PhiOrder) = 5 /\ PhiOrder[1] = IMU /\ PhiOrder[2] = DW
          /\ PhiOrder[3] = DA /\ PhiOrder[4] = TG /\ PhiOrder[5] = GYROtoIMU
      <4>1. LET s == <<IMU, DW, DA>> \o <<TG>> \o <<GYROtoIMU>>
            IN  /\ Len(s) = 5 /\ s[1] = IMU /\ s[2] = DW /\ s[3] = DA /\ s[4] = TG
                /\ s[5] = GYROtoIMU
        BY FiveInARow
      <4> QED
        BY <3>1, <4>1, Zenon
    <3> QED
      BY <1>6, <2>1, <3>2, <3>3
  <2>3. CASE tg /\ ~kal
    <3>1. PhiOrder = <<IMU, DW, DA>> \o <<TG>> \o <<ACCtoIMU>>
      BY <1>8, <2>3, Zenon DEF PhiOrder
    <3>2. Estimated(3) /\ Estimated(4) /\ ~Estimated(5) /\ Estimated(6)
      BY <1>3, <1>8, <2>3, Zenon
    <3>3. Joins(DA, TG) /\ Joins(TG, ACCtoIMU)
      BY <1>2, <3>2 DEF DA, TG, ACCtoIMU
    <3>4. /\ Len(PhiOrder) = 5 /\ PhiOrder[1] = IMU /\ PhiOrder[2] = DW
          /\ PhiOrder[3] = DA /\ PhiOrder[4] = TG /\ PhiOrder[5] = ACCtoIMU
      <4>1. LET s == <<IMU, DW, DA>> \o <<TG>> \o <<ACCtoIMU>>
            IN  /\ Len(s) = 5 /\ s[1] = IMU /\ s[2] = DW /\ s[3] = DA /\ s[4] = TG
                /\ s[5] = ACCtoIMU
        BY FiveInARow
      <4> QED
        BY <3>1, <4>1, Zenon
    <3> QED
      BY <1>6, <2>1, <3>3, <3>4
  <2>4. CASE ~tg /\ kal
    <3>1. PhiOrder = <<IMU, DW, DA>> \o <<>> \o <<GYROtoIMU>>
      BY <1>8, <2>4, Zenon DEF PhiOrder
    <3>2. Estimated(3) /\ ~Estimated(4) /\ Estimated(5)
      BY <1>3, <1>8, <2>4, Zenon
    <3>3. Joins(DA, GYROtoIMU)
      BY <1>2, <3>2 DEF DA, GYROtoIMU
    <3>4. /\ Len(PhiOrder) = 4 /\ PhiOrder[1] = IMU /\ PhiOrder[2] = DW
          /\ PhiOrder[3] = DA /\ PhiOrder[4] = GYROtoIMU
      BY <3>1, FourInARow
    <3> QED
      BY <1>5, <2>1, <3>3, <3>4
  <2>5. CASE ~tg /\ ~kal
    <3>1. PhiOrder = <<IMU, DW, DA>> \o <<>> \o <<ACCtoIMU>>
      BY <1>8, <2>5, Zenon DEF PhiOrder
    <3>2. Estimated(3) /\ ~Estimated(4) /\ ~Estimated(5) /\ Estimated(6)
      BY <1>3, <1>8, <2>5, Zenon
    <3>3. Joins(DA, ACCtoIMU)
      BY <1>2, <3>2 DEF DA, ACCtoIMU
    <3>4. /\ Len(PhiOrder) = 4 /\ PhiOrder[1] = IMU /\ PhiOrder[2] = DW
          /\ PhiOrder[3] = DA /\ PhiOrder[4] = ACCtoIMU
      BY <3>1, FourInARow
    <3> QED
      BY <1>5, <2>1, <3>3, <3>4
  <2> QED
    BY <2>2, <2>3, <2>4, <2>5, Zenon
<1> QED
  BY <1>7, <1>8, Zenon

-----------------------------------------------------------------------------
(* The remaining actions *)

LEMMA PropagateKeepsIInv ==
  ASSUME IInv, NEW t \in ImageTimes, PropagateAndClone(t)
  PROVE  IInv'
<1>1. /\ at = AtEnd /\ at > 1 /\ t > timestamp /\ t \notin clones
      /\ timestamp \in Nat /\ t \in Nat /\ clones \subseteq ImageTimes
      /\ UNCHANGED <<options, at, landmarks>>
  BY BaseType, LayoutAssumption DEF PropagateAndClone, Running, IInv, TypeOK, ClonesInPast
<1>2. Clone(t) \notin variables /\ IMU \in variables /\ Clone(t) \in Variables \ Base
  BY <1>1, AbsentUnlessMapped, ImuInState, VariableKinds
<1>3. Contiguous(PhiOrder)
  BY <1>1, PhiOrderContiguous
<1>4. /\ timestamp' = t /\ clones' = clones \cup {t} /\ UNCHANGED exited
      /\ ClonePose(Clone(t))
      /\ id' = [id EXCEPT ![Clone(t)] = cov_rows] /\ variables' = variables \cup {Clone(t)}
  BY <1>1, <1>3 DEF PropagateAndClone, ClonePose
<1>5. Layout'
  BY <1>2, <1>4, IInvLayout, CloneKeepsLayout
<1>6. /\ BaseInv' /\ ConstructorFirst'
      /\ \A n \in 1 .. at' - 1 : <<"base", n>> \in variables' <=> Estimated(n)'
  BY <1>1, <1>2, <1>4, AppendKeepsBase
<1>7. (variables \ Base)' = {Clone(c) : c \in clones'} \cup {Landmark(f) : f \in landmarks'}
  <2>1. variables \ Base = {Clone(c) : c \in clones} \cup {Landmark(f) : f \in landmarks}
    BY DEF IInv, MapsMatchVariables
  <2>2. {Clone(c) : c \in clones \cup {t}} = {Clone(c) : c \in clones} \cup {Clone(t)}
    OBVIOUS
  <2>3. variables' \ Base = (variables \ Base) \cup {Clone(t)}
    BY <1>2, <1>4
  <2> QED
    BY <1>1, <1>4, <2>1, <2>2, <2>3
<1>8. ClonesInPast' /\ NoExit'
  <2>1. \A c \in clones : c \in Nat /\ c <= timestamp
    BY <1>1, LayoutAssumption DEF IInv, ClonesInPast
  <2>2. ClonesInPast'
    BY <1>1, <1>4, <2>1 DEF ClonesInPast
  <2> QED
    BY <1>4, <2>2 DEF IInv, NoExit
<1>9. TypeOK'
  <2>1. exited' \in BOOLEAN
    BY <1>4, Zenon DEF IInv, TypeOK
  <2>2. /\ id' \in [Variables -> Nat \cup {-1}] /\ variables' \subseteq Variables
        /\ cov_rows' \in Nat /\ rows' \in [1 .. cov_rows' -> Components]
    BY <1>5 DEF Layout, LayoutType
  <2>3. /\ options' \in OptionSets /\ at' \in 1 .. AtEnd /\ timestamp' \in ImageTimes \cup {0}
        /\ clones' \subseteq ImageTimes /\ landmarks' \subseteq Features
    BY <1>1, <1>4 DEF IInv, TypeOK
  <2> QED
    BY <2>1, <2>2, <2>3, Zenon DEF TypeOK
<1> QED
  BY <1>5, <1>6, <1>7, <1>8, <1>9 DEF IInv, MapsMatchVariables, Layout

LEMMA AcceptedKeepsIInv ==
  ASSUME IInv, NEW f \in Features, at = AtEnd, f \notin landmarks,
         UNCHANGED <<options, at, timestamp, clones, exited>>,
         Push(Landmark(f)), landmarks' = landmarks \cup {f}
  PROVE  IInv'
<1>1. /\ at = AtEnd /\ f \notin landmarks
      /\ UNCHANGED <<options, at, timestamp, clones>>
  OBVIOUS
<1>2. Landmark(f) \notin variables /\ Landmark(f) \in Variables \ Base
  BY <1>1, AbsentUnlessMapped, VariableKinds
<1>3. /\ landmarks' = landmarks \cup {f} /\ UNCHANGED exited /\ Push(Landmark(f))
      /\ id' = [id EXCEPT ![Landmark(f)] = cov_rows] /\ variables' = variables \cup {Landmark(f)}
  BY DEF Push
<1>4. Layout'
  BY <1>2, <1>3, IInvLayout, PushKeepsLayout
<1>5. /\ BaseInv' /\ ConstructorFirst'
      /\ \A n \in 1 .. at' - 1 : <<"base", n>> \in variables' <=> Estimated(n)'
  BY <1>1, <1>2, <1>3, AppendKeepsBase
<1>6. (variables \ Base)' = {Clone(c) : c \in clones'} \cup {Landmark(g) : g \in landmarks'}
  <2>1. variables \ Base = {Clone(c) : c \in clones} \cup {Landmark(g) : g \in landmarks}
    BY DEF IInv, MapsMatchVariables
  <2>2. {Landmark(g) : g \in landmarks \cup {f}} = {Landmark(g) : g \in landmarks} \cup {Landmark(f)}
    OBVIOUS
  <2>3. variables' \ Base = (variables \ Base) \cup {Landmark(f)}
    BY <1>2, <1>3
  <2> QED
    BY <1>1, <1>3, <2>1, <2>2, <2>3
<1>7. ClonesInPast' /\ NoExit'
  BY <1>1, <1>3 DEF IInv, ClonesInPast, NoExit
<1>8. TypeOK'
  <2>1. exited' \in BOOLEAN
    BY <1>3, Zenon DEF IInv, TypeOK
  <2>2. /\ id' \in [Variables -> Nat \cup {-1}] /\ variables' \subseteq Variables
        /\ cov_rows' \in Nat /\ rows' \in [1 .. cov_rows' -> Components]
    BY <1>4 DEF Layout, LayoutType
  <2>3. /\ options' \in OptionSets /\ at' \in 1 .. AtEnd /\ timestamp' \in ImageTimes \cup {0}
        /\ clones' \subseteq ImageTimes /\ landmarks' \subseteq Features
    BY <1>1, <1>3 DEF IInv, TypeOK
  <2> QED
    BY <2>1, <2>2, <2>3, Zenon DEF TypeOK
<1> QED
  BY <1>4, <1>5, <1>6, <1>7, <1>8 DEF IInv, MapsMatchVariables, Layout

(* A refused landmark leaves the state as it was.                          *)
LEMMA InitializeKeepsIInv ==
  ASSUME IInv, NEW f \in Features, Initialize(f)
  PROVE  IInv'
<1>1. /\ at = AtEnd /\ f \notin landmarks
      /\ UNCHANGED <<options, at, timestamp, clones>>
  BY DEF Initialize, Running
<1>2. Landmark(f) \notin variables
  BY <1>1, AbsentUnlessMapped
<1>3. CASE Push(Landmark(f)) /\ landmarks' = landmarks \cup {f} /\ UNCHANGED exited
  BY <1>1, <1>3, AcceptedKeepsIInv
<1>4. CASE UNCHANGED <<id, variables, cov_rows, rows, landmarks, exited>>
  <2>1. UNCHANGED vars
    BY <1>1, <1>4 DEF vars
  <2> QED
    BY <2>1, SameLayoutKeepsIInv DEF vars, IInv, TypeOK
<1> QED
  BY <1>2, <1>3, <1>4 DEF Initialize

(* Removing a variable, whichever map it was in.                           *)
LEMMA MarginalizeKeepsIInv ==
  ASSUME IInv, at = AtEnd, UNCHANGED <<options, at, timestamp>>,
         NEW marg \in variables \ Base, Marginalize(marg),
         clones' \subseteq clones, landmarks' \subseteq landmarks,
         (variables \ Base) \ {marg}
           = {Clone(c) : c \in clones'} \cup {Landmark(g) : g \in landmarks'}
  PROVE  IInv'
<1>1. Layout' /\ variables' = variables \ {marg} /\ UNCHANGED exited
  BY IInvLayout, MarginalizeKeepsLayout
<1>2. /\ BaseInv' /\ ConstructorFirst'
      /\ \A n \in 1 .. at' - 1 : <<"base", n>> \in variables' <=> Estimated(n)'
  BY MarginalizeKeepsBase
<1>3. (variables \ Base)' = {Clone(c) : c \in clones'} \cup {Landmark(g) : g \in landmarks'}
  BY <1>1
<1>4. ClonesInPast' /\ NoExit'
  BY <1>1 DEF IInv, ClonesInPast, NoExit
<1>5. TypeOK'
  <2>1. exited' \in BOOLEAN
    BY <1>1, Zenon DEF IInv, TypeOK
  <2>2. /\ id' \in [Variables -> Nat \cup {-1}] /\ variables' \subseteq Variables
        /\ cov_rows' \in Nat /\ rows' \in [1 .. cov_rows' -> Components]
    BY <1>1 DEF Layout, LayoutType
  <2>3. /\ options' \in OptionSets /\ at' \in 1 .. AtEnd /\ timestamp' \in ImageTimes \cup {0}
        /\ clones' \subseteq ImageTimes /\ landmarks' \subseteq Features
    BY DEF IInv, TypeOK
  <2> QED
    BY <2>1, <2>2, <2>3, Zenon DEF TypeOK
<1> QED
  BY <1>1, <1>2, <1>3, <1>4, <1>5 DEF IInv, MapsMatchVariables, Layout

LEMMA MarginalizeSlamKeepsIInv ==
  ASSUME IInv, NEW f \in Features, MarginalizeSlam(f)
  PROVE  IInv'
<1>1. /\ at = AtEnd /\ f \in landmarks /\ Marginalize(Landmark(f))
      /\ landmarks' = landmarks \ {f} /\ UNCHANGED <<options, at, timestamp, clones>>
  BY DEF MarginalizeSlam, Running
<1>2. Landmark(f) \in variables \ Base
  BY <1>1, AbsentUnlessMapped, VariableKinds
<1>3. (variables \ Base) \ {Landmark(f)}
        = {Clone(c) : c \in clones'} \cup {Landmark(g) : g \in landmarks'}
  <2>1. variables \ Base = {Clone(c) : c \in clones} \cup {Landmark(g) : g \in landmarks}
    BY DEF IInv, MapsMatchVariables
  <2>2. /\ \A c \in clones : Clone(c) # Landmark(f)
        /\ \A g \in landmarks : Landmark(g) = Landmark(f) <=> g = f
    BY DEF Clone, Landmark
  <2> QED
    BY <1>1, <2>1, <2>2
<1> QED
  BY <1>1, <1>2, <1>3, MarginalizeKeepsIInv

LEMMA MarginalizeOldCloneKeepsIInv ==
  ASSUME IInv, MarginalizeOldClone
  PROVE  IInv'
<1>1. PICK t \in clones : Marginalize(Clone(t)) /\ clones' = clones \ {t}
  BY DEF MarginalizeOldClone
<1>2. at = AtEnd /\ UNCHANGED <<options, at, timestamp, landmarks>>
  BY DEF MarginalizeOldClone, Running
<1>3. Clone(t) \in variables \ Base
  BY <1>1, AbsentUnlessMapped, VariableKinds DEF IInv, TypeOK
<1>4. (variables \ Base) \ {Clone(t)}
        = {Clone(c) : c \in clones'} \cup {Landmark(g) : g \in landmarks'}
  <2>1. variables \ Base = {Clone(c) : c \in clones} \cup {Landmark(g) : g \in landmarks}
    BY DEF IInv, MapsMatchVariables
  <2>2. /\ \A g \in landmarks : Landmark(g) # Clone(t)
        /\ \A c \in clones : Clone(c) = Clone(t) <=> c = t
    BY DEF Clone, Landmark
  <2> QED
    BY <1>1, <1>2, <2>1, <2>2
<1> QED
  BY <1>1, <1>2, <1>3, <1>4, MarginalizeKeepsIInv

LEMMA StepKeepsIInv == IInv /\ [Next]_vars => IInv'
<1> SUFFICES ASSUME IInv, [Next]_vars PROVE IInv'
  OBVIOUS
<1>1. CASE Construct
  BY <1>1, ConstructKeepsIInv
<1>2. CASE SetInitialCovariance
  <2>1. clones \subseteq ImageTimes /\ ClonesInPast /\ timestamp' \in ImageTimes
    BY <1>2 DEF SetInitialCovariance, IInv, TypeOK
  <2>2. \A t \in clones : t <= timestamp'
    BY <1>2, <2>1, LayoutAssumption DEF SetInitialCovariance, ClonesInPast
  <2> QED
    BY <1>2, <2>1, <2>2, SameLayoutKeepsIInv DEF SetInitialCovariance, Running
<1>3. ASSUME NEW t \in ImageTimes, PropagateAndClone(t) PROVE IInv'
  BY <1>3, PropagateKeepsIInv
<1>4. ASSUME NEW t \in ImageTimes, ZeroVelocity(t) PROVE IInv'
  <2>1. /\ clones \subseteq ImageTimes /\ ClonesInPast /\ timestamp' = t /\ t > timestamp
        /\ timestamp \in Nat
    BY <1>4, LayoutAssumption DEF ZeroVelocity, IInv, TypeOK
  <2>2. \A c \in clones : c <= timestamp'
    BY <2>1, LayoutAssumption DEF ClonesInPast
  <2> QED
    BY <1>4, <2>1, <2>2, SameLayoutKeepsIInv DEF ZeroVelocity, Running
<1>5. ASSUME NEW f \in Features, Initialize(f) PROVE IInv'
  BY <1>5, InitializeKeepsIInv
<1>6. ASSUME NEW f \in Features, MarginalizeSlam(f) PROVE IInv'
  BY <1>6, MarginalizeSlamKeepsIInv
<1>7. CASE MarginalizeOldClone
  BY <1>7, MarginalizeOldCloneKeepsIInv
<1>8. CASE UNCHANGED vars
  BY <1>8, SameLayoutKeepsIInv DEF vars, IInv, TypeOK
<1> QED
  BY <1>1, <1>2, <1>3, <1>4, <1>5, <1>6, <1>7, <1>8 DEF Next

LEMMA IInvAlways == Spec => []IInv
BY InitIInv, StepKeepsIInv, PTL DEF Spec

-----------------------------------------------------------------------------
(* Theorems *)

(* Every variable of the model keeps its type, and the matrix its size.    *)
THEOREM TypeCorrect == Spec => []TypeOK
<1>1. IInv => TypeOK
  BY DEF IInv
<1> QED
  BY <1>1, IInvAlways, PTL

(* The rows a variable's id and size point at are always its own, and no   *)
(* row is left over, however often variables were added, copied, refused   *)
(* and removed.                                                            *)
THEOREM RowsStayPartitioned == Spec => []BlocksPartitionRows
<1>1. IInv => BlocksPartitionRows
  BY DEF IInv, BlocksPartitionRows
<1> QED
  BY <1>1, IInvAlways, PTL

(* The maps of clones and landmarks list exactly the variables beyond      *)
(* those of the constructor.                                               *)
THEOREM MapsAgree == Spec => []MapsMatchVariables
<1>1. IInv => MapsMatchVariables
  BY DEF IInv
<1> QED
  BY <1>1, IInvAlways, PTL

(* No check of StateHelper ends the process, for any options: in           *)
(* particular the order Propagator builds is always contiguous.            *)
THEOREM NeverExits == Spec => []NoExit
<1>1. IInv => NoExit
  BY DEF IInv
<1> QED
  BY <1>1, IInvAlways, PTL

(* An appended variable gets the highest id; removing one moves those      *)
(* behind it by as much as they were behind its end.                       *)
LEMMA AppendKeepsOrder ==
  ASSUME IInv, NEW u, u \notin variables, id' = [id EXCEPT ![u] = cov_rows]
  PROVE  \A v \in variables : id'[v] = id[v]
BY DEF IInv, TypeOK

LEMMA MarginalizeKeepsOrder ==
  ASSUME IInv, NEW marg \in variables, Marginalize(marg),
         NEW v \in variables \ {marg}, NEW w \in variables \ {marg}, id[v] < id[w]
  PROVE  id'[v] < id'[w]
<1>1. /\ id'[v] = IF id[v] > id[marg] THEN id[v] - Size(marg) ELSE id[v]
      /\ id'[w] = IF id[w] > id[marg] THEN id[w] - Size(marg) ELSE id[w]
      /\ id[w] > id[marg] => id[w] >= id[marg] + Size(marg)
      /\ ~(id[v] > id[marg]) => id[v] + Size(v) <= id[marg]
      /\ id[v] \in Nat /\ id[w] \in Nat /\ id[marg] \in Nat
      /\ Size(v) \in Nat \ {0} /\ Size(marg) \in Nat \ {0}
  BY IInvLayout, MarginalizeMoves
<1> QED
  BY <1>1

(* The list of variables stays in the order of the covariance.             *)
THEOREM OrderKept == Spec => OrderIsKept
<1> DEFINE Kept == \A v, w \in variables \cap variables' : id[v] < id[w] => id'[v] < id'[w]
<1>1. IInv /\ IInv' /\ [Next]_vars => [Kept]_vars
  <2> SUFFICES ASSUME IInv, IInv', [Next]_vars,
                      NEW v \in variables \cap variables', NEW w \in variables \cap variables',
                      id[v] < id[w]
               PROVE  id'[v] < id'[w]
    BY Zenon
  <2>1. CASE id' = id
    BY <2>1
  <2>2. ASSUME NEW u, u \notin variables, id' = [id EXCEPT ![u] = cov_rows]
        PROVE  id'[v] < id'[w]
    BY <2>2, AppendKeepsOrder
  <2>3. ASSUME NEW marg \in variables, Marginalize(marg)
        PROVE  id'[v] < id'[w]
    <3>1. variables' = variables \ {marg}
      BY <2>3 DEF Marginalize
    <3> QED
      BY <2>3, <3>1, MarginalizeKeepsOrder
  <2>4. CASE Construct
    <3>1. CASE Estimated(at)
      <4>1. <<"base", at>> \notin variables
        BY <2>4, BaseType DEF Construct, IInv, TypeOK, ConstructorFirst
      <4> QED
        BY <2>2, <2>4, <3>1, <4>1 DEF Construct, Push
    <3>2. CASE ~Estimated(at)
      BY <2>1, <2>4, <3>2 DEF Construct
    <3> QED
      BY <3>1, <3>2
  <2>5. CASE SetInitialCovariance
    BY <2>1, <2>5 DEF SetInitialCovariance
  <2>6. ASSUME NEW t \in ImageTimes, PropagateAndClone(t) PROVE id'[v] < id'[w]
    <3>1. CASE id' = [id EXCEPT ![Clone(t)] = cov_rows] /\ t \notin clones
      BY <2>2, <3>1, AbsentUnlessMapped
    <3> QED
      BY <2>1, <2>6, <3>1 DEF PropagateAndClone, ClonePose
  <2>7. ASSUME NEW t \in ImageTimes, ZeroVelocity(t) PROVE id'[v] < id'[w]
    BY <2>1, <2>7 DEF ZeroVelocity
  <2>8. ASSUME NEW f \in Features, Initialize(f) PROVE id'[v] < id'[w]
    BY <2>1, <2>2, <2>8 DEF Initialize, Push
  <2>9. ASSUME NEW f \in Features, MarginalizeSlam(f) PROVE id'[v] < id'[w]
    <3>1. Landmark(f) \in variables
      BY <2>9, AbsentUnlessMapped DEF MarginalizeSlam
    <3> QED
      BY <2>3, <2>9, <3>1 DEF MarginalizeSlam
  <2>10. CASE MarginalizeOldClone
    <3>1. PICK t \in clones : Marginalize(Clone(t))
      BY <2>10 DEF MarginalizeOldClone
    <3>2. Clone(t) \in variables
      BY <3>1, AbsentUnlessMapped DEF IInv, TypeOK
    <3> QED
      BY <2>3, <3>1, <3>2
  <2>11. CASE UNCHANGED vars
    BY <2>1, <2>11 DEF vars
  <2> QED
    BY <2>4, <2>5, <2>6, <2>7, <2>8, <2>9, <2>10, <2>11 DEF Next
<1> QED
  BY <1>1, IInvAlways, PTL DEF Spec, OrderIsKept
-----------------------------------------------------------------------------
(* Refinement: the layout during the updates *)

LEMMA UpdatesStepIsLayoutStep == [UpdatesNext]_allVars => [Next]_vars
<1> SUFFICES ASSUME [UpdatesNext]_allVars PROVE [Next]_vars
  OBVIOUS
<1>1. CASE Rest
  BY <1>1 DEF Rest, Next
<1>2. CASE MarginalizeClone
  BY <1>2 DEF MarginalizeClone, Next
<1>3. CASE Begin \/ BeginSlam \/ MsckfFeature \/ SlamFeature \/ Finish
  BY <1>3 DEF Begin, BeginSlam, MsckfFeature, SlamFeature, Finish
<1>4. ASSUME NEW f \in Features, InitializeFrom(f) PROVE Next
  BY <1>4 DEF InitializeFrom, Next
<1>5. ASSUME NEW f \in Features, ChangeAnchor(f) PROVE UNCHANGED vars
  BY <1>5 DEF ChangeAnchor
<1>6. ASSUME NEW f \in Features, DropLandmark(f) PROVE Next
  BY <1>6 DEF DropLandmark, Next
<1>7. CASE UNCHANGED allVars
  BY <1>7 DEF allVars
<1> QED
  BY <1>1, <1>2, <1>3, <1>4, <1>5, <1>6, <1>7 DEF UpdatesNext

(* Whatever linear systems are built between the operations of             *)
(* StateHelper, the layout behaves as StateLayout says.                    *)
THEOREM UpdatesRefineLayout == UpdatesSpec => Spec
<1>1. UpdatesInit => Init
  BY DEF UpdatesInit
<1> QED
  BY <1>1, UpdatesStepIsLayoutStep, PTL DEF UpdatesSpec, Spec

(* So the block a Jacobian is multiplied with is the variable's own during *)
(* every update as well, and no update ends the process.                   *)
THEOREM LayoutHoldsDuringUpdates ==
  UpdatesSpec => [](TypeOK /\ BlocksPartitionRows /\ MapsMatchVariables /\ NoExit)
BY UpdatesRefineLayout, TypeCorrect, RowsStayPartitioned, MapsAgree, NeverExits, PTL
-----------------------------------------------------------------------------
(* The transition: what the options make of PhiOrder and of the local ids. *)

EstimatedCalib ==
  IF ~options.do_calib_imu_intrinsics THEN {}
  ELSE {"Dw", "Da"} \cup (IF options.do_calib_imu_g_sensitivity THEN {"Tg"} ELSE {})
         \cup (IF options.kalibr THEN {"th_wtoI"} ELSE {"th_atoI"})

LEMMA CalibrationSizes ==
  /\ Size(IMU) = 15 /\ Size(DW) = 6 /\ Size(DA) = 6 /\ Size(TG) = 9
  /\ Size(GYROtoIMU) = 3 /\ Size(ACCtoIMU) = 3
<1>1. Size(IMU) = 15 /\ Size(DW) = 6 /\ Size(DA) = 6
  BY DEF Size, IMU, DW, DA, TG, GYROtoIMU, ACCtoIMU, DT, IsPose
<1>2. Size(TG) = 9
  BY DEF Size, IMU, DW, DA, TG, GYROtoIMU, ACCtoIMU, DT, IsPose
<1>3. Size(GYROtoIMU) = 3 /\ Size(ACCtoIMU) = 3
  BY DEF Size, IMU, DW, DA, TG, GYROtoIMU, ACCtoIMU, DT, IsPose
<1> QED
  BY <1>1, <1>2, <1>3

LEMMA PartVariables ==
  /\ \A part \in ImuParts : VariableOf(part) = IMU /\ PartSize(part) = 3
  /\ VariableOf("Dw") = DW /\ VariableOf("Da") = DA /\ VariableOf("Tg") = TG
  /\ VariableOf("th_wtoI") = GYROtoIMU /\ VariableOf("th_atoI") = ACCtoIMU
  /\ PartSize("Dw") = 6 /\ PartSize("Da") = 6 /\ PartSize("Tg") = 9
  /\ PartSize("th_wtoI") = 3 /\ PartSize("th_atoI") = 3
<1>1. /\ \A part \in ImuParts : VariableOf(part) = IMU /\ PartSize(part) = 3
      /\ VariableOf("Dw") = DW /\ VariableOf("Da") = DA /\ VariableOf("Tg") = TG
      /\ VariableOf("th_wtoI") = GYROtoIMU /\ VariableOf("th_atoI") = ACCtoIMU
  BY DEF VariableOf, PartSize, ImuParts
<1> QED
  BY <1>1, CalibrationSizes DEF PartSize, ImuParts

LEMMA LocalIds ==
  LET calib == options.do_calib_imu_intrinsics
      sens  == options.do_calib_imu_g_sensitivity
      last  == IF sens THEN 36 ELSE 27
  IN /\ LocalId["th"] = 0 /\ LocalId["p"] = 3 /\ LocalId["v"] = 6
     /\ LocalId["bg"] = 9 /\ LocalId["ba"] = 12
     /\ calib => LocalId["Dw"] = 15 /\ LocalId["Da"] = 21
     /\ calib /\ sens => LocalId["Tg"] = 27
     /\ calib /\ options.kalibr => LocalId["th_wtoI"] = last
     /\ calib /\ ~options.kalibr => LocalId["th_atoI"] = last
     /\ \A part \in CalibParts \ EstimatedCalib : LocalId[part] = -1
<1> QED
  BY CalibrationSizes DEF LocalId, CalibParts, EstimatedCalib

LEMMA PresentParts == Present = ImuParts \cup EstimatedCalib
BY LocalIds DEF Present, Parts, ImuParts, CalibParts, EstimatedCalib

(* The variables of the order, the first of them the IMU.                  *)
LEMMA PhiOrderVariables ==
  /\ PhiOrder[1] = IMU
  /\ {PhiOrder[i] : i \in 1 .. Len(PhiOrder)} = {VariableOf(part) : part \in Present}
<1> DEFINE imu == options.do_calib_imu_intrinsics
           tg  == options.do_calib_imu_g_sensitivity
           rot == IF options.kalibr THEN GYROtoIMU ELSE ACCtoIMU
           Elements(s) == {s[i] : i \in 1 .. Len(s)}
<1>1. CASE ~imu
  <2>1. PhiOrder = <<IMU>> /\ Present = ImuParts
    BY <1>1, PresentParts DEF PhiOrder, EstimatedCalib
  <2>2. {VariableOf(part) : part \in ImuParts} = {IMU}
    BY PartVariables DEF ImuParts
  <2> QED
    BY <2>1, <2>2
<1>2. CASE imu
  <2>1. {VariableOf(part) : part \in Present} = {IMU, DW, DA, rot} \cup (IF tg THEN {TG} ELSE {})
    BY <1>2, PresentParts, PartVariables DEF EstimatedCalib, ImuParts
  <2>2. CASE tg
    <3>1. PhiOrder = <<IMU, DW, DA>> \o <<TG>> \o <<rot>>
      BY <1>2, <2>2, Zenon DEF PhiOrder
    <3> HIDE DEF rot
    <3>2. /\ Len(PhiOrder) = 5 /\ PhiOrder[1] = IMU /\ PhiOrder[2] = DW
          /\ PhiOrder[3] = DA /\ PhiOrder[4] = TG /\ PhiOrder[5] = rot
      <4>1. LET s == <<IMU, DW, DA>> \o <<TG>> \o <<rot>>
            IN  /\ Len(s) = 5 /\ s[1] = IMU /\ s[2] = DW /\ s[3] = DA /\ s[4] = TG
                /\ s[5] = rot
        BY FiveInARow
      <4> QED
        BY <3>1, <4>1, Zenon
    <3>3. Elements(PhiOrder) = {IMU, DW, DA, TG, rot}
      BY <3>2
    <3> QED
      BY <2>1, <2>2, <3>2, <3>3
  <2>3. CASE ~tg
    <3>1. PhiOrder = <<IMU, DW, DA>> \o <<>> \o <<rot>>
      BY <1>2, <2>3, Zenon DEF PhiOrder
    <3> HIDE DEF rot
    <3>2. /\ Len(PhiOrder) = 4 /\ PhiOrder[1] = IMU /\ PhiOrder[2] = DW
          /\ PhiOrder[3] = DA /\ PhiOrder[4] = rot
      BY <3>1, FourInARow
    <3>3. Elements(PhiOrder) = {IMU, DW, DA, rot}
      BY <3>2
    <3> QED
      BY <2>1, <2>3, <3>2, <3>3
  <2> QED
    BY <2>2, <2>3
<1> QED
  BY <1>1, <1>2

(* The constructor puts the calibration behind the IMU in the order in     *)
(* which the propagator counts its local ids.                              *)
LEMMA CalibrationBehindImu ==
  ASSUME IInv, at = AtEnd, options.do_calib_imu_intrinsics
  PROVE  LET tg   == options.do_calib_imu_g_sensitivity
             last == IF tg THEN 36 ELSE 27
         IN /\ id[IMU] \in Nat
            /\ id[DW] = id[IMU] + 15 /\ id[DA] = id[IMU] + 21
            /\ tg => id[TG] = id[IMU] + 27
            /\ options.kalibr => id[GYROtoIMU] = id[IMU] + last
            /\ ~options.kalibr => id[ACCtoIMU] = id[IMU] + last
<1> DEFINE B(n) == <<"base", n>>
           tg   == options.do_calib_imu_g_sensitivity
           kal  == options.kalibr
<1>1. AtEnd \in Nat /\ AtEnd >= 10
  BY BaseType
<1>2. ASSUME NEW j \in 1 .. 9, NEW k \in 1 .. 9,
             j < k, Estimated(j), Estimated(k), \A m \in j + 1 .. k - 1 : ~Estimated(m)
      PROVE  id[B(j)] + Size(B(j)) = id[B(k)]
  BY <1>1, <1>2 DEF IInv, BaseInv, Chained, NoneBetween
<1>3. /\ Estimated(1) /\ Estimated(2) /\ Estimated(3)
      /\ tg => Estimated(4)
      /\ ~tg => ~Estimated(4)
      /\ kal => Estimated(5)
      /\ ~kal => Estimated(6) /\ ~Estimated(5)
  BY DEF Estimated
<1>4. /\ Size(B(1)) = 15 /\ Size(B(2)) = 6 /\ Size(B(3)) = 6 /\ Size(B(4)) = 9
  BY CalibrationSizes DEF IMU, DW, DA, TG
<1>5. id[B(1)] \in Nat /\ id[B(2)] \in Int /\ id[B(3)] \in Int /\ id[B(4)] \in Int
  <2>1. IMU \in variables
    BY <1>1, ImuInState
  <2>2. \A n \in 1 .. 9 : B(n) \in Variables
    <3>1. \A n \in 1 .. 9 : n \in 1 .. AtEnd - 1
      BY <1>1
    <3> QED
      BY <3>1, BaseType, VariableKinds, Zenon
  <2> QED
    BY <2>1, <2>2 DEF IInv, TypeOK, BlocksBelong, IMU
<1>6. id[B(2)] = id[B(1)] + 15 /\ id[B(3)] = id[B(1)] + 21
  <2>1. id[B(1)] + Size(B(1)) = id[B(2)] /\ id[B(2)] + Size(B(2)) = id[B(3)]
    BY <1>2, <1>3
  <2> QED
    BY <1>4, <1>5, <2>1
<1>7. tg => id[B(4)] = id[B(1)] + 27
  <2>1. tg => id[B(3)] + Size(B(3)) = id[B(4)]
    BY <1>2, <1>3
  <2> QED
    BY <1>4, <1>5, <1>6, <2>1
<1>8. kal => id[B(5)] = id[B(1)] + (IF tg THEN 36 ELSE 27)
  <2>1. /\ kal /\ tg => id[B(4)] + Size(B(4)) = id[B(5)]
        /\ kal /\ ~tg => id[B(3)] + Size(B(3)) = id[B(5)]
    BY <1>2, <1>3
  <2> QED
    BY <1>4, <1>5, <1>6, <1>7, <2>1
<1>9. ~kal => id[B(6)] = id[B(1)] + (IF tg THEN 36 ELSE 27)
  <2>1. /\ ~kal /\ tg => id[B(4)] + Size(B(4)) = id[B(6)]
        /\ ~kal /\ ~tg => id[B(3)] + Size(B(3)) = id[B(6)]
    BY <1>2, <1>3
  <2> QED
    BY <1>4, <1>5, <1>6, <1>7, <2>1
<1> QED
  BY <1>5, <1>6, <1>7, <1>8, <1>9 DEF IMU, DW, DA, TG, GYROtoIMU, ACCtoIMU

(* A parameter that does not move has its identity and nothing else, and   *)
(* every part but the position has a block in a row of motion.             *)
LEMMA BlocksOfTransition ==
  ASSUME NEW terms \in {Analytic, Discrete}
  PROVE  /\ \A part \in Present \ Moving : {b \in FBlocks(terms) : b[1] = part} = {<<part, part>>}
         /\ \A part \in Present \ {"p"} : \E row \in {"th", "v"} : <<row, part>> \in FBlocks(terms)
<1>1. /\ {"th", "v"} \subseteq Present
      /\ Present \subseteq ImuParts \cup CalibParts
  BY PresentParts DEF ImuParts, CalibParts, EstimatedCalib
<1>2. ASSUME NEW part \in Present \ Moving
      PROVE  {b \in FBlocks(terms) : b[1] = part} = {<<part, part>>}
  BY DEF FBlocks, Kinematics, Moving
<1>3. ASSUME NEW part \in Present \ Moving, part # "p"
      PROVE  \E row \in {"th", "v"} : terms[<<row, part>>] # {}
  <2>1. part \in CalibParts \cup {"bg", "ba"}
    BY <1>1 DEF ImuParts, Moving
  <2>2. \A row \in {"th", "v"} : <<row, part>> \in Moving \X (CalibParts \cup {"bg", "ba"} \cup Noises)
    BY <2>1 DEF Moving
  <2>3. CASE terms = Analytic
    <3>1. terms[<<"th", part>>] = AnalyticTerms("th", part)
      BY <2>2, <2>3 DEF Analytic
    <3>2. AnalyticTerms("th", part) # {}
      BY <2>1 DEF AnalyticTerms, ByGyro, Direct, CalibParts
    <3> QED
      BY <3>1, <3>2
  <2>4. CASE terms = Discrete
    <3>1. terms[<<"th", part>>] = DiscreteTerms("th", part)
      BY <2>2, <2>4 DEF Discrete
    <3>2. DiscreteTerms("th", part) # {}
      BY <2>1 DEF DiscreteTerms, ByGyro, CalibParts
    <3> QED
      BY <3>1, <3>2
  <2> QED
    BY <2>3, <2>4
<1>4. ASSUME NEW part \in Present \ {"p"}
      PROVE  \E row \in {"th", "v"} : <<row, part>> \in FBlocks(terms)
  <2>1. CASE part \in Moving
    BY <1>1, <2>1 DEF FBlocks, Moving
  <2>2. CASE part \notin Moving
    BY <1>3, <2>2 DEF FBlocks, Moving
  <2> QED
    BY <2>1, <2>2
<1> QED
  BY <1>2, <1>4

(* Every part of the transition stands where the state has its variable,   *)
(* for every combination of the calibration options and however many       *)
(* clones and landmarks came and went.                                     *)
THEOREM TransitionStaysMatched == Spec => []TransitionMatchesState
<1>1. IInv => TransitionMatchesState
  <2> SUFFICES ASSUME IInv, at = AtEnd PROVE TransitionMatchesState
    BY DEF TransitionMatchesState
  <2> DEFINE calib == options.do_calib_imu_intrinsics
             sens  == options.do_calib_imu_g_sensitivity
  <2>1. \A part \in Present :
          LocalId[part] + id[PhiOrder[1]] =
            IF part \in ImuParts THEN id[IMU] + ImuOffset[part] ELSE id[VariableOf(part)]
    <3> SUFFICES ASSUME NEW part \in Present
                 PROVE  LocalId[part] + id[IMU] =
                          IF part \in ImuParts THEN id[IMU] + ImuOffset[part] ELSE id[VariableOf(part)]
      BY PhiOrderVariables
    <3>1. id[IMU] \in Nat
      BY BaseType, ImuInState DEF IInv, TypeOK, BlocksBelong
    <3>2. CASE part \in ImuParts
      BY <3>1, <3>2, LocalIds DEF ImuParts, ImuOffset
    <3>3. CASE part \notin ImuParts
      <4>1. part \in EstimatedCalib /\ calib
        BY <3>3, PresentParts DEF EstimatedCalib
      <4> QED
        BY <3>1, <3>3, <4>1, CalibrationBehindImu, LocalIds, PartVariables DEF EstimatedCalib
    <3> QED
      BY <3>2, <3>3
  <2>2. \A part \in Present : LocalId[part] + PartSize(part) <= 15 + imu_intrinsic_size
    BY PresentParts, LocalIds, PartVariables DEF EstimatedCalib, ImuParts, imu_intrinsic_size
  <2>3. \E part \in Present : LocalId[part] + PartSize(part) = 15 + imu_intrinsic_size
    <3>1. CASE ~calib
      <4>1. "ba" \in Present /\ LocalId["ba"] + PartSize("ba") = 15 + imu_intrinsic_size
        BY <3>1, PresentParts, LocalIds, PartVariables DEF ImuParts, imu_intrinsic_size
      <4> QED
        BY <4>1
    <3>2. CASE calib /\ options.kalibr
      <4>1. "th_wtoI" \in Present /\ LocalId["th_wtoI"] + PartSize("th_wtoI") = 15 + imu_intrinsic_size
        BY <3>2, PresentParts, LocalIds, PartVariables DEF EstimatedCalib, imu_intrinsic_size
      <4> QED
        BY <4>1
    <3>3. CASE calib /\ ~options.kalibr
      <4>1. "th_atoI" \in Present /\ LocalId["th_atoI"] + PartSize("th_atoI") = 15 + imu_intrinsic_size
        BY <3>3, PresentParts, LocalIds, PartVariables DEF EstimatedCalib, imu_intrinsic_size
      <4> QED
        BY <4>1
    <3> QED
      BY <3>1, <3>2, <3>3
  <2> QED
    BY <2>1, <2>2, <2>3, PhiOrderVariables, BlocksOfTransition DEF TransitionMatchesState
<1> QED
  BY <1>1, IInvAlways, PTL

-----------------------------------------------------------------------------
(* The blocks of the transition *)

(* The chains of factors are joined, and the columns of a matrix are put *)
(* one behind the other: one lemma for each pair of lengths.             *)
LEMMA Joined12 ==
  ASSUME NEW a, NEW b, NEW c
  PROVE  <<a>> \o <<b, c>> = <<a, b, c>>
<1> DEFINE S == {a, b, c}
           s == <<a>>
           t == <<b, c>>
           u == <<a, b, c>>
<1>1. s \in Seq(S) /\ t \in Seq(S) /\ u \in Seq(S)
  OBVIOUS
<1>2. Len(s) = 1 /\ Len(t) = 2 /\ Len(u) = 3
  OBVIOUS
<1>3. \A i \in 1 .. 1 : u[i] = s[i]
  OBVIOUS
<1>4. \A i \in 1 .. 2 : u[1 + i] = t[i]
  OBVIOUS
<1> HIDE DEF S, s, t, u
<1>5. s \o t = u
  <2>1. Len(u) = Len(s) + Len(t)
    BY <1>2
  <2>2. \A i \in 1 .. Len(s) : u[i] = s[i]
    BY <1>2, <1>3
  <2>3. \A i \in 1 .. Len(t) : u[Len(s) + i] = t[i]
    BY <1>2, <1>4
  <2> QED
    BY <1>1, <2>1, <2>2, <2>3, ConcatIs
<1> QED
  BY <1>5 DEF s, t, u

LEMMA Joined21 ==
  ASSUME NEW a, NEW b, NEW c
  PROVE  <<a, b>> \o <<c>> = <<a, b, c>>
<1> DEFINE S == {a, b, c}
           s == <<a, b>>
           t == <<c>>
           u == <<a, b, c>>
<1>1. s \in Seq(S) /\ t \in Seq(S) /\ u \in Seq(S)
  OBVIOUS
<1>2. Len(s) = 2 /\ Len(t) = 1 /\ Len(u) = 3
  OBVIOUS
<1>3. \A i \in 1 .. 2 : u[i] = s[i]
  OBVIOUS
<1>4. \A i \in 1 .. 1 : u[2 + i] = t[i]
  OBVIOUS
<1> HIDE DEF S, s, t, u
<1>5. s \o t = u
  <2>1. Len(u) = Len(s) + Len(t)
    BY <1>2
  <2>2. \A i \in 1 .. Len(s) : u[i] = s[i]
    BY <1>2, <1>3
  <2>3. \A i \in 1 .. Len(t) : u[Len(s) + i] = t[i]
    BY <1>2, <1>4
  <2> QED
    BY <1>1, <2>1, <2>2, <2>3, ConcatIs
<1> QED
  BY <1>5 DEF s, t, u

LEMMA Joined22 ==
  ASSUME NEW a, NEW b, NEW c, NEW d
  PROVE  <<a, b>> \o <<c, d>> = <<a, b, c, d>>
<1> DEFINE S == {a, b, c, d}
           s == <<a, b>>
           t == <<c, d>>
           u == <<a, b, c, d>>
<1>1. s \in Seq(S) /\ t \in Seq(S) /\ u \in Seq(S)
  OBVIOUS
<1>2. Len(s) = 2 /\ Len(t) = 2 /\ Len(u) = 4
  OBVIOUS
<1>3. \A i \in 1 .. 2 : u[i] = s[i]
  OBVIOUS
<1>4. \A i \in 1 .. 2 : u[2 + i] = t[i]
  OBVIOUS
<1> HIDE DEF S, s, t, u
<1>5. s \o t = u
  <2>1. Len(u) = Len(s) + Len(t)
    BY <1>2
  <2>2. \A i \in 1 .. Len(s) : u[i] = s[i]
    BY <1>2, <1>3
  <2>3. \A i \in 1 .. Len(t) : u[Len(s) + i] = t[i]
    BY <1>2, <1>4
  <2> QED
    BY <1>1, <2>1, <2>2, <2>3, ConcatIs
<1> QED
  BY <1>5 DEF s, t, u

LEMMA Joined23 ==
  ASSUME NEW a, NEW b, NEW c, NEW d, NEW e
  PROVE  <<a, b>> \o <<c, d, e>> = <<a, b, c, d, e>>
<1> DEFINE S == {a, b, c, d, e}
           s == <<a, b>>
           t == <<c, d, e>>
           u == <<a, b, c, d, e>>
<1>1. s \in Seq(S) /\ t \in Seq(S) /\ u \in Seq(S)
  OBVIOUS
<1>2. Len(s) = 2 /\ Len(t) = 3 /\ Len(u) = 5
  OBVIOUS
<1>3. \A i \in 1 .. 2 : u[i] = s[i]
  OBVIOUS
<1>4. \A i \in 1 .. 3 : u[2 + i] = t[i]
  OBVIOUS
<1> HIDE DEF S, s, t, u
<1>5. s \o t = u
  <2>1. Len(u) = Len(s) + Len(t)
    BY <1>2
  <2>2. \A i \in 1 .. Len(s) : u[i] = s[i]
    BY <1>2, <1>3
  <2>3. \A i \in 1 .. Len(t) : u[Len(s) + i] = t[i]
    BY <1>2, <1>4
  <2> QED
    BY <1>1, <2>1, <2>2, <2>3, ConcatIs
<1> QED
  BY <1>5 DEF s, t, u

LEMMA Joined31 ==
  ASSUME NEW a, NEW b, NEW c, NEW d
  PROVE  <<a, b, c>> \o <<d>> = <<a, b, c, d>>
<1> DEFINE S == {a, b, c, d}
           s == <<a, b, c>>
           t == <<d>>
           u == <<a, b, c, d>>
<1>1. s \in Seq(S) /\ t \in Seq(S) /\ u \in Seq(S)
  OBVIOUS
<1>2. Len(s) = 3 /\ Len(t) = 1 /\ Len(u) = 4
  OBVIOUS
<1>3. \A i \in 1 .. 3 : u[i] = s[i]
  OBVIOUS
<1>4. \A i \in 1 .. 1 : u[3 + i] = t[i]
  OBVIOUS
<1> HIDE DEF S, s, t, u
<1>5. s \o t = u
  <2>1. Len(u) = Len(s) + Len(t)
    BY <1>2
  <2>2. \A i \in 1 .. Len(s) : u[i] = s[i]
    BY <1>2, <1>3
  <2>3. \A i \in 1 .. Len(t) : u[Len(s) + i] = t[i]
    BY <1>2, <1>4
  <2> QED
    BY <1>1, <2>1, <2>2, <2>3, ConcatIs
<1> QED
  BY <1>5 DEF s, t, u

LEMMA Joined32 ==
  ASSUME NEW a, NEW b, NEW c, NEW d, NEW e
  PROVE  <<a, b, c>> \o <<d, e>> = <<a, b, c, d, e>>
<1> DEFINE S == {a, b, c, d, e}
           s == <<a, b, c>>
           t == <<d, e>>
           u == <<a, b, c, d, e>>
<1>1. s \in Seq(S) /\ t \in Seq(S) /\ u \in Seq(S)
  OBVIOUS
<1>2. Len(s) = 3 /\ Len(t) = 2 /\ Len(u) = 5
  OBVIOUS
<1>3. \A i \in 1 .. 3 : u[i] = s[i]
  OBVIOUS
<1>4. \A i \in 1 .. 2 : u[3 + i] = t[i]
  OBVIOUS
<1> HIDE DEF S, s, t, u
<1>5. s \o t = u
  <2>1. Len(u) = Len(s) + Len(t)
    BY <1>2
  <2>2. \A i \in 1 .. Len(s) : u[i] = s[i]
    BY <1>2, <1>3
  <2>3. \A i \in 1 .. Len(t) : u[Len(s) + i] = t[i]
    BY <1>2, <1>4
  <2> QED
    BY <1>1, <2>1, <2>2, <2>3, ConcatIs
<1> QED
  BY <1>5 DEF s, t, u

LEMMA Joined33 ==
  ASSUME NEW a, NEW b, NEW c, NEW d, NEW e, NEW f
  PROVE  <<a, b, c>> \o <<d, e, f>> = <<a, b, c, d, e, f>>
<1> DEFINE S == {a, b, c, d, e, f}
           s == <<a, b, c>>
           t == <<d, e, f>>
           u == <<a, b, c, d, e, f>>
<1>1. s \in Seq(S) /\ t \in Seq(S) /\ u \in Seq(S)
  OBVIOUS
<1>2. Len(s) = 3 /\ Len(t) = 3 /\ Len(u) = 6
  OBVIOUS
<1>3. \A i \in 1 .. 3 : u[i] = s[i]
  OBVIOUS
<1>4. \A i \in 1 .. 3 : u[3 + i] = t[i]
  OBVIOUS
<1> HIDE DEF S, s, t, u
<1>5. s \o t = u
  <2>1. Len(u) = Len(s) + Len(t)
    BY <1>2
  <2>2. \A i \in 1 .. Len(s) : u[i] = s[i]
    BY <1>2, <1>3
  <2>3. \A i \in 1 .. Len(t) : u[Len(s) + i] = t[i]
    BY <1>2, <1>4
  <2> QED
    BY <1>1, <2>1, <2>2, <2>3, ConcatIs
<1> QED
  BY <1>5 DEF s, t, u

LEMMA Joined51 ==
  ASSUME NEW a, NEW b, NEW c, NEW d, NEW e, NEW f
  PROVE  <<a, b, c, d, e>> \o <<f>> = <<a, b, c, d, e, f>>
<1> DEFINE S == {a, b, c, d, e, f}
           s == <<a, b, c, d, e>>
           t == <<f>>
           u == <<a, b, c, d, e, f>>
<1>1. s \in Seq(S) /\ t \in Seq(S) /\ u \in Seq(S)
  OBVIOUS
<1>2. Len(s) = 5 /\ Len(t) = 1 /\ Len(u) = 6
  OBVIOUS
<1>3. \A i \in 1 .. 5 : u[i] = s[i]
  OBVIOUS
<1>4. \A i \in 1 .. 1 : u[5 + i] = t[i]
  OBVIOUS
<1> HIDE DEF S, s, t, u
<1>5. s \o t = u
  <2>1. Len(u) = Len(s) + Len(t)
    BY <1>2
  <2>2. \A i \in 1 .. Len(s) : u[i] = s[i]
    BY <1>2, <1>3
  <2>3. \A i \in 1 .. Len(t) : u[Len(s) + i] = t[i]
    BY <1>2, <1>4
  <2> QED
    BY <1>1, <2>1, <2>2, <2>3, ConcatIs
<1> QED
  BY <1>5 DEF s, t, u

(* State::Dm, compute_H_Dw / compute_H_Da and the reading of vec_dw and    *)
(* vec_da take the six numbers in one order, in both calibration models.   *)
LEMMA OneOrder ==
  ASSUME NEW kalibr \in BOOLEAN
  PROVE  Dm(kalibr) = compute_H_D(kalibr) /\ Dm(kalibr) = vec_d(kalibr)
<1>1. /\ Column(1, <<1, 2, 3>>) = <<<<1,1>>, <<2,1>>, <<3,1>>>>
      /\ Column(2, <<2, 3>>) = <<<<2,2>>, <<3,2>>>>
      /\ Column(3, <<3>>) = <<<<3,3>>>>
  BY DEF Column
<1>2. /\ Column(1, <<1>>) = <<<<1,1>>>>
      /\ Column(2, <<1, 2>>) = <<<<1,2>>, <<2,2>>>>
      /\ Column(3, <<1, 2, 3>>) = <<<<1,3>>, <<2,3>>, <<3,3>>>>
  BY DEF Column
<1>3. <<<<1,1>>, <<2,1>>, <<3,1>>>> \o <<<<2,2>>, <<3,2>>>> \o <<<<3,3>>>>
        = <<<<1,1>>, <<2,1>>, <<3,1>>, <<2,2>>, <<3,2>>, <<3,3>>>>
  <2>1. <<<<1,1>>, <<2,1>>, <<3,1>>>> \o <<<<2,2>>, <<3,2>>>> = <<<<1,1>>, <<2,1>>, <<3,1>>, <<2,2>>, <<3,2>>>>
    BY Joined32
  <2>2. <<<<1,1>>, <<2,1>>, <<3,1>>, <<2,2>>, <<3,2>>>> \o <<<<3,3>>>>
          = <<<<1,1>>, <<2,1>>, <<3,1>>, <<2,2>>, <<3,2>>, <<3,3>>>>
    BY Joined51
  <2> QED
    BY <2>1, <2>2, Zenon
<1>4. <<<<1,1>>>> \o <<<<1,2>>, <<2,2>>>> \o <<<<1,3>>, <<2,3>>, <<3,3>>>>
        = <<<<1,1>>, <<1,2>>, <<2,2>>, <<1,3>>, <<2,3>>, <<3,3>>>>
  <2>1. <<<<1,1>>>> \o <<<<1,2>>, <<2,2>>>> = <<<<1,1>>, <<1,2>>, <<2,2>>>>
    BY Joined12
  <2>2. <<<<1,1>>, <<1,2>>, <<2,2>>>> \o <<<<1,3>>, <<2,3>>, <<3,3>>>>
          = <<<<1,1>>, <<1,2>>, <<2,2>>, <<1,3>>, <<2,3>>, <<3,3>>>>
    BY Joined33
  <2> QED
    BY <2>1, <2>2, Zenon
<1>5. CASE kalibr
  BY <1>1, <1>3, <1>5, Zenon DEF Dm, compute_H_D, vec_d
<1>6. CASE ~kalibr
  BY <1>2, <1>4, <1>6, Zenon DEF Dm, compute_H_D, vec_d
<1> QED
  BY <1>5, <1>6

(* The terms with the chain of the gyroscope written out. *)
LEMMA GyroChains ==
  ASSUME NEW sign
  PROVE  /\ ByGyro(sign, << >>) = {<<sign, <<"R_w", "D_w">>>>}
         /\ ByGyro(sign, <<"T_g", "R_a", "D_a">>) = {<<sign, <<"R_w", "D_w", "T_g", "R_a", "D_a">>>>}
         /\ ByGyro(sign, <<"T_g", "R_a", "H_Da">>) = {<<sign, <<"R_w", "D_w", "T_g", "R_a", "H_Da">>>>}
         /\ ByGyro(sign, <<"H_Tg">>) = {<<sign, <<"R_w", "D_w", "H_Tg">>>>}
         /\ ByGyro(sign, <<"T_g", "a x">>) = {<<sign, <<"R_w", "D_w", "T_g", "a x">>>>}
<1>1. <<"R_w", "D_w">> \o << >> = <<"R_w", "D_w">>
  OBVIOUS
<1>2. <<"R_w", "D_w">> \o <<"T_g", "R_a", "D_a">> = <<"R_w", "D_w", "T_g", "R_a", "D_a">>
  BY Joined23
<1>3. <<"R_w", "D_w">> \o <<"T_g", "R_a", "H_Da">> = <<"R_w", "D_w", "T_g", "R_a", "H_Da">>
  BY Joined23
<1>4. <<"R_w", "D_w">> \o <<"H_Tg">> = <<"R_w", "D_w", "H_Tg">>
  BY Joined21
<1>5. <<"R_w", "D_w">> \o <<"T_g", "a x">> = <<"R_w", "D_w", "T_g", "a x">>
  BY Joined22
<1> QED
  BY <1>1, <1>2, <1>3, <1>4, <1>5, Zenon DEF ByGyro

(* What the angular velocity depends on, variable by variable. *)
LEMMA GyroTermsAre ==
  /\ \A col \in {"bg", "n_w"} : GyroTerms(col) = {<<"-", <<"R_w", "D_w">>>>}
  /\ \A col \in {"ba", "n_a"} : GyroTerms(col) = {<<"+", <<"R_w", "D_w", "T_g", "R_a", "D_a">>>>}
  /\ GyroTerms("Dw") = {<<"+", <<"R_w", "H_Dw">>>>}
  /\ GyroTerms("Da") = {<<"-", <<"R_w", "D_w", "T_g", "R_a", "H_Da">>>>}
  /\ GyroTerms("Tg") = {<<"-", <<"R_w", "D_w", "H_Tg">>>>}
  /\ GyroTerms("th_atoI") = {<<"-", <<"R_w", "D_w", "T_g", "a x">>>>}
  /\ GyroTerms("th_wtoI") = {<<"+", <<"w x">>>>}
<1> DEFINE Sensed(terms) == {<<Negated(t[1]), <<"R_w", "D_w", "T_g">> \o t[2]>> : t \in terms}
<1>1. Negated("+") = "-" /\ Negated("-") = "+"
  BY DEF Negated
<1>2. Sensed({}) = {}
  OBVIOUS
<1>3. ASSUME NEW sign, NEW chain
      PROVE  Sensed({<<sign, chain>>}) = {<<Negated(sign), <<"R_w", "D_w", "T_g">> \o chain>>}
  OBVIOUS
<1>4. /\ <<"R_w", "D_w", "T_g">> \o <<"R_a", "D_a">> = <<"R_w", "D_w", "T_g", "R_a", "D_a">>
      /\ <<"R_w", "D_w", "T_g">> \o <<"R_a", "H_Da">> = <<"R_w", "D_w", "T_g", "R_a", "H_Da">>
      /\ <<"R_w", "D_w", "T_g">> \o <<"a x">> = <<"R_w", "D_w", "T_g", "a x">>
  <2>1. <<"R_w", "D_w", "T_g">> \o <<"R_a", "D_a">> = <<"R_w", "D_w", "T_g", "R_a", "D_a">>
    BY Joined32
  <2>2. <<"R_w", "D_w", "T_g">> \o <<"R_a", "H_Da">> = <<"R_w", "D_w", "T_g", "R_a", "H_Da">>
    BY Joined32
  <2>3. <<"R_w", "D_w", "T_g">> \o <<"a x">> = <<"R_w", "D_w", "T_g", "a x">>
    BY Joined31
  <2> QED
    BY <2>1, <2>2, <2>3, Zenon
<1>5. Sensed({<<"-", <<"R_a", "D_a">>>>}) = {<<"+", <<"R_w", "D_w", "T_g", "R_a", "D_a">>>>}
  <2> HIDE DEF Sensed
  <2> QED
    BY <1>1, <1>3, <1>4, Zenon
<1>6. Sensed({<<"+", <<"R_a", "H_Da">>>>}) = {<<"-", <<"R_w", "D_w", "T_g", "R_a", "H_Da">>>>}
  <2> HIDE DEF Sensed
  <2> QED
    BY <1>1, <1>3, <1>4, Zenon
<1>7. Sensed({<<"+", <<"a x">>>>}) = {<<"-", <<"R_w", "D_w", "T_g", "a x">>>>}
  <2> HIDE DEF Sensed
  <2> QED
    BY <1>1, <1>3, <1>4, Zenon
<1>8. \A col : GyroTerms(col) = Sensed(AccTerms(col)) \cup
        CASE col \in {"bg", "n_w"} -> {<<"-", <<"R_w", "D_w">>>>}
          [] col = "Dw" -> {<<"+", <<"R_w", "H_Dw">>>>}
          [] col = "Tg" -> {<<"-", <<"R_w", "D_w", "H_Tg">>>>}
          [] col = "th_wtoI" -> {<<"+", <<"w x">>>>}
          [] OTHER -> {}
  BY Zenon DEF GyroTerms
<1> HIDE DEF Sensed
<1> QED
  BY <1>2, <1>5, <1>6, <1>7, <1>8 DEF AccTerms

(* Each block of F and G, analytic and discrete, is the derivative of the  *)
(* sensor model, but for the block of D_a in the discrete orientation row. *)
LEMMA BlocksFollowSensors ==
  ASSUME NEW row \in Moving, NEW col \in CalibParts \cup {"bg", "ba"} \cup Noises
  PROVE  /\ AnalyticTerms(row, col) = Expected(row, col, TRUE)
         /\ <<row, col>> # <<"th", "Da">> => DiscreteTerms(row, col) = Expected(row, col, FALSE)
<1>1. Negated("+") = "-" /\ Negated("-") = "+"
  BY DEF Negated
<1> DEFINE Turned(terms) == {<<Negated(t[1]), t[2]>> : t \in terms}
<1>2. ASSUME NEW sign, NEW chain PROVE Turned({<<sign, chain>>}) = {<<Negated(sign), chain>>}
  OBVIOUS
<1>3. /\ row = "th" => Expected(row, col, TRUE) = GyroTerms(col) /\ Expected(row, col, FALSE) = GyroTerms(col)
      /\ row # "th" => /\ Expected(row, col, TRUE) = AccTerms(col) \cup Turned(GyroTerms(col))
                       /\ Expected(row, col, FALSE) = AccTerms(col)
  <2>1. Expected(row, col, TRUE) = IF row = "th" THEN GyroTerms(col) ELSE AccTerms(col) \cup Turned(GyroTerms(col))
    BY Zenon DEF Expected
  <2>2. Expected(row, col, FALSE) = IF row = "th" THEN GyroTerms(col) ELSE AccTerms(col)
    BY DEF Expected
  <2> QED
    BY <2>1, <2>2, Zenon
<1> HIDE DEF Turned
<1>4. /\ row = "th" => Plus(row) = "+" /\ Minus(row) = "-"
      /\ row # "th" => Plus(row) = "-" /\ Minus(row) = "+"
  BY DEF Plus, Minus
<1>5. ASSUME NEW sign, NEW chain
      PROVE  /\ row = "th" => Direct(row, sign, chain) = {}
             /\ row # "th" => Direct(row, sign, chain) = {<<sign, chain>>}
  BY DEF Direct
<1>6. CASE col \in {"bg", "n_w"}
  <2>1. GyroTerms(col) = {<<"-", <<"R_w", "D_w">>>>}
    BY <1>6, GyroTermsAre
  <2>2. AccTerms(col) = {}
    BY <1>6 DEF AccTerms
  <2>3. AnalyticTerms(row, col) = {<<Minus(row), <<"R_w", "D_w">>>>}
    BY <1>6, GyroChains DEF AnalyticTerms
  <2>4. Turned(GyroTerms(col)) = {<<"+", <<"R_w", "D_w">>>>}
    BY <1>1, <1>2, <2>1
  <2>5. AnalyticTerms(row, col) = Expected(row, col, TRUE)
    <3>1. CASE row = "th"
      BY <3>1, <1>3, <1>4, <1>5, <2>1, <2>3
    <3>2. CASE row # "th"
      BY <3>2, <1>3, <1>4, <1>5, <2>2, <2>3, <2>4
    <3> QED
      BY <3>1, <3>2
  <2>6. /\ row = "th" => DiscreteTerms(row, col) = {<<"-", <<"R_w", "D_w">>>>}
        /\ row # "th" => DiscreteTerms(row, col) = {}
    BY <1>6, GyroChains DEF DiscreteTerms
  <2> QED
    BY <1>3, <2>1, <2>2, <2>5, <2>6
<1>7. CASE col \in {"ba", "n_a"}
  <2>1. GyroTerms(col) = {<<"+", <<"R_w", "D_w", "T_g", "R_a", "D_a">>>>}
    BY <1>7, GyroTermsAre
  <2>2. AccTerms(col) = {<<"-", <<"R_a", "D_a">>>>}
    BY <1>7 DEF AccTerms
  <2>3. AnalyticTerms(row, col) = {<<Plus(row), <<"R_w", "D_w", "T_g", "R_a", "D_a">>>>} \cup Direct(row, "-", <<"R_a", "D_a">>)
    BY <1>7, GyroChains DEF AnalyticTerms
  <2>4. Turned(GyroTerms(col)) = {<<"-", <<"R_w", "D_w", "T_g", "R_a", "D_a">>>>}
    BY <1>1, <1>2, <2>1
  <2>5. AnalyticTerms(row, col) = Expected(row, col, TRUE)
    <3>1. CASE row = "th"
      BY <3>1, <1>3, <1>4, <1>5, <2>1, <2>3
    <3>2. CASE row # "th"
      BY <3>2, <1>3, <1>4, <1>5, <2>2, <2>3, <2>4
    <3> QED
      BY <3>1, <3>2
  <2>6. /\ row = "th" => DiscreteTerms(row, col) = {<<"+", <<"R_w", "D_w", "T_g", "R_a", "D_a">>>>}
        /\ row # "th" => DiscreteTerms(row, col) = {<<"-", <<"R_a", "D_a">>>>}
    BY <1>7, GyroChains DEF DiscreteTerms
  <2> QED
    BY <1>3, <2>1, <2>2, <2>5, <2>6
<1>8. CASE col = "Dw"
  <2>1. GyroTerms(col) = {<<"+", <<"R_w", "H_Dw">>>>}
    BY <1>8, GyroTermsAre
  <2>2. AccTerms(col) = {}
    BY <1>8 DEF AccTerms
  <2>3. AnalyticTerms(row, col) = {<<Plus(row), <<"R_w", "H_Dw">>>>}
    BY <1>8 DEF AnalyticTerms
  <2>4. Turned(GyroTerms(col)) = {<<"-", <<"R_w", "H_Dw">>>>}
    BY <1>1, <1>2, <2>1
  <2>5. AnalyticTerms(row, col) = Expected(row, col, TRUE)
    <3>1. CASE row = "th"
      BY <3>1, <1>3, <1>4, <1>5, <2>1, <2>3
    <3>2. CASE row # "th"
      BY <3>2, <1>3, <1>4, <1>5, <2>2, <2>3, <2>4
    <3> QED
      BY <3>1, <3>2
  <2>6. /\ row = "th" => DiscreteTerms(row, col) = {<<"+", <<"R_w", "H_Dw">>>>}
        /\ row # "th" => DiscreteTerms(row, col) = {}
    BY <1>8 DEF DiscreteTerms
  <2> QED
    BY <1>3, <2>1, <2>2, <2>5, <2>6
<1>9. CASE col = "Da"
  <2>1. GyroTerms(col) = {<<"-", <<"R_w", "D_w", "T_g", "R_a", "H_Da">>>>}
    BY <1>9, GyroTermsAre
  <2>2. AccTerms(col) = {<<"+", <<"R_a", "H_Da">>>>}
    BY <1>9 DEF AccTerms
  <2>3. AnalyticTerms(row, col) = {<<Minus(row), <<"R_w", "D_w", "T_g", "R_a", "H_Da">>>>} \cup Direct(row, "+", <<"R_a", "H_Da">>)
    BY <1>9, GyroChains DEF AnalyticTerms
  <2>4. Turned(GyroTerms(col)) = {<<"+", <<"R_w", "D_w", "T_g", "R_a", "H_Da">>>>}
    BY <1>1, <1>2, <2>1
  <2>5. AnalyticTerms(row, col) = Expected(row, col, TRUE)
    <3>1. CASE row = "th"
      BY <3>1, <1>3, <1>4, <1>5, <2>1, <2>3
    <3>2. CASE row # "th"
      BY <3>2, <1>3, <1>4, <1>5, <2>2, <2>3, <2>4
    <3> QED
      BY <3>1, <3>2
  <2>6. row # "th" => DiscreteTerms(row, col) = {<<"+", <<"R_a", "H_Da">>>>}
    BY <1>9 DEF DiscreteTerms
  <2> QED
    BY <1>9, <1>3, <2>2, <2>5, <2>6
<1>10. CASE col = "Tg"
  <2>1. GyroTerms(col) = {<<"-", <<"R_w", "D_w", "H_Tg">>>>}
    BY <1>10, GyroTermsAre
  <2>2. AccTerms(col) = {}
    BY <1>10 DEF AccTerms
  <2>3. AnalyticTerms(row, col) = {<<Minus(row), <<"R_w", "D_w", "H_Tg">>>>}
    BY <1>10, GyroChains DEF AnalyticTerms
  <2>4. Turned(GyroTerms(col)) = {<<"+", <<"R_w", "D_w", "H_Tg">>>>}
    BY <1>1, <1>2, <2>1
  <2>5. AnalyticTerms(row, col) = Expected(row, col, TRUE)
    <3>1. CASE row = "th"
      BY <3>1, <1>3, <1>4, <1>5, <2>1, <2>3
    <3>2. CASE row # "th"
      BY <3>2, <1>3, <1>4, <1>5, <2>2, <2>3, <2>4
    <3> QED
      BY <3>1, <3>2
  <2>6. /\ row = "th" => DiscreteTerms(row, col) = {<<"-", <<"R_w", "D_w", "H_Tg">>>>}
        /\ row # "th" => DiscreteTerms(row, col) = {}
    BY <1>10, GyroChains DEF DiscreteTerms
  <2> QED
    BY <1>3, <2>1, <2>2, <2>5, <2>6
<1>11. CASE col = "th_atoI"
  <2>1. GyroTerms(col) = {<<"-", <<"R_w", "D_w", "T_g", "a x">>>>}
    BY <1>11, GyroTermsAre
  <2>2. AccTerms(col) = {<<"+", <<"a x">>>>}
    BY <1>11 DEF AccTerms
  <2>3. AnalyticTerms(row, col) = {<<Minus(row), <<"R_w", "D_w", "T_g", "a x">>>>} \cup Direct(row, "+", <<"a x">>)
    BY <1>11, GyroChains DEF AnalyticTerms
  <2>4. Turned(GyroTerms(col)) = {<<"+", <<"R_w", "D_w", "T_g", "a x">>>>}
    BY <1>1, <1>2, <2>1
  <2>5. AnalyticTerms(row, col) = Expected(row, col, TRUE)
    <3>1. CASE row = "th"
      BY <3>1, <1>3, <1>4, <1>5, <2>1, <2>3
    <3>2. CASE row # "th"
      BY <3>2, <1>3, <1>4, <1>5, <2>2, <2>3, <2>4
    <3> QED
      BY <3>1, <3>2
  <2>6. /\ row = "th" => DiscreteTerms(row, col) = {<<"-", <<"R_w", "D_w", "T_g", "a x">>>>}
        /\ row # "th" => DiscreteTerms(row, col) = {<<"+", <<"a x">>>>}
    BY <1>11, GyroChains DEF DiscreteTerms
  <2> QED
    BY <1>3, <2>1, <2>2, <2>5, <2>6
<1>12. CASE col = "th_wtoI"
  <2>1. GyroTerms(col) = {<<"+", <<"w x">>>>}
    BY <1>12, GyroTermsAre
  <2>2. AccTerms(col) = {}
    BY <1>12 DEF AccTerms
  <2>3. AnalyticTerms(row, col) = {<<Plus(row), <<"w x">>>>}
    BY <1>12 DEF AnalyticTerms
  <2>4. Turned(GyroTerms(col)) = {<<"-", <<"w x">>>>}
    BY <1>1, <1>2, <2>1
  <2>5. AnalyticTerms(row, col) = Expected(row, col, TRUE)
    <3>1. CASE row = "th"
      BY <3>1, <1>3, <1>4, <1>5, <2>1, <2>3
    <3>2. CASE row # "th"
      BY <3>2, <1>3, <1>4, <1>5, <2>2, <2>3, <2>4
    <3> QED
      BY <3>1, <3>2
  <2>6. /\ row = "th" => DiscreteTerms(row, col) = {<<"+", <<"w x">>>>}
        /\ row # "th" => DiscreteTerms(row, col) = {}
    BY <1>12 DEF DiscreteTerms
  <2> QED
    BY <1>3, <2>1, <2>2, <2>5, <2>6
<1> QED
  BY <1>6, <1>7, <1>8, <1>9, <1>10, <1>11, <1>12 DEF CalibParts, Noises

(* Every block of the transition is the derivative of the sensor model,    *)
(* factor by factor and with its sign (the D_a block of the discrete       *)
(* orientation row apart), and the six numbers of D_w and D_a are read,    *)
(* placed and differentiated in one order, under every option.             *)
THEOREM TransitionStaysTrue == Spec => []TransitionFollowsSensors
<1>1. IInv => TransitionFollowsSensors
  <2> SUFFICES ASSUME IInv PROVE TransitionFollowsSensors
    OBVIOUS
  <2>1. options.kalibr \in BOOLEAN
    BY LayoutAssumption DEF IInv, TypeOK, StateOptions
  <2>2. \A b \in DOMAIN Analytic : Analytic[b] = Expected(b[1], b[2], TRUE)
    BY BlocksFollowSensors DEF Analytic
  <2>3. ASSUME NEW b \in DOMAIN Discrete \ {<<"th", "Da">>} PROVE Discrete[b] = Expected(b[1], b[2], FALSE)
    <3>1. /\ b[1] \in Moving /\ b[2] \in CalibParts \cup {"bg", "ba"} \cup Noises /\ b = <<b[1], b[2]>>
          /\ Discrete[b] = DiscreteTerms(b[1], b[2])
      BY DEF Discrete
    <3>2. <<b[1], b[2]>> # <<"th", "Da">>
      BY <3>1
    <3> QED
      BY <3>1, <3>2, BlocksFollowSensors
  <2> QED
    BY <2>1, <2>2, <2>3, OneOrder DEF TransitionFollowsSensors
<1> QED
  BY <1>1, IInvAlways, PTL

-----------------------------------------------------------------------------
(* Columns, one variable after the other *)

(* The definition of Columns is one: a function that satisfies it exists. *)
LEMMA ColumnsOneByOne ==
  ASSUME NEW L, NEW vs, Len(vs) \in Nat
  PROVE  \E cols : /\ cols[0] = L /\ \A n \in 1 .. Len(vs) : cols[n] = Insert(cols[n - 1], vs[n])
                   /\ Columns(L, vs) = cols[Len(vs)]
<1> DEFINE Solves(f, k) == f = [n \in 0 .. k |-> IF n = 0 THEN L ELSE Insert(f[n - 1], vs[n])]
           S == {k \in Nat : \E f : Solves(f, k)}
<1>1. 0 \in S
  <2> DEFINE f == [n \in 0 .. 0 |-> L]
  <2>1. Solves(f, 0)
    OBVIOUS
  <2> QED
    BY <2>1
<1>2. ASSUME NEW k \in Nat, k \in S PROVE k + 1 \in S
  <2>1. PICK f : Solves(f, k)
    BY <1>2
  <2> DEFINE g == [n \in 0 .. k + 1 |-> IF n = k + 1 THEN Insert(f[k], vs[k + 1]) ELSE f[n]]
  <2>2. \A n \in 0 .. k : g[n] = f[n]
    OBVIOUS
  <2>3. ASSUME NEW n \in 0 .. k + 1, n # 0 PROVE g[n] = Insert(g[n - 1], vs[n])
    <3>1. CASE n = k + 1
      <4>1. g[n] = Insert(f[k], vs[k + 1]) /\ n - 1 = k /\ k \in 0 .. k
        BY <3>1
      <4> QED
        BY <2>2, <3>1, <4>1
    <3>2. CASE n # k + 1
      <4>1. n \in 0 .. k /\ n - 1 \in 0 .. k
        BY <2>3, <3>2
      <4>2. f[n] = Insert(f[n - 1], vs[n])
        BY <2>1, <2>3, <4>1
      <4> QED
        BY <2>2, <4>1, <4>2
    <3> QED
      BY <3>1, <3>2
  <2>4. g[0] = L
    BY <2>1, <2>2
  <2>5. Solves(g, k + 1)
    BY <2>3, <2>4
  <2>6. \E f1 : Solves(f1, k + 1)
    <3> HIDE DEF Solves, g
    <3> QED
      BY <2>5
  <2>7. k + 1 \in Nat
    OBVIOUS
  <2> QED
    BY <2>6, <2>7
<1>3. \E f : Solves(f, Len(vs))
  <2> HIDE DEF S
  <2>1. Len(vs) \in S
    BY <1>1, <1>2, Induction
  <2> QED
    BY <2>1 DEF S
<1> DEFINE cols == CHOOSE f : Solves(f, Len(vs))
<1>4. Solves(cols, Len(vs))
  BY <1>3
<1>5. Columns(L, vs) = cols[Len(vs)]
  BY DEF Columns
<1>6. cols[0] = L /\ \A n \in 1 .. Len(vs) : cols[n] = Insert(cols[n - 1], vs[n])
  <2>1. cols = [n \in 0 .. Len(vs) |-> IF n = 0 THEN L ELSE Insert(cols[n - 1], vs[n])]
    BY <1>4
  <2>2. 0 \in 0 .. Len(vs) /\ \A n \in 1 .. Len(vs) : n \in 0 .. Len(vs) /\ n # 0
    OBVIOUS
  <2> HIDE DEF cols, Solves, S
  <2> QED
    BY <2>1, <2>2
<1> HIDE DEF cols, Solves, S
<1> QED
  BY <1>5, <1>6

-----------------------------------------------------------------------------
(* What holds of columns, however they have grown: the variables follow    *)
(* each other without gap or overlap, each of them once.                   *)
Ends(L, v) == L.at[v] + Size(v)

ColumnsType(L) ==
  /\ L.order \in Seq(Variables) /\ L.size \in Nat
  /\ L.at \in [DOMAIN L.at -> Nat] /\ DOMAIN L.at = {L.order[i] : i \in 1 .. Len(L.order)}

OneAfterTheOther(L) ==
  /\ \A i \in 1 .. Len(L.order) :
       L.at[L.order[i]] = IF i = 1 THEN 0 ELSE Ends(L, L.order[i - 1])
  /\ L.size = IF Len(L.order) = 0 THEN 0 ELSE Ends(L, L.order[Len(L.order)])

Apart(L) ==
  /\ \A v \in DOMAIN L.at : Ends(L, v) <= L.size
  /\ \A v, w \in DOMAIN L.at : v # w => Ends(L, v) <= L.at[w] \/ Ends(L, w) <= L.at[v]
  /\ \A i, j \in 1 .. Len(L.order) : L.order[i] = L.order[j] => i = j

Covered(L) == \A c \in Nat : c < L.size => \E v \in DOMAIN L.at : L.at[v] <= c /\ c < Ends(L, v)

Fits(L) == ColumnsType(L) /\ OneAfterTheOther(L) /\ Apart(L) /\ Covered(L)

(* M has the columns of L, and those of the variables S besides. *)
Extends(L, M, S) ==
  Fits(M) /\ DOMAIN M.at = DOMAIN L.at \cup S /\ \A w \in DOMAIN L.at : M.at[w] = L.at[w]

LEMMA EmptyFits == Fits(Empty) /\ DOMAIN Empty.at = {}
<1>1. Len(<< >>) = 0 /\ << >> \in Seq(Variables) /\ DOMAIN << >> = {}
  BY EmptySeq, LenProperties
<1>2. Empty.order = << >> /\ Empty.at = << >> /\ Empty.size = 0
  BY DEF Empty
<1>3. ColumnsType(Empty)
  <2>1. \A i \in 1 .. 0 : FALSE
    OBVIOUS
  <2>2. << >> \in [{} -> Nat]
    OBVIOUS
  <2> QED
    BY <1>1, <1>2, <2>1, <2>2 DEF ColumnsType
<1> QED
  BY <1>1, <1>2, <1>3 DEF Fits, OneAfterTheOther, Apart, Covered

(* A variable that was not there yet gets the next columns.               *)
LEMMA InsertFits ==
  ASSUME NEW L, Fits(L), NEW v \in Variables
  PROVE  Extends(L, Insert(L, v), {v})
<1> DEFINE M == Insert(L, v)
           n == Len(L.order)
<1>1. CASE v \in DOMAIN L.at
  BY <1>1 DEF Insert, Extends
<1>2. CASE v \notin DOMAIN L.at
  <2>1. /\ M.order = Append(L.order, v) /\ M.size = L.size + Size(v)
        /\ M.at = [w \in DOMAIN L.at \cup {v} |-> IF w = v THEN L.size ELSE L.at[w]]
    BY <1>2 DEF Insert
  <2>2. /\ L.order \in Seq(Variables) /\ L.size \in Nat /\ n \in Nat
        /\ \A w \in DOMAIN L.at : L.at[w] \in Nat /\ w \in Variables
        /\ DOMAIN L.at = {L.order[i] : i \in 1 .. n}
    <3>1. L.order \in Seq(Variables) /\ n \in Nat
      BY LenProperties DEF Fits, ColumnsType
    <3>2. \A i \in 1 .. n : L.order[i] \in Variables
      BY <3>1, ElementOfSeq
    <3> QED
      BY <3>1, <3>2 DEF Fits, ColumnsType
  <2>3. Size(v) \in Nat \ {0} /\ \A w \in DOMAIN L.at : Size(w) \in Nat \ {0}
    BY <2>2, SizeType
  <2>4. /\ M.order \in Seq(Variables) /\ Len(M.order) = n + 1
        /\ \A i \in 1 .. n : M.order[i] = L.order[i] /\ L.order[i] \in DOMAIN L.at
        /\ M.order[n + 1] = v
    BY <2>1, <2>2, AppendProperties
  <2>5. /\ DOMAIN M.at = DOMAIN L.at \cup {v} /\ M.at[v] = L.size
        /\ \A w \in DOMAIN L.at : M.at[w] = L.at[w] /\ w # v
    BY <1>2, <2>1
  <2>6. Ends(M, v) = M.size /\ \A w \in DOMAIN L.at : Ends(M, w) = Ends(L, w) /\ Ends(L, w) \in Nat
    <3>1. M.size = L.size + Size(v)
      BY <2>1
    <3>2. \A w \in DOMAIN L.at : L.at[w] + Size(w) \in Nat
      BY <2>2, <2>3
    <3> HIDE DEF M, n
    <3> QED
      BY <2>5, <3>1, <3>2 DEF Ends
  <2>7. M.size \in Nat /\ L.size < M.size
    BY <2>1, <2>2, <2>3
  <2>8. ColumnsType(M)
    <3>1. M.at \in [DOMAIN M.at -> Nat]
      BY <2>1, <2>2
    <3>2. DOMAIN M.at = {M.order[i] : i \in 1 .. n + 1}
      <4>1. \A i \in 1 .. n + 1 : i \in 1 .. n \/ i = n + 1
        BY <2>2
      <4>2. \A i \in 1 .. n + 1 : M.order[i] \in DOMAIN M.at
        BY <2>4, <2>5, <4>1
      <4>3. \A i \in 1 .. n : i \in 1 .. n + 1
        BY <2>2
      <4>4. n + 1 \in 1 .. n + 1
        BY <2>2
      <4>5. \A w \in DOMAIN M.at : \E i \in 1 .. n + 1 : M.order[i] = w
        BY <2>2, <2>4, <2>5, <4>3, <4>4
      <4> HIDE DEF M, n
      <4> QED
        BY <4>2, <4>5
    <3> HIDE DEF M, n
    <3> QED
      BY <2>4, <2>7, <3>1, <3>2 DEF ColumnsType
  <2>9. OneAfterTheOther(M)
    <3>1. /\ \A i \in 1 .. n : L.at[L.order[i]] = IF i = 1 THEN 0 ELSE Ends(L, L.order[i - 1])
          /\ L.size = IF n = 0 THEN 0 ELSE Ends(L, L.order[n])
      BY DEF Fits, OneAfterTheOther
    <3>2. ASSUME NEW i \in 1 .. n + 1
          PROVE  M.at[M.order[i]] = IF i = 1 THEN 0 ELSE Ends(M, M.order[i - 1])
      <4>1. CASE i \in 1 .. n
        <5>1. i # 1 => i - 1 \in 1 .. n
          BY <2>2, <4>1
        <5> HIDE DEF M, n
        <5> QED
          BY <2>4, <2>5, <2>6, <3>1, <4>1, <5>1
      <4>2. CASE i = n + 1
        <5>1. (i = 1 <=> n = 0) /\ i - 1 = n /\ (n # 0 => n \in 1 .. n)
          BY <2>2, <4>2
        <5> HIDE DEF M, n
        <5> QED
          BY <2>4, <2>5, <2>6, <3>1, <4>2, <5>1
      <4> QED
        BY <2>2, <4>1, <4>2
    <3>3. n + 1 # 0
      BY <2>2
    <3> HIDE DEF M, n
    <3> QED
      BY <2>4, <2>6, <3>2, <3>3 DEF OneAfterTheOther
  <2>10. Apart(M)
    <3>1. \A w \in DOMAIN M.at : Ends(M, w) <= M.size
      <4>1. \A w \in DOMAIN L.at : Ends(L, w) <= L.size
        BY DEF Fits, Apart
      <4> HIDE DEF M, n
      <4> QED
        BY <2>2, <2>5, <2>6, <2>7, <4>1
    <3>2. \A u, w \in DOMAIN M.at : u # w => Ends(M, u) <= M.at[w] \/ Ends(M, w) <= M.at[u]
      <4>1. /\ \A w \in DOMAIN L.at : Ends(L, w) <= L.size
            /\ \A u, w \in DOMAIN L.at : u # w => Ends(L, u) <= L.at[w] \/ Ends(L, w) <= L.at[u]
        BY DEF Fits, Apart
      <4> HIDE DEF M, n
      <4> QED
        BY <2>5, <2>6, <4>1
    <3>3. \A i, j \in 1 .. n + 1 : M.order[i] = M.order[j] => i = j
      <4>1. \A i, j \in 1 .. n : L.order[i] = L.order[j] => i = j
        BY DEF Fits, Apart
      <4>2. \A i \in 1 .. n + 1 : i \in 1 .. n \/ i = n + 1
        BY <2>2
      <4> HIDE DEF M, n
      <4> QED
        BY <2>4, <2>5, <4>1, <4>2
    <3> HIDE DEF M, n
    <3> QED
      BY <2>4, <3>1, <3>2, <3>3 DEF Apart
  <2>11. Covered(M)
    <3> SUFFICES ASSUME NEW c \in Nat, c < M.size
                 PROVE  \E w \in DOMAIN M.at : M.at[w] <= c /\ c < Ends(M, w)
      BY DEF Covered
    <3>1. CASE c < L.size
      <4>1. PICK w \in DOMAIN L.at : L.at[w] <= c /\ c < Ends(L, w)
        BY <3>1 DEF Fits, Covered
      <4> HIDE DEF M, n
      <4> QED
        BY <2>5, <2>6, <4>1
    <3>2. CASE L.size <= c
      <4> HIDE DEF M, n
      <4> QED
        BY <2>5, <2>6, <3>2
    <3> QED
      BY <2>2, <3>1, <3>2
  <2> HIDE DEF M, n
  <2> QED
    BY <2>5, <2>8, <2>9, <2>10, <2>11 DEF Fits, Extends, M
<1> QED
  BY <1>1, <1>2

(* So does each of a list, whatever comes twice.                           *)
LEMMA ColumnsFits ==
  ASSUME NEW L, Fits(L), NEW vs \in Seq(Variables)
  PROVE  Extends(L, Columns(L, vs), {vs[i] : i \in 1 .. Len(vs)})
<1>1. Len(vs) \in Nat /\ \A i \in 1 .. Len(vs) : vs[i] \in Variables
  BY LenProperties, ElementOfSeq
<1>2. PICK cols : /\ cols[0] = L /\ \A n \in 1 .. Len(vs) : cols[n] = Insert(cols[n - 1], vs[n])
                  /\ Columns(L, vs) = cols[Len(vs)]
  BY <1>1, ColumnsOneByOne
<1> DEFINE Good(n) == n <= Len(vs) => Extends(L, cols[n], {vs[i] : i \in 1 .. n})
           S == {n \in Nat : Good(n)}
<1>4. 0 \in S
  <2>1. {vs[i] : i \in 1 .. 0} = {}
    OBVIOUS
  <2> QED
    BY <1>2, <2>1 DEF Extends
<1>5. ASSUME NEW n \in Nat, n \in S PROVE n + 1 \in S
  <2> SUFFICES ASSUME n + 1 <= Len(vs) PROVE Extends(L, cols[n + 1], {vs[i] : i \in 1 .. n + 1})
    OBVIOUS
  <2>1. (n + 1) - 1 = n /\ n + 1 \in 1 .. Len(vs) /\ n <= Len(vs)
    BY <1>1
  <2>2. cols[n + 1] = Insert(cols[n], vs[n + 1]) /\ vs[n + 1] \in Variables
    BY <1>1, <1>2, <2>1
  <2>3. Extends(L, cols[n], {vs[i] : i \in 1 .. n})
    BY <1>5, <2>1
  <2>4. Extends(cols[n], cols[n + 1], {vs[n + 1]})
    BY <2>2, <2>3, InsertFits DEF Extends
  <2>5. {vs[i] : i \in 1 .. n + 1} = {vs[i] : i \in 1 .. n} \cup {vs[n + 1]}
    <3>1. \A i \in 1 .. n + 1 : i \in 1 .. n \/ i = n + 1
      OBVIOUS
    <3>2. n + 1 \in 1 .. n + 1 /\ \A i \in 1 .. n : i \in 1 .. n + 1
      OBVIOUS
    <3> QED
      BY <3>1, <3>2
  <2> QED
    BY <2>3, <2>4, <2>5 DEF Extends
<1>6. Len(vs) \in S
  <2> HIDE DEF S
  <2> QED
    BY <1>1, <1>4, <1>5, Induction
<1> QED
  BY <1>1, <1>2, <1>6

-----------------------------------------------------------------------------
(* The position a reader arrives at that adds up the sizes of the order is *)
(* the one the columns were given. *)
LEMMA StartOneByOne ==
  ASSUME NEW order, Len(order) \in Nat
  PROVE  \E sum : /\ sum[0] = 0 /\ \A n \in 1 .. Len(order) : sum[n] = sum[n - 1] + Size(order[n])
                  /\ \A i : Start(order, i) = sum[i - 1]
<1> DEFINE Solves(f, k) == f = [n \in 0 .. k |-> IF n = 0 THEN 0 ELSE f[n - 1] + Size(order[n])]
           S == {k \in Nat : \E f : Solves(f, k)}
<1>1. 0 \in S
  <2> DEFINE f == [n \in 0 .. 0 |-> 0]
  <2>1. Solves(f, 0)
    OBVIOUS
  <2> QED
    BY <2>1
<1>2. ASSUME NEW k \in Nat, k \in S PROVE k + 1 \in S
  <2>1. PICK f : Solves(f, k)
    BY <1>2
  <2> DEFINE g == [n \in 0 .. k + 1 |-> IF n = k + 1 THEN f[k] + Size(order[k + 1]) ELSE f[n]]
  <2>2. \A n \in 0 .. k : g[n] = f[n]
    OBVIOUS
  <2>3. ASSUME NEW n \in 0 .. k + 1, n # 0 PROVE g[n] = g[n - 1] + Size(order[n])
    <3>1. CASE n = k + 1
      <4>1. g[n] = f[k] + Size(order[k + 1]) /\ n - 1 = k /\ k \in 0 .. k
        BY <3>1
      <4> QED
        BY <2>2, <3>1, <4>1
    <3>2. CASE n # k + 1
      <4>1. n \in 0 .. k /\ n - 1 \in 0 .. k
        BY <2>3, <3>2
      <4>2. f[n] = f[n - 1] + Size(order[n])
        BY <2>1, <2>3, <4>1
      <4> QED
        BY <2>2, <4>1, <4>2
    <3> QED
      BY <3>1, <3>2
  <2>4. g[0] = 0
    BY <2>1, <2>2
  <2>5. Solves(g, k + 1)
    BY <2>3, <2>4
  <2>6. \E f1 : Solves(f1, k + 1)
    <3> HIDE DEF Solves, g
    <3> QED
      BY <2>5
  <2>7. k + 1 \in Nat
    OBVIOUS
  <2> QED
    BY <2>6, <2>7
<1>3. \E f : Solves(f, Len(order))
  <2> HIDE DEF S
  <2>1. Len(order) \in S
    BY <1>1, <1>2, Induction
  <2> QED
    BY <2>1 DEF S
<1> DEFINE sum == CHOOSE f : Solves(f, Len(order))
<1>4. Solves(sum, Len(order))
  BY <1>3
<1>5. \A i : Start(order, i) = sum[i - 1]
  BY DEF Start
<1>6. sum[0] = 0 /\ \A n \in 1 .. Len(order) : sum[n] = sum[n - 1] + Size(order[n])
  <2>1. sum = [n \in 0 .. Len(order) |-> IF n = 0 THEN 0 ELSE sum[n - 1] + Size(order[n])]
    BY <1>4
  <2>2. 0 \in 0 .. Len(order) /\ \A n \in 1 .. Len(order) : n \in 0 .. Len(order) /\ n # 0
    OBVIOUS
  <2> HIDE DEF sum, Solves, S
  <2> QED
    BY <2>1, <2>2
<1> HIDE DEF sum, Solves, S
<1> QED
  BY <1>5, <1>6

(* Readers who add up the sizes before a variable find its columns.        *)
LEMMA StartIsPosition ==
  ASSUME NEW L, Fits(L)
  PROVE  \A i \in 1 .. Len(L.order) : Start(L.order, i) = L.at[L.order[i]]
<1> DEFINE len == Len(L.order)
<1>1. len \in Nat
  BY LenProperties DEF Fits, ColumnsType
<1>2. PICK sum : /\ sum[0] = 0 /\ \A n \in 1 .. len : sum[n] = sum[n - 1] + Size(L.order[n])
                 /\ \A i : Start(L.order, i) = sum[i - 1]
  BY <1>1, StartOneByOne
<1>3. \A i \in 1 .. len : L.at[L.order[i]] = IF i = 1 THEN 0 ELSE Ends(L, L.order[i - 1])
  BY DEF Fits, OneAfterTheOther
<1> HIDE DEF len
<1> DEFINE Good(n) == n < len => sum[n] = L.at[L.order[n + 1]]
           S == {n \in Nat : Good(n)}
<1>4. 0 \in S
  <2>1. 0 < len => 1 \in 1 .. len
    BY <1>1
  <2> QED
    BY <1>2, <1>3, <2>1
<1>5. ASSUME NEW n \in Nat, n \in S PROVE n + 1 \in S
  <2> SUFFICES ASSUME n + 1 < len PROVE sum[n + 1] = L.at[L.order[(n + 1) + 1]]
    OBVIOUS
  <2>1. /\ n < len /\ n + 1 \in 1 .. len /\ (n + 1) + 1 \in 1 .. len /\ (n + 1) + 1 # 1
        /\ (n + 1) - 1 = n /\ ((n + 1) + 1) - 1 = n + 1
    BY <1>1
  <2>2. sum[n + 1] = sum[n] + Size(L.order[n + 1])
    BY <1>2, <2>1
  <2>3. L.at[L.order[(n + 1) + 1]] = L.at[L.order[n + 1]] + Size(L.order[n + 1])
    BY <1>3, <2>1 DEF Ends
  <2>4. sum[n] = L.at[L.order[n + 1]]
    BY <1>5, <2>1
  <2> QED
    BY <2>2, <2>3, <2>4
<1>6. \A n \in Nat : n \in S
  <2> HIDE DEF S
  <2> QED
    BY <1>4, <1>5, Induction
<1>7. ASSUME NEW i \in 1 .. len PROVE Start(L.order, i) = L.at[L.order[i]]
  <2>1. i - 1 \in Nat /\ i - 1 < len /\ (i - 1) + 1 = i
    BY <1>1
  <2>2. sum[i - 1] = L.at[L.order[(i - 1) + 1]]
    BY <1>6, <2>1
  <2> QED
    BY <1>2, <2>1, <2>2
<1> QED
  BY <1>7 DEF len

(* The columns a variable starts at are those of no other. *)
LEMMA WrittenIsOne ==
  ASSUME NEW L, Fits(L), NEW v \in DOMAIN L.at
  PROVE  Written(L, L.at[v]) = {v}
<1>1. \A w \in DOMAIN L.at : w \in Variables /\ L.at[w] \in Nat
  <2>1. \A i \in 1 .. Len(L.order) : L.order[i] \in Variables
    BY ElementOfSeq, LenProperties DEF Fits, ColumnsType
  <2> QED
    BY <2>1 DEF Fits, ColumnsType
<1>2. \A w \in DOMAIN L.at : Size(w) \in Nat \ {0}
  BY <1>1, SizeType
<1>3. ASSUME NEW w \in DOMAIN L.at, L.at[w] = L.at[v], w # v PROVE FALSE
  <2>1. L.at[v] + Size(v) <= L.at[w] \/ L.at[w] + Size(w) <= L.at[v]
    BY <1>3 DEF Fits, Apart, Ends
  <2> QED
    BY <1>1, <1>2, <1>3, <2>1
<1> QED
  BY <1>3 DEF Written

-----------------------------------------------------------------------------
(* How many rows or columns variables take up. *)

PartsOf(S) == UNION {{v} \X (1 .. Size(v)) : v \in S}

(* Blocks side by side that leave no gap have as many parts as columns.    *)
LEMMA BlockCount ==
  ASSUME NEW S, S \subseteq Variables, NEW pos \in [S -> Nat], NEW n \in Nat,
         \A v \in S : pos[v] + Size(v) <= n,
         \A v, w \in S : v # w => pos[v] + Size(v) <= pos[w] \/ pos[w] + Size(w) <= pos[v],
         \A c \in Nat : c < n => \E v \in S : pos[v] <= c /\ c < pos[v] + Size(v)
  PROVE  IsFiniteSet(PartsOf(S)) /\ Cardinality(PartsOf(S)) = n
<1>1. \A v \in S : Size(v) \in Nat /\ pos[v] \in Nat
  BY SizeType
<1>2. ASSUME NEW c \in PartsOf(S)
      PROVE  c[1] \in S /\ c[2] \in 1 .. Size(c[1]) /\ c = <<c[1], c[2]>>
  BY DEF PartsOf
<1>3. \A v \in S : \A k \in 1 .. Size(v) : <<v, k>> \in PartsOf(S)
  BY DEF PartsOf
<1> DEFINE f == [c \in PartsOf(S) |-> pos[c[1]] + c[2]]
<1>4. f \in [PartsOf(S) -> 1 .. n]
  <2>1. ASSUME NEW c \in PartsOf(S) PROVE pos[c[1]] + c[2] \in 1 .. n
    <3>1. pos[c[1]] + Size(c[1]) <= n /\ pos[c[1]] \in Nat /\ Size(c[1]) \in Nat /\ c[2] \in 1 .. Size(c[1])
      BY <1>1, <1>2
    <3> QED
      BY <3>1
  <2> QED
    BY <2>1
<1>5. ASSUME NEW c \in PartsOf(S), NEW d \in PartsOf(S), f[c] = f[d] PROVE c = d
  <2>1. pos[c[1]] + c[2] = pos[d[1]] + d[2]
    BY <1>5
  <2>2. /\ c[1] \in S /\ d[1] \in S /\ c[2] \in 1 .. Size(c[1]) /\ d[2] \in 1 .. Size(d[1])
        /\ pos[c[1]] \in Nat /\ pos[d[1]] \in Nat /\ Size(c[1]) \in Nat /\ Size(d[1]) \in Nat
    BY <1>1, <1>2
  <2>3. c[1] # d[1] => pos[c[1]] + Size(c[1]) <= pos[d[1]] \/ pos[d[1]] + Size(d[1]) <= pos[c[1]]
    BY <2>2
  <2>4. c[1] = d[1]
    BY <2>1, <2>2, <2>3
  <2>5. c[2] = d[2]
    BY <2>1, <2>2, <2>4
  <2> QED
    BY <1>2, <2>4, <2>5
<1>6. ASSUME NEW r \in 1 .. n PROVE \E c \in PartsOf(S) : f[c] = r
  <2>1. r - 1 \in Nat /\ r - 1 < n
    OBVIOUS
  <2>2. PICK v \in S : pos[v] <= r - 1 /\ r - 1 < pos[v] + Size(v)
    BY <2>1
  <2>3. r - pos[v] \in 1 .. Size(v) /\ pos[v] + (r - pos[v]) = r
    BY <1>1, <2>2
  <2>4. <<v, r - pos[v]>> \in PartsOf(S)
    BY <1>3, <2>3
  <2>5. f[<<v, r - pos[v]>>] = r
    BY <2>3, <2>4
  <2> HIDE DEF f
  <2> QED
    BY <2>4, <2>5
<1>7. IsFiniteSet(1 .. n) /\ Cardinality(1 .. n) = n
  BY FS_Interval
<1> HIDE DEF f
<1> QED
  BY <1>4, <1>5, <1>6, <1>7, SameNumber

-----------------------------------------------------------------------------
(* Which variables a feature depends on. *)

Held(a) == a.cam \in Cameras /\ a.time \in clones

FiniteClones == clones \subseteq ImageTimes /\ IsFiniteSet(clones) /\ options \in OptionSets

Of(condition, v) == IF condition THEN {v} ELSE {}

AnchorVars(a) == {Clone(a.time)} \cup Of(options.do_calib_camera_pose, Pose(a.cam))

CameraVars(feat, cam) ==
  Of(options.do_calib_camera_pose, Pose(cam)) \cup Of(options.do_calib_camera_intrinsics, Intrinsics(cam))
    \cup {Clone(t) : t \in feat.seen[cam]}

FeatureVars(feat, a) ==
  (UNION {CameraVars(feat, cam) : cam \in DOMAIN feat.seen}) \cup (IF a = NoAnchor THEN {} ELSE AnchorVars(a))

LEMMA CameraVariables ==
  ASSUME options \in OptionSets, NEW cam \in Cameras
  PROVE  /\ cam \in Nat /\ cam # -1
         /\ Pose(cam) \in Base /\ Intrinsics(cam) \in Base
<1>1. options.num_cameras \in Nat /\ options.num_cameras <= MaxCameras /\ MaxCameras \in Nat
  BY LayoutAssumption DEF StateOptions
<1>2. cam \in Nat /\ cam # -1 /\ 8 + 2 * cam \in 1 .. AtEnd - 1 /\ 9 + 2 * cam \in 1 .. AtEnd - 1
  BY <1>1 DEF Cameras, AtEnd
<1> QED
  BY <1>2 DEF Base, Pose, Intrinsics

LEMMA IfVars ==
  ASSUME NEW c \in BOOLEAN, NEW v \in Variables
  PROVE  If(c, v) \in Seq(Variables) /\ {If(c, v)[i] : i \in 1 .. Len(If(c, v))} = Of(c, v)
<1>1. CASE c
  <2>1. <<v>> \in Seq(Variables) /\ Len(<<v>>) = 1 /\ <<v>>[1] = v
    OBVIOUS
  <2>2. 1 .. 1 = {1}
    OBVIOUS
  <2> QED
    BY <1>1, <2>1, <2>2 DEF If, Of
<1>2. CASE ~c
  <2>1. << >> \in Seq(Variables) /\ Len(<< >>) = 0 /\ 1 .. 0 = {}
    OBVIOUS
  <2> QED
    BY <1>2, <2>1 DEF If, Of
<1> QED
  BY <1>1, <1>2

LEMMA ConcatVars ==
  ASSUME NEW s \in Seq(Variables), NEW t \in Seq(Variables)
  PROVE  /\ s \o t \in Seq(Variables)
         /\ {(s \o t)[i] : i \in 1 .. Len(s \o t)}
              = {s[i] : i \in 1 .. Len(s)} \cup {t[i] : i \in 1 .. Len(t)}
<1>1. Len(s) \in Nat /\ Len(t) \in Nat
  BY LenProperties
<1>2. /\ s \o t \in Seq(Variables) /\ Len(s \o t) = Len(s) + Len(t)
      /\ \A i \in 1 .. Len(s) + Len(t) : (s \o t)[i] = IF i <= Len(s) THEN s[i] ELSE t[i - Len(s)]
  BY ConcatProperties
<1>3. ASSUME NEW i \in 1 .. Len(s) + Len(t)
      PROVE  (s \o t)[i] \in {s[j] : j \in 1 .. Len(s)} \cup {t[j] : j \in 1 .. Len(t)}
  <2>1. CASE i <= Len(s)
    <3>1. i \in 1 .. Len(s)
      BY <1>1, <2>1
    <3> QED
      BY <1>2, <2>1, <3>1
  <2>2. CASE ~(i <= Len(s))
    <3>1. i - Len(s) \in 1 .. Len(t)
      BY <1>1, <2>2
    <3> QED
      BY <1>2, <2>2, <3>1
  <2> QED
    BY <2>1, <2>2
<1>4. ASSUME NEW i \in 1 .. Len(s)
      PROVE  i \in 1 .. Len(s) + Len(t) /\ (s \o t)[i] = s[i]
  <2>1. i \in 1 .. Len(s) + Len(t) /\ i <= Len(s)
    BY <1>1
  <2> QED
    BY <1>2, <2>1
<1>5. ASSUME NEW i \in 1 .. Len(t)
      PROVE  i + Len(s) \in 1 .. Len(s) + Len(t) /\ (s \o t)[i + Len(s)] = t[i]
  <2>1. i + Len(s) \in 1 .. Len(s) + Len(t) /\ ~(i + Len(s) <= Len(s)) /\ (i + Len(s)) - Len(s) = i
    BY <1>1
  <2> QED
    BY <1>2, <2>1
<1>6. \A v \in {s[i] : i \in 1 .. Len(s)} \cup {t[i] : i \in 1 .. Len(t)} :
        \E i \in 1 .. Len(s) + Len(t) : (s \o t)[i] = v
  BY <1>4, <1>5
<1> QED
  BY <1>2, <1>3, <1>6

LEMMA CameraOrderVars ==
  ASSUME FiniteClones, NEW feat, NEW cam \in Cameras, feat.seen[cam] \subseteq clones
  PROVE  /\ CameraOrder(feat, cam) \in Seq(Variables)
         /\ {CameraOrder(feat, cam)[i] : i \in 1 .. Len(CameraOrder(feat, cam))} = CameraVars(feat, cam)
<1> DEFINE P == feat.seen[cam]
           n == Cardinality(P)
           s == [i \in 1 .. n |-> Clone(Nth(P, i))]
           p == If(options.do_calib_camera_pose, Pose(cam))
           k == If(options.do_calib_camera_intrinsics, Intrinsics(cam))
<1>1. P \subseteq Nat /\ IsFiniteSet(P) /\ n \in Nat /\ P \subseteq ImageTimes
  BY FS_Subset, FS_CardinalityType, LayoutAssumption DEF FiniteClones
<1>2. \A i \in 1 .. n : Nth(P, i) \in P
  BY <1>1, NthExists
<1>3. s \in Seq(Variables) /\ Len(s) = n
  <2>1. \A i \in 1 .. n : Clone(Nth(P, i)) \in Variables
    BY <1>1, <1>2, VariableKinds
  <2>2. s \in [1 .. n -> Variables]
    BY <2>1
  <2>3. s \in Seq(Variables)
    BY <1>1, <2>2, SeqDef
  <2> QED
    BY <1>1, <2>2, <2>3, LenProperties
<1>4. {s[i] : i \in 1 .. n} = {Clone(t) : t \in P}
  <2>1. \A t \in P : \E i \in 1 .. n : Nth(P, i) = t
    BY <1>1, NthOfRank
  <2>2. \A i \in 1 .. n : s[i] = Clone(Nth(P, i))
    OBVIOUS
  <2> HIDE DEF s, n, P
  <2> QED
    BY <1>2, <2>1, <2>2
<1>5. /\ p \in Seq(Variables) /\ k \in Seq(Variables)
      /\ {p[i] : i \in 1 .. Len(p)} = Of(options.do_calib_camera_pose, Pose(cam))
      /\ {k[i] : i \in 1 .. Len(k)} = Of(options.do_calib_camera_intrinsics, Intrinsics(cam))
  <2>1. Pose(cam) \in Variables /\ Intrinsics(cam) \in Variables
    BY CameraVariables, VariableKinds DEF FiniteClones
  <2>2. options.do_calib_camera_pose \in BOOLEAN /\ options.do_calib_camera_intrinsics \in BOOLEAN
    BY LayoutAssumption DEF FiniteClones, StateOptions
  <2> QED
    BY <2>1, <2>2, IfVars
<1>6. CameraOrder(feat, cam) = (p \o k) \o s
  BY DEF CameraOrder
<1> HIDE DEF p, k, s, n
<1>7. /\ p \o k \in Seq(Variables)
      /\ {(p \o k)[i] : i \in 1 .. Len(p \o k)} = {p[i] : i \in 1 .. Len(p)} \cup {k[i] : i \in 1 .. Len(k)}
  BY <1>5, ConcatVars
<1>8. /\ (p \o k) \o s \in Seq(Variables)
      /\ {((p \o k) \o s)[i] : i \in 1 .. Len((p \o k) \o s)}
           = {(p \o k)[i] : i \in 1 .. Len(p \o k)} \cup {s[i] : i \in 1 .. Len(s)}
  BY <1>3, <1>7, ConcatVars
<1>9. {((p \o k) \o s)[i] : i \in 1 .. Len((p \o k) \o s)} = CameraVars(feat, cam)
  BY <1>3, <1>4, <1>5, <1>7, <1>8 DEF CameraVars
<1> QED
  BY <1>6, <1>8, <1>9

LEMMA AnchorOrderVars ==
  ASSUME FiniteClones, NEW a, Held(a)
  PROVE  /\ AnchorOrder(a) \in Seq(Variables)
         /\ {AnchorOrder(a)[i] : i \in 1 .. Len(AnchorOrder(a))} = AnchorVars(a)
         /\ DOMAIN AnchorOrder(a) = 1 .. Len(AnchorOrder(a))
<1> DEFINE p == If(options.do_calib_camera_pose, Pose(a.cam))
           c == <<Clone(a.time)>>
<1>1. p \in Seq(Variables) /\ {p[i] : i \in 1 .. Len(p)} = Of(options.do_calib_camera_pose, Pose(a.cam))
  <2>1. Pose(a.cam) \in Variables
    BY CameraVariables, VariableKinds DEF FiniteClones, Held
  <2>2. options.do_calib_camera_pose \in BOOLEAN
    BY LayoutAssumption DEF FiniteClones, StateOptions
  <2> QED
    BY <2>1, <2>2, IfVars
<1>2. c \in Seq(Variables) /\ {c[i] : i \in 1 .. Len(c)} = {Clone(a.time)}
  <2>1. Clone(a.time) \in Variables
    BY VariableKinds DEF FiniteClones, Held
  <2>2. Len(c) = 1 /\ c[1] = Clone(a.time) /\ c \in Seq(Variables) /\ 1 .. 1 = {1}
    BY <2>1
  <2> HIDE DEF c
  <2> QED
    BY <2>2
<1>3. AnchorOrder(a) = c \o p
  BY DEF AnchorOrder
<1> HIDE DEF c, p
<1>4. /\ c \o p \in Seq(Variables)
      /\ {(c \o p)[i] : i \in 1 .. Len(c \o p)} = {c[i] : i \in 1 .. Len(c)} \cup {p[i] : i \in 1 .. Len(p)}
  BY <1>1, <1>2, ConcatVars
<1>5. DOMAIN (c \o p) = 1 .. Len(c \o p)
  BY <1>4, LenProperties
<1> QED
  BY <1>1, <1>2, <1>3, <1>4, <1>5 DEF AnchorVars

(* The cameras that have seen a feature, in some order. *)
Seen(feat) ==
  /\ feat.seen \in [DOMAIN feat.seen -> SUBSET clones] /\ DOMAIN feat.seen \subseteq Cameras
  /\ feat.cams \in Seq(DOMAIN feat.seen) /\ DOMAIN feat.seen = {feat.cams[n] : n \in 1 .. Len(feat.cams)}

LEMMA FeatsAreSeen ==
  ASSUME options \in OptionSets, NEW least, NEW feat \in Feats(least)
  PROVE  Seen(feat) /\ Count(feat) >= least
<1>1. PICK C \in (SUBSET Cameras) \ {{}} : feat \in [cams : Orders(C), seen : [C -> SUBSET clones]]
  BY DEF Feats
<1>2. feat.cams \in Orders(C) /\ feat.seen \in [C -> SUBSET clones]
  BY <1>1
<1>3. DOMAIN feat.seen = C /\ C \subseteq Cameras
  BY <1>2
<1>4. IsFiniteSet(C) /\ Cardinality(C) \in Nat
  <2>1. options.num_cameras \in Nat
    BY LayoutAssumption DEF StateOptions
  <2>2. IsFiniteSet(Cameras)
    BY <2>1, FS_Interval DEF Cameras
  <2> QED
    BY <1>3, <2>2, FS_Subset, FS_CardinalityType
<1> DEFINE n == Cardinality(C)
<1>5. feat.cams \in [1 .. n -> C] /\ \A i, j \in 1 .. n : feat.cams[i] = feat.cams[j] => i = j
  <2>1. feat.cams \in [1 .. n -> C] /\ \A i, j \in DOMAIN feat.cams : feat.cams[i] = feat.cams[j] => i = j
    BY <1>2 DEF Orders
  <2>2. DOMAIN feat.cams = 1 .. n
    BY <2>1
  <2> QED
    BY <2>1, <2>2
<1>6. feat.cams \in Seq(C) /\ Len(feat.cams) = n
  <2>1. feat.cams \in Seq(C)
    BY <1>4, <1>5, SeqDef
  <2>2. DOMAIN feat.cams = 1 .. n
    BY <1>5
  <2> QED
    BY <1>4, <2>1, <2>2, LenProperties
<1>7. \A c \in C : \E i \in 1 .. n : feat.cams[i] = c
  <2>1. feat.cams \in Injection(1 .. n, C)
    BY <1>5 DEF Injection, IsInjective
  <2>2. Cardinality(1 .. n) = n
    BY <1>4, FS_Interval
  <2>3. feat.cams \in Surjection(1 .. n, C)
    BY <1>4, <2>1, <2>2, FS_Injection
  <2> QED
    BY <2>3 DEF Surjection
<1>8. Count(feat) >= least
  BY DEF Feats
<1>9. \A i \in 1 .. n : feat.cams[i] \in C
  BY <1>5
<1> HIDE DEF n
<1> QED
  BY <1>2, <1>3, <1>6, <1>7, <1>8, <1>9 DEF Seen

(* The definition of CameraColumns is one, as that of Columns.              *)
LEMMA CamerasOneByOne ==
  ASSUME NEW feat, Len(feat.cams) \in Nat
  PROVE  \E cols : /\ cols[0] = Empty
                   /\ \A n \in 1 .. Len(feat.cams) : cols[n] = Columns(cols[n - 1], CameraOrder(feat, feat.cams[n]))
                   /\ CameraColumns(feat) = cols[Len(feat.cams)]
<1> DEFINE Solves(f, k) == f = [n \in 0 .. k |-> IF n = 0 THEN Empty ELSE Columns(f[n - 1], CameraOrder(feat, feat.cams[n]))]
           S == {k \in Nat : \E f : Solves(f, k)}
<1>1. 0 \in S
  <2> DEFINE f == [n \in 0 .. 0 |-> Empty]
  <2>1. Solves(f, 0)
    OBVIOUS
  <2> QED
    BY <2>1
<1>2. ASSUME NEW k \in Nat, k \in S PROVE k + 1 \in S
  <2>1. PICK f : Solves(f, k)
    BY <1>2
  <2> DEFINE g == [n \in 0 .. k + 1 |-> IF n = k + 1 THEN Columns(f[k], CameraOrder(feat, feat.cams[k + 1])) ELSE f[n]]
  <2>2. \A n \in 0 .. k : g[n] = f[n]
    OBVIOUS
  <2>3. ASSUME NEW n \in 0 .. k + 1, n # 0 PROVE g[n] = Columns(g[n - 1], CameraOrder(feat, feat.cams[n]))
    <3>1. CASE n = k + 1
      <4>1. g[n] = Columns(f[k], CameraOrder(feat, feat.cams[k + 1])) /\ n - 1 = k /\ k \in 0 .. k
        BY <3>1
      <4> QED
        BY <2>2, <3>1, <4>1
    <3>2. CASE n # k + 1
      <4>1. n \in 0 .. k /\ n - 1 \in 0 .. k
        BY <2>3, <3>2
      <4>2. f[n] = Columns(f[n - 1], CameraOrder(feat, feat.cams[n]))
        BY <2>1, <2>3, <4>1
      <4> QED
        BY <2>2, <4>1, <4>2
    <3> QED
      BY <3>1, <3>2
  <2>4. g[0] = Empty
    BY <2>1, <2>2
  <2>5. Solves(g, k + 1)
    BY <2>3, <2>4
  <2>6. \E f1 : Solves(f1, k + 1)
    <3> HIDE DEF Solves, g
    <3> QED
      BY <2>5
  <2>7. k + 1 \in Nat
    OBVIOUS
  <2> QED
    BY <2>6, <2>7
<1>3. \E f : Solves(f, Len(feat.cams))
  <2> HIDE DEF S
  <2>1. Len(feat.cams) \in S
    BY <1>1, <1>2, Induction
  <2> QED
    BY <2>1 DEF S
<1> DEFINE cols == CHOOSE f : Solves(f, Len(feat.cams))
<1>4. Solves(cols, Len(feat.cams))
  BY <1>3
<1>5. CameraColumns(feat) = cols[Len(feat.cams)]
  BY DEF CameraColumns
<1>6. cols[0] = Empty /\ \A n \in 1 .. Len(feat.cams) : cols[n] = Columns(cols[n - 1], CameraOrder(feat, feat.cams[n]))
  <2>1. cols = [n \in 0 .. Len(feat.cams) |-> IF n = 0 THEN Empty ELSE Columns(cols[n - 1], CameraOrder(feat, feat.cams[n]))]
    BY <1>4
  <2>2. 0 \in 0 .. Len(feat.cams) /\ \A n \in 1 .. Len(feat.cams) : n \in 0 .. Len(feat.cams) /\ n # 0
    OBVIOUS
  <2> HIDE DEF cols, Solves, S
  <2> QED
    BY <2>1, <2>2
<1> HIDE DEF cols, Solves, S
<1> QED
  BY <1>5, <1>6

(* The loop over the cameras reaches every clone and calibration of each.  *)
LEMMA CameraColumnsFit ==
  ASSUME FiniteClones, NEW feat, Seen(feat)
  PROVE  /\ Fits(CameraColumns(feat))
         /\ DOMAIN CameraColumns(feat).at = UNION {CameraVars(feat, cam) : cam \in DOMAIN feat.seen}
<1> DEFINE len == Len(feat.cams)
<1>1. len \in Nat /\ \A n \in 1 .. len : feat.cams[n] \in DOMAIN feat.seen
  BY LenProperties, ElementOfSeq DEF Seen
<1>2. PICK cols : /\ cols[0] = Empty
                  /\ \A n \in 1 .. len : cols[n] = Columns(cols[n - 1], CameraOrder(feat, feat.cams[n]))
                  /\ CameraColumns(feat) = cols[len]
  BY <1>1, CamerasOneByOne
<1> HIDE DEF len
<1> DEFINE Vars(n) == UNION {CameraVars(feat, feat.cams[m]) : m \in 1 .. n}
           Good(n) == n <= len => Fits(cols[n]) /\ DOMAIN cols[n].at = Vars(n)
           S == {n \in Nat : Good(n)}
<1>3. 0 \in S
  <2>1. Vars(0) = {}
    OBVIOUS
  <2> QED
    BY <1>2, <2>1, EmptyFits
<1>4. ASSUME NEW n \in Nat, n \in S PROVE n + 1 \in S
  <2> SUFFICES ASSUME n + 1 <= len PROVE Fits(cols[n + 1]) /\ DOMAIN cols[n + 1].at = Vars(n + 1)
    OBVIOUS
  <2>1. n <= len /\ n + 1 \in 1 .. len /\ (n + 1) - 1 = n
    BY <1>1
  <2> DEFINE cam == feat.cams[n + 1]
             vs  == CameraOrder(feat, cam)
  <2>2. cam \in Cameras /\ feat.seen[cam] \subseteq clones
    BY <1>1, <2>1 DEF Seen
  <2>3. vs \in Seq(Variables) /\ {vs[i] : i \in 1 .. Len(vs)} = CameraVars(feat, cam)
    <3> HIDE DEF cam
    <3> QED
      BY <2>2, CameraOrderVars
  <2>4. cols[n + 1] = Columns(cols[n], vs)
    BY <1>2, <2>1
  <2>5. Fits(cols[n]) /\ DOMAIN cols[n].at = Vars(n)
    BY <1>4, <2>1
  <2>6. Extends(cols[n], cols[n + 1], CameraVars(feat, cam))
    <3> HIDE DEF cam, vs
    <3> QED
      BY <2>3, <2>4, <2>5, ColumnsFits
  <2>7. Vars(n + 1) = Vars(n) \cup CameraVars(feat, cam)
    <3>1. \A i \in 1 .. n + 1 : i \in 1 .. n \/ i = n + 1
      OBVIOUS
    <3>2. n + 1 \in 1 .. n + 1 /\ \A i \in 1 .. n : i \in 1 .. n + 1
      OBVIOUS
    <3> QED
      BY <3>1, <3>2
  <2> HIDE DEF cam, vs, Vars
  <2> QED
    BY <2>5, <2>6, <2>7 DEF Extends
<1>5. Good(len)
  <2> HIDE DEF S, Good
  <2>1. \A n \in Nat : n \in S
    BY <1>3, <1>4, Induction
  <2>2. len \in S
    BY <1>1, <2>1
  <2> QED
    BY <2>2 DEF S
<1>6. Vars(len) = UNION {CameraVars(feat, cam) : cam \in DOMAIN feat.seen}
  BY DEF Seen, len
<1> QED
  BY <1>1, <1>2, <1>5, <1>6

LEMMA FeatureVarsAre ==
  ASSUME NEW feat, NEW a
  PROVE  \A v : v \in FeatureVars(feat, a)
                <=> \/ \E cam \in DOMAIN feat.seen : v \in CameraVars(feat, cam)
                    \/ a # NoAnchor /\ v \in AnchorVars(a)
<1> DEFINE U == UNION {CameraVars(feat, cam) : cam \in DOMAIN feat.seen}
<1>1. FeatureVars(feat, a) = U \cup (IF a = NoAnchor THEN {} ELSE AnchorVars(a))
  BY DEF FeatureVars
<1>2. \A v : v \in U <=> \E cam \in DOMAIN feat.seen : v \in CameraVars(feat, cam)
  OBVIOUS
<1>3. \A v : v \in FeatureVars(feat, a) <=> v \in U \/ (a # NoAnchor /\ v \in AnchorVars(a))
  <2> HIDE DEF U
  <2> QED
    BY <1>1
<1> HIDE DEF U
<1> QED
  BY <1>2, <1>3

(* The anchor adds its own, also where it does not see the feature.        *)
LEMMA FeatureColumnsFit ==
  ASSUME FiniteClones, NEW feat, Seen(feat), NEW a, a = NoAnchor \/ Held(a)
  PROVE  /\ Fits(FeatureColumns(feat, a))
         /\ DOMAIN FeatureColumns(feat, a).at = FeatureVars(feat, a)
<1>1. /\ Fits(CameraColumns(feat))
      /\ DOMAIN CameraColumns(feat).at = UNION {CameraVars(feat, cam) : cam \in DOMAIN feat.seen}
  BY CameraColumnsFit
<1>2. CASE a = NoAnchor
  BY <1>1, <1>2 DEF FeatureColumns, FeatureVars
<1>3. CASE a # NoAnchor
  <2>1. AnchorOrder(a) \in Seq(Variables) /\ {AnchorOrder(a)[i] : i \in 1 .. Len(AnchorOrder(a))} = AnchorVars(a)
    BY <1>3, AnchorOrderVars
  <2>2. FeatureColumns(feat, a) = Columns(CameraColumns(feat), AnchorOrder(a))
    BY <1>3 DEF FeatureColumns
  <2>3. Extends(CameraColumns(feat), FeatureColumns(feat, a), AnchorVars(a))
    BY <1>1, <2>1, <2>2, ColumnsFits
  <2>4. FeatureVars(feat, a) = (UNION {CameraVars(feat, cam) : cam \in DOMAIN feat.seen}) \cup AnchorVars(a)
    BY <1>3, FeatureVarsAre
  <2> QED
    BY <1>1, <1>3, <2>3, <2>4 DEF Extends
<1> QED
  BY <1>2, <1>3

(* The variables of the state a feature depends on are in it. *)
LEMMA CameraVarsInState ==
  ASSUME FiniteClones, MapsMatchVariables, at = AtEnd, NEW cam \in Cameras
  PROVE  /\ options.do_calib_camera_pose => Pose(cam) \in variables
         /\ options.do_calib_camera_intrinsics => Intrinsics(cam) \in variables
<1>1. cam \in Nat /\ cam < options.num_cameras /\ options.num_cameras \in Nat
  BY LayoutAssumption DEF FiniteClones, StateOptions, Cameras
<1>2. 8 + 2 * cam \in 1 .. AtEnd - 1 /\ 9 + 2 * cam \in 1 .. AtEnd - 1
  <2>1. options.num_cameras <= MaxCameras /\ MaxCameras \in Nat
    BY LayoutAssumption DEF FiniteClones, StateOptions
  <2> QED
    BY <1>1, <2>1 DEF AtEnd
<1>3. Camera(8 + 2 * cam) = cam /\ IsPose(8 + 2 * cam) /\ Camera(9 + 2 * cam) = cam /\ ~IsPose(9 + 2 * cam)
  <2>1. (8 + 2 * cam) - 8 = 2 * cam /\ (9 + 2 * cam) - 8 = 2 * cam + 1
    BY <1>1
  <2>2. (2 * cam) \div 2 = cam /\ (2 * cam + 1) \div 2 = cam
    BY <1>1
  <2>3. (8 + 2 * cam) % 2 = 0 /\ (9 + 2 * cam) % 2 # 0
    BY <1>1
  <2>4. 8 + 2 * cam >= 8
    BY <1>1
  <2> QED
    BY <2>1, <2>2, <2>3, <2>4 DEF Camera, IsPose
<1>4. Estimated(8 + 2 * cam) <=> options.do_calib_camera_pose
  <2>1. 8 + 2 * cam >= 8 /\ 8 + 2 * cam \notin {1, 2, 3, 4, 5, 6, 7}
    BY <1>1
  <2> QED
    BY <1>1, <1>3, <2>1 DEF Estimated
<1>5. Estimated(9 + 2 * cam) <=> options.do_calib_camera_intrinsics
  <2>1. 9 + 2 * cam >= 8 /\ 9 + 2 * cam \notin {1, 2, 3, 4, 5, 6, 7}
    BY <1>1
  <2> QED
    BY <1>1, <1>3, <2>1 DEF Estimated
<1> QED
  BY <1>2, <1>4, <1>5 DEF MapsMatchVariables, Pose, Intrinsics

LEMMA AnchorVarsInState ==
  ASSUME FiniteClones, MapsMatchVariables, at = AtEnd, NEW a, Held(a)
  PROVE  AnchorVars(a) \subseteq variables
<1>1. \A t \in clones : Clone(t) \in variables
  BY DEF MapsMatchVariables
<1> QED
  BY <1>1, CameraVarsInState DEF AnchorVars, Of, Held

(* A feature names only variables the state has.                           *)
LEMMA FeatureVarsInState ==
  ASSUME FiniteClones, MapsMatchVariables, at = AtEnd, NEW feat, Seen(feat), NEW a, a = NoAnchor \/ Held(a)
  PROVE  FeatureVars(feat, a) \subseteq variables
<1>1. \A t \in clones : Clone(t) \in variables
  BY DEF MapsMatchVariables
<1>2. ASSUME NEW cam \in DOMAIN feat.seen PROVE CameraVars(feat, cam) \subseteq variables
  <2>1. cam \in Cameras /\ feat.seen[cam] \subseteq clones
    BY DEF Seen
  <2> QED
    BY <1>1, <2>1, CameraVarsInState DEF CameraVars, Of
<1>3. a # NoAnchor => AnchorVars(a) \subseteq variables
  BY AnchorVarsInState
<1> QED
  BY <1>2, <1>3, FeatureVarsAre

(* What a measurement adds is there when all its columns are written.      *)
LEMMA NothingLost ==
  ASSUME FiniteClones, NEW feat, Seen(feat), NEW a, a = NoAnchor \/ Held(a),
         NEW L, FeatureVars(feat, a) \subseteq DOMAIN L.at
  PROVE  ~LosesSomething(L, feat, a)
<1> SUFFICES ASSUME NEW m \in Measurements(feat)
             PROVE  UNION {MeasurementRow(L, m[1], m[2], a)[v] \X {v} : v \in DOMAIN L.at} = Contributions(m, a)
  BY DEF LosesSomething
<1> DEFINE cam == m[1]
           t   == m[2]
           V   == DOMAIN L.at
           row == MeasurementRow(L, cam, t, a)
           pose == options.do_calib_camera_pose
           intr == options.do_calib_camera_intrinsics
           OfAnchor(v) == a # NoAnchor /\ v \in AnchorVars(a)
<1>1. cam \in DOMAIN feat.seen /\ t \in feat.seen[cam] /\ cam \in Cameras
  <2>1. PICK c \in DOMAIN feat.seen : m \in {c} \X feat.seen[c]
    BY DEF Measurements
  <2> QED
    BY <2>1 DEF Seen
<1>2. CameraVars(feat, cam) \subseteq V /\ (a # NoAnchor => AnchorVars(a) \subseteq V)
  BY <1>1, FeatureVarsAre
<1>3. /\ Clone(t) \in V /\ (pose => Pose(cam) \in V) /\ (intr => Intrinsics(cam) \in V)
  BY <1>1, <1>2 DEF CameraVars, Of
<1>4. \A v : (a # NoAnchor /\ \E i \in DOMAIN AnchorOrder(a) : AnchorOrder(a)[i] = v) <=> OfAnchor(v)
  BY AnchorOrderVars
<1>5. \A v \in V : row[v] =
        IF intr /\ v = Intrinsics(cam) THEN {"distortion"}
        ELSE (IF v = Clone(t) THEN {"clone"} ELSE {}) \cup (IF OfAnchor(v) THEN {"anchor"} ELSE {})
               \cup (IF pose /\ v = Pose(cam) THEN {"camera"} ELSE {})
  <2> DEFINE zero   == [v \in V |-> {}]
             clone  == [zero EXCEPT ![Clone(t)] = {"clone"}]
             anch   == [v \in V |-> IF a # NoAnchor /\ \E i \in DOMAIN AnchorOrder(a) : AnchorOrder(a)[i] = v
                                    THEN clone[v] \cup {"anchor"} ELSE clone[v]]
             camera == [v \in V |-> IF pose /\ v = Pose(cam) THEN anch[v] \cup {"camera"} ELSE anch[v]]
  <2>1. row = [v \in V |-> IF intr /\ v = Intrinsics(cam) THEN {"distortion"} ELSE camera[v]]
    BY DEF MeasurementRow
  <2>2. \A v \in V : clone[v] = IF v = Clone(t) THEN {"clone"} ELSE {}
    BY <1>3
  <2>3. \A v \in V : anch[v] = IF OfAnchor(v) THEN clone[v] \cup {"anchor"} ELSE clone[v]
    <3> HIDE DEF clone
    <3> QED
      BY <1>4
  <2>4. \A v \in V : camera[v] = IF pose /\ v = Pose(cam) THEN anch[v] \cup {"camera"} ELSE anch[v]
    <3> HIDE DEF clone, anch
    <3> QED
      OBVIOUS
  <2> HIDE DEF camera, anch, clone, row, OfAnchor
  <2>5. \A v \in V : row[v] = IF intr /\ v = Intrinsics(cam) THEN {"distortion"} ELSE camera[v]
    BY <2>1
  <2> QED
    BY <2>2, <2>3, <2>4, <2>5
<1>6. /\ Intrinsics(cam) # Clone(t) /\ (pose => Intrinsics(cam) # Pose(cam))
      /\ (a # NoAnchor => Intrinsics(cam) \notin AnchorVars(a))
  <2>1. \A c \in Cameras : Intrinsics(cam) # Pose(c)
    <3>1. cam \in Nat /\ \A c \in Cameras : c \in Nat
      BY <1>1, CameraVariables DEF FiniteClones
    <3>2. \A c \in Nat : 9 + 2 * cam # 8 + 2 * c
      BY <3>1
    <3> QED
      BY <3>1, <3>2 DEF Intrinsics, Pose
  <2>2. \A u : Intrinsics(cam) # Clone(u)
    BY DEF Intrinsics, Clone
  <2> QED
    BY <1>1, <2>1, <2>2 DEF AnchorVars, Of, Held
<1>7. Contributions(m, a) =
        {<<"clone", Clone(t)>>}
          \cup (IF a = NoAnchor THEN {} ELSE {<<"anchor", v>> : v \in AnchorVars(a)})
          \cup (IF pose THEN {<<"camera", Pose(cam)>>} ELSE {})
          \cup (IF intr THEN {<<"distortion", Intrinsics(cam)>>} ELSE {})
  <2>1. a # NoAnchor => {<<"anchor", AnchorOrder(a)[i]>> : i \in DOMAIN AnchorOrder(a)} = {<<"anchor", v>> : v \in AnchorVars(a)}
    BY <1>4
  <2> QED
    BY <2>1 DEF Contributions
<1> DEFINE left == UNION {row[v] \X {v} : v \in V}
<1> HIDE DEF row
<1>8. left = {<<"clone", Clone(t)>>}
          \cup (IF a = NoAnchor THEN {} ELSE {<<"anchor", v>> : v \in AnchorVars(a)})
          \cup (IF pose THEN {<<"camera", Pose(cam)>>} ELSE {})
          \cup (IF intr THEN {<<"distortion", Intrinsics(cam)>>} ELSE {})
  <2>1. \A v \in V : \A l : l \in row[v] <=>
          \/ l = "clone" /\ v = Clone(t)
          \/ l = "anchor" /\ OfAnchor(v)
          \/ l = "camera" /\ pose /\ v = Pose(cam)
          \/ l = "distortion" /\ intr /\ v = Intrinsics(cam)
    <3> SUFFICES ASSUME NEW v \in V, NEW l
                 PROVE  l \in row[v] <=>
                          \/ l = "clone" /\ v = Clone(t)
                          \/ l = "anchor" /\ OfAnchor(v)
                          \/ l = "camera" /\ pose /\ v = Pose(cam)
                          \/ l = "distortion" /\ intr /\ v = Intrinsics(cam)
      OBVIOUS
    <3>1. CASE intr /\ v = Intrinsics(cam)
      <4>1. row[v] = {"distortion"}
        BY <1>5, <3>1
      <4>2. v # Clone(t) /\ ~OfAnchor(v) /\ ~(pose /\ v = Pose(cam))
        BY <1>6, <3>1
      <4> QED
        BY <3>1, <4>1, <4>2
    <3>2. CASE ~(intr /\ v = Intrinsics(cam))
      <4>1. row[v] = (IF v = Clone(t) THEN {"clone"} ELSE {}) \cup (IF OfAnchor(v) THEN {"anchor"} ELSE {})
                        \cup (IF pose /\ v = Pose(cam) THEN {"camera"} ELSE {})
        BY <1>5, <3>2
      <4> HIDE DEF OfAnchor, V, t, cam, pose, intr
      <4> QED
        BY <3>2, <4>1
    <3> QED
      BY <3>1, <3>2
  <2>2. \A x : x \in left <=> \E v \in V : \E l \in row[v] : x = <<l, v>>
    OBVIOUS
  <2> HIDE DEF left
  <2> QED
    BY <1>2, <1>3, <2>1, <2>2
<1> QED
  BY <1>7, <1>8 DEF row

-----------------------------------------------------------------------------
(* Stacking features *)

Placed(L) == {<<v, L.at[v]>> : v \in DOMAIN L.at}

LEMMA OrderFacts ==
  ASSUME NEW L, Fits(L)
  PROVE  /\ Len(L.order) \in Nat /\ DOMAIN L.order = 1 .. Len(L.order)
         /\ DOMAIN L.at = {L.order[i] : i \in 1 .. Len(L.order)}
         /\ DOMAIN L.at \subseteq Variables
         /\ L.order \in Seq(Variables)
         /\ \A i, j \in 1 .. Len(L.order) : L.order[i] = L.order[j] => i = j
<1>1. L.order \in Seq(Variables) /\ DOMAIN L.at = {L.order[i] : i \in 1 .. Len(L.order)}
  BY DEF Fits, ColumnsType
<1>2. Len(L.order) \in Nat /\ DOMAIN L.order = 1 .. Len(L.order)
  BY <1>1, LenProperties
<1>3. \A i \in 1 .. Len(L.order) : L.order[i] \in Variables
  BY <1>1, ElementOfSeq
<1> QED
  BY <1>1, <1>2, <1>3 DEF Fits, Apart

(* The columns of an update take in those of a feature, block by block.    *)
LEMMA StackedColumns ==
  ASSUME NEW old, Fits(old), NEW L, Fits(L)
  PROVE  LET cols == Columns(old, L.order)
         IN /\ Extends(old, cols, DOMAIN L.at)
            /\ Placed(old) \cup UNION {Written(L, Start(L.order, i)) \X {cols.at[L.order[i]]} : i \in DOMAIN L.order}
                 = Placed(cols)
<1> DEFINE cols == Columns(old, L.order)
           len  == Len(L.order)
           New  == UNION {Written(L, Start(L.order, i)) \X {cols.at[L.order[i]]} : i \in DOMAIN L.order}
<1>1. /\ len \in Nat /\ DOMAIN L.order = 1 .. len /\ L.order \in Seq(Variables)
      /\ DOMAIN L.at = {L.order[i] : i \in 1 .. len}
  BY OrderFacts
<1>2. Extends(old, cols, DOMAIN L.at)
  <2> HIDE DEF len
  <2> QED
    BY <1>1, ColumnsFits DEF len
<1>3. \A i \in 1 .. len : Written(L, Start(L.order, i)) = {L.order[i]}
  <2> SUFFICES ASSUME NEW i \in 1 .. len PROVE Written(L, Start(L.order, i)) = {L.order[i]}
    OBVIOUS
  <2>1. Start(L.order, i) = L.at[L.order[i]] /\ L.order[i] \in DOMAIN L.at
    BY <1>1, StartIsPosition
  <2> QED
    BY <2>1, WrittenIsOne
<1> HIDE DEF cols, len
<1>4. \A x : x \in New <=> \E i \in 1 .. len : x = <<L.order[i], cols.at[L.order[i]]>>
  <2>1. \A x : x \in New <=> \E i \in 1 .. len : x \in Written(L, Start(L.order, i)) \X {cols.at[L.order[i]]}
    BY <1>1
  <2> HIDE DEF New
  <2> QED
    BY <1>3, <2>1
<1> HIDE DEF New
<1>5. \A x : x \in New <=> \E v \in DOMAIN L.at : x = <<v, cols.at[v]>>
  BY <1>1, <1>4
<1>6. DOMAIN cols.at = DOMAIN old.at \cup DOMAIN L.at /\ \A v \in DOMAIN old.at : cols.at[v] = old.at[v]
  BY <1>2 DEF Extends
<1>7. Placed(old) \cup New = Placed(cols)
  BY <1>5, <1>6 DEF Placed
<1> QED
  BY <1>2, <1>7 DEF cols, New

(* Columns of variables of the state are no more than the state has rows,  *)
(* and without those of the landmarks fewer.                               *)
LEMMA LandmarkRows ==
  ASSUME TypeOK, IsFiniteSet(PartsOf({Landmark(f) : f \in landmarks}))
  PROVE  SizeOfLandmarks = Cardinality(PartsOf({Landmark(f) : f \in landmarks}))
<1> DEFINE T == PartsOf({Landmark(f) : f \in landmarks})
           S == UNION {{f} \X (1 .. LandmarkSize[f]) : f \in landmarks}
           g == [s \in S |-> <<Landmark(s[1]), s[2]>>]
<1>1. \A f \in landmarks : Size(Landmark(f)) = LandmarkSize[f]
  BY DEF Size, Landmark, IMU, DW, DA, TG, GYROtoIMU, ACCtoIMU, DT
<1>2. \A s : s \in S <=> \E f \in landmarks : \E k \in 1 .. LandmarkSize[f] : s = <<f, k>>
  OBVIOUS
<1>3. \A s : s \in T <=> \E f \in landmarks : \E k \in 1 .. LandmarkSize[f] : s = <<Landmark(f), k>>
  BY <1>1 DEF PartsOf
<1> HIDE DEF S, T
<1>4. g \in [S -> T]
  BY <1>2, <1>3
<1>5. \A a, b \in S : g[a] = g[b] => a = b
  BY <1>2 DEF Landmark
<1>6. \A t \in T : \E s \in S : g[s] = t
  <2> SUFFICES ASSUME NEW t \in T PROVE \E s \in S : g[s] = t
    OBVIOUS
  <2>1. PICK f \in landmarks : \E k \in 1 .. LandmarkSize[f] : t = <<Landmark(f), k>>
    BY <1>3
  <2> PICK k \in 1 .. LandmarkSize[f] : t = <<Landmark(f), k>>
    BY <2>1
  <2>2. <<f, k>> \in S /\ g[<<f, k>>] = t
    BY <1>2
  <2> HIDE DEF g
  <2> QED
    BY <2>2
<1> HIDE DEF g
<1> QED
  BY <1>4, <1>5, <1>6, SameNumber DEF S, T, SizeOfLandmarks

(* Columns of variables of the state are no more than its rows, without    *)
(* those of landmarks if no landmark is among them.                        *)
LEMMA ColumnsFitState ==
  ASSUME TypeOK, BlocksBelong, NoOrphanRow, MapsMatchVariables,
         NEW L, Fits(L), DOMAIN L.at \subseteq variables
  PROVE  /\ L.size <= cov_rows
         /\ (\A v \in DOMAIN L.at : v[1] # "feat") => L.size <= cov_rows - SizeOfLandmarks
<1> DEFINE D == DOMAIN L.at
           M == {Landmark(f) : f \in landmarks}
<1>1. IsFiniteSet(PartsOf(variables)) /\ Cardinality(PartsOf(variables)) = cov_rows
  <2> DEFINE pos == [v \in variables |-> id[v]]
  <2>1. /\ variables \subseteq Variables /\ cov_rows \in Nat /\ rows \in [1 .. cov_rows -> Components]
        /\ \A v \in variables : id[v] \in Nat /\ Size(v) \in Nat \ {0}
    <3>1. \A v \in variables : id[v] \in Nat \cup {-1} /\ id[v] >= 0
      BY DEF TypeOK, BlocksBelong
    <3> QED
      BY <3>1, SizeType DEF TypeOK
  <2>2. pos \in [variables -> Nat]
    BY <2>1
  <2>3. \A v \in variables : pos[v] + Size(v) <= cov_rows
    BY DEF BlocksBelong
  <2>4. ASSUME NEW v \in variables, NEW w \in variables, v # w
        PROVE  id[v] + Size(v) <= id[w] \/ id[w] + Size(w) <= id[v]
    BY <2>4, BlocksDisjoint DEF Layout, LayoutType, TypeOK
  <2>5. ASSUME NEW c \in Nat, c < cov_rows
        PROVE  \E v \in variables : id[v] <= c /\ c < id[v] + Size(v)
    <3>1. c + 1 \in 1 .. cov_rows
      BY <2>1, <2>5
    <3>2. rows[c + 1] \in Components /\ rows[c + 1][1] \in variables /\ c + 1 = id[rows[c + 1][1]] + rows[c + 1][2]
      BY <2>1, <3>1 DEF NoOrphanRow
    <3>3. rows[c + 1][2] \in 1 .. Size(rows[c + 1][1])
      BY <3>2, ComponentParts
    <3>4. \A p, k, s \in Nat : c + 1 = p + k /\ k \in 1 .. s => p <= c /\ c < p + s
      OBVIOUS
    <3>5. rows[c + 1][2] \in Nat
      BY <2>1, <3>2, <3>3
    <3> QED
      BY <2>1, <3>2, <3>3, <3>4, <3>5
  <2>6. \A v \in variables : pos[v] = id[v]
    OBVIOUS
  <2> HIDE DEF pos
  <2> QED
    BY <2>1, <2>2, <2>3, <2>4, <2>5, <2>6, BlockCount
<1>2. IsFiniteSet(PartsOf(D)) /\ Cardinality(PartsOf(D)) = L.size
  <2>1. D \subseteq Variables /\ L.at \in [D -> Nat] /\ L.size \in Nat
    BY OrderFacts DEF Fits, ColumnsType
  <2>2. /\ \A v \in D : L.at[v] + Size(v) <= L.size
        /\ \A v, w \in D : v # w => L.at[v] + Size(v) <= L.at[w] \/ L.at[w] + Size(w) <= L.at[v]
        /\ \A c \in Nat : c < L.size => \E v \in D : L.at[v] <= c /\ c < L.at[v] + Size(v)
    BY DEF Fits, Apart, Covered, Ends
  <2> HIDE DEF D
  <2> QED
    BY <2>1, <2>2, BlockCount
<1>3. PartsOf(D) \subseteq PartsOf(variables)
  BY DEF PartsOf
<1>4. L.size <= cov_rows
  <2> HIDE DEF D
  <2> QED
    BY <1>1, <1>2, <1>3, FS_Subset
<1>5. ASSUME \A v \in D : v[1] # "feat" PROVE L.size <= cov_rows - SizeOfLandmarks
  <2>1. M \subseteq variables
    BY DEF MapsMatchVariables
  <2>2. PartsOf(M) \subseteq PartsOf(variables)
    BY <2>1 DEF PartsOf
  <2>3. IsFiniteSet(PartsOf(M))
    BY <1>1, <2>2, FS_Subset
  <2>4. SizeOfLandmarks = Cardinality(PartsOf(M)) /\ SizeOfLandmarks \in Nat
    BY <2>3, LandmarkRows, FS_CardinalityType
  <2>5. PartsOf(D) \cap PartsOf(M) = {}
    <3>1. \A v \in D : v \notin M
      BY <1>5 DEF Landmark
    <3> HIDE DEF D, M
    <3> QED
      BY <3>1 DEF PartsOf
  <2>6. PartsOf(D) \cup PartsOf(M) \subseteq PartsOf(variables)
    BY <1>3, <2>2
  <2> HIDE DEF D, M
  <2>7. Cardinality(PartsOf(D) \cup PartsOf(M)) = L.size + SizeOfLandmarks
    <3>1. Cardinality(PartsOf(D) \cup PartsOf(M)) = Cardinality(PartsOf(D)) + Cardinality(PartsOf(M)) - Cardinality({})
      BY <1>2, <2>3, <2>5, FS_Union
    <3>2. L.size \in Nat /\ Cardinality({}) = 0
      BY FS_EmptySet DEF Fits, ColumnsType
    <3> QED
      BY <1>2, <2>4, <3>1, <3>2
  <2>8. Cardinality(PartsOf(D) \cup PartsOf(M)) <= cov_rows
    BY <1>1, <2>6, FS_Subset
  <2>9. L.size \in Nat /\ cov_rows \in Nat
    BY DEF Fits, ColumnsType, TypeOK
  <2> QED
    BY <2>4, <2>7, <2>8, <2>9
<1> QED
  BY <1>4, <1>5

LEMMA CountFacts ==
  ASSUME FiniteClones, NEW feat, Seen(feat)
  PROVE  /\ Count(feat) \in Nat
         /\ Count(feat) >= 1 => \E cam \in DOMAIN feat.seen : feat.seen[cam] # {}
<1>1. IsFiniteSet(Cameras)
  <2>1. options.num_cameras \in Nat
    BY LayoutAssumption DEF FiniteClones, StateOptions
  <2> QED
    BY <2>1, FS_Interval DEF Cameras
<1>2. IsFiniteSet(Cameras \X clones)
  BY <1>1, FS_Product DEF FiniteClones
<1>3. Measurements(feat) \subseteq Cameras \X clones
  BY DEF Measurements, Seen
<1>4. Count(feat) \in Nat
  BY <1>2, <1>3, FS_Subset, FS_CardinalityType DEF Count
<1>5. ASSUME \A cam \in DOMAIN feat.seen : feat.seen[cam] = {} PROVE Count(feat) = 0
  <2>1. Measurements(feat) = {}
    BY <1>5 DEF Measurements
  <2> QED
    BY <2>1, FS_EmptySet DEF Count
<1> QED
  BY <1>4, <1>5

(* The camera with most measurements has one, and the anchor is its last.  *)
LEMMA AnchorIsHeld ==
  ASSUME FiniteClones, NEW feat, Seen(feat), Count(feat) >= 1
  PROVE  /\ Held(Anchor(feat, AnchorCamera(feat)))
         /\ Anchor(feat, AnchorCamera(feat)) \in [cam : Int, time : Nat]
<1> DEFINE C == DOMAIN feat.seen
           most == {cam \in C : \A c \in C : Cardinality(feat.seen[c]) <= Cardinality(feat.seen[cam])}
           len == Len(feat.cams)
           First(i) == feat.cams[i] \in most /\ \A j \in 1 .. i - 1 : feat.cams[j] \notin most
<1>1. /\ \A c \in C : feat.seen[c] \subseteq clones /\ IsFiniteSet(feat.seen[c]) /\ Cardinality(feat.seen[c]) \in Nat
                      /\ Cardinality(feat.seen[c]) <= Cardinality(clones)
      /\ Cardinality(clones) \in Nat
  <2>1. \A c \in C : feat.seen[c] \subseteq clones
    BY DEF Seen
  <2>2. IsFiniteSet(clones) /\ Cardinality(clones) \in Nat
    BY FS_CardinalityType DEF FiniteClones
  <2> QED
    BY <2>1, <2>2, FS_Subset, FS_CardinalityType
<1>2. PICK one \in C : feat.seen[one] # {}
  BY CountFacts
<1>3. PICK top \in C : \A c \in C : Cardinality(feat.seen[c]) <= Cardinality(feat.seen[top])
  <2> DEFINE N == {Cardinality(feat.seen[c]) : c \in C}
  <2>1. N \subseteq Int /\ N # {} /\ \A n \in N : n <= Cardinality(clones)
    BY <1>1, <1>2
  <2>2. Cardinality(clones) \in Int
    BY <1>1
  <2>3. PICK m \in N : \A n \in N : n <= m
    <3> HIDE DEF N
    <3> QED
      BY <2>1, <2>2, GreatestExists
  <2> QED
    BY <2>3
<1>4. /\ feat.cams \in Seq(C) /\ len \in Nat /\ DOMAIN feat.cams = 1 .. len
      /\ C = {feat.cams[n] : n \in 1 .. len}
  BY LenProperties DEF Seen
<1>5. top \in most
  BY <1>3
<1> HIDE DEF most, len
<1>6. PICK i \in 1 .. len : First(i)
  <2> DEFINE I == {n \in 1 .. len : feat.cams[n] \in most}
  <2>1. I \subseteq Nat /\ I # {}
    BY <1>4, <1>5 DEF most
  <2>2. PICK i \in I : \A n \in I : i <= n
    <3> HIDE DEF I
    <3> QED
      BY <2>1, LeastExists
  <2>3. ASSUME NEW j \in 1 .. i - 1 PROVE feat.cams[j] \notin most
    <3>1. j \in 1 .. len /\ ~(i <= j)
      BY <1>4, <2>2
    <3> QED
      BY <2>2, <3>1
  <2> QED
    BY <2>2, <2>3
<1> DEFINE k == CHOOSE n \in 1 .. len : First(n)
           cam == feat.cams[k]
<1>7. k \in 1 .. len /\ First(k)
  <2> HIDE DEF First
  <2> QED
    BY <1>6
<1>8. AnchorCamera(feat) = cam
  BY <1>4 DEF AnchorCamera, most, First, k
<1>9. cam \in most
  BY <1>7
<1>10. cam \in C /\ \A c \in C : Cardinality(feat.seen[c]) <= Cardinality(feat.seen[cam])
  BY <1>9 DEF most
<1> HIDE DEF k, cam, First
<1>11. feat.seen[cam] # {}
  <2>1. Cardinality(feat.seen[one]) # 0 /\ Cardinality(feat.seen[one]) \in Nat
    BY <1>1, <1>2, FS_EmptySet
  <2>2. Cardinality(feat.seen[cam]) # 0
    BY <1>1, <1>2, <1>10, <2>1
  <2> QED
    BY <2>2, FS_EmptySet
<1> DEFINE last == CHOOSE t \in feat.seen[cam] : \A u \in feat.seen[cam] : u <= t
<1>12. last \in feat.seen[cam]
  <2>1. feat.seen[cam] \subseteq Nat /\ IsFiniteSet(feat.seen[cam])
    BY <1>1, <1>10, LayoutAssumption DEF FiniteClones
  <2>2. Nth(feat.seen[cam], Cardinality(feat.seen[cam])) \in feat.seen[cam]
    <3>1. Cardinality(feat.seen[cam]) \in 1 .. Cardinality(feat.seen[cam])
      BY <1>1, <1>10, <1>11, FS_EmptySet
    <3> QED
      BY <2>1, <3>1, NthExists
  <2>3. \E t \in feat.seen[cam] : \A u \in feat.seen[cam] : u <= t
    <3> DEFINE n == Cardinality(feat.seen[cam])
               m == Nth(feat.seen[cam], n)
    <3>1. \A u \in feat.seen[cam] : u <= m
      <4> SUFFICES ASSUME NEW u \in feat.seen[cam] PROVE u <= m
        OBVIOUS
      <4>1. PICK r \in 1 .. n : Nth(feat.seen[cam], r) = u
        BY <2>1, NthOfRank
      <4>2. n \in 1 .. n /\ r \in Nat /\ n \in Nat
        BY <1>1, <1>10, <4>1
      <4>3. r < n => u < m
        BY <2>1, <4>1, <4>2, NthIncreases
      <4>4. r = n => u = m
        BY <4>1
      <4>5. u \in Nat /\ m \in Nat
        BY <2>1, <2>2
      <4> HIDE DEF n, m
      <4> QED
        BY <4>2, <4>3, <4>4, <4>5
    <3> HIDE DEF n, m
    <3> QED
      BY <2>2, <3>1 DEF n, m
  <2> QED
    BY <2>3
<1>13. Anchor(feat, cam) = [cam |-> cam, time |-> last]
  BY DEF Anchor
<1> HIDE DEF last
<1>14. cam \in Cameras /\ cam \in Nat /\ last \in clones /\ last \in Nat
  <2>1. cam \in Cameras /\ last \in clones
    BY <1>1, <1>10, <1>12 DEF Seen
  <2> QED
    BY <2>1, LayoutAssumption, CameraVariables DEF FiniteClones
<1> QED
  BY <1>8, <1>13, <1>14 DEF Held

(* A feature depends on clones and on variables of the constructor.        *)
LEMMA FeatureVarsKinds ==
  ASSUME FiniteClones, NEW feat, Seen(feat), NEW a, a = NoAnchor \/ Held(a)
  PROVE  \A v \in FeatureVars(feat, a) : v[1] # "feat"
<1>1. \A t : Clone(t)[1] # "feat"
  BY DEF Clone
<1>2. \A cam : Pose(cam)[1] # "feat" /\ Intrinsics(cam)[1] # "feat"
  BY DEF Pose, Intrinsics
<1>3. \A cam \in DOMAIN feat.seen : \A v \in CameraVars(feat, cam) : v[1] # "feat"
  BY <1>1, <1>2 DEF CameraVars, Of
<1>4. \A v \in AnchorVars(a) : v[1] # "feat"
  BY <1>1, <1>2 DEF AnchorVars, Of
<1> QED
  BY <1>3, <1>4, FeatureVarsAre

-----------------------------------------------------------------------------
(* The inductive invariant of the updates *)

Fields == {"kind", "cols", "placed", "rows", "max_meas", "room", "features", "lost"}
Shaped(s) == s = [x \in Fields |-> s[x]]

Sound(s) ==
  /\ Shaped(s) /\ Fits(s.cols) /\ s.placed = Placed(s.cols) /\ ~s.lost
  /\ s.rows \in Nat /\ s.max_meas \in Nat /\ s.rows <= s.max_meas /\ s.cols.size <= s.room

InState == DOMAIN system.cols.at \subseteq variables

RoomMade ==
  /\ system.kind = "slam" => at = AtEnd /\ system.room = cov_rows
  /\ system.kind \in {"msckf", "msckf anchored"} =>
       /\ at = AtEnd /\ system.room = cov_rows - SizeOfLandmarks
       /\ \A v \in DOMAIN system.cols.at : v[1] # "feat"

AnchorsHeld ==
  /\ anchor \in [Features -> [cam : Int, time : Nat]]
  /\ \A f \in landmarks : anchor[f] = NoAnchor \/ Held(anchor[f])

UInv == Sound(system) /\ InState /\ RoomMade /\ AnchorsHeld

(* The window is finite: max_clone_size is a number.                       *)
LEMMA FiniteWindow == IInv => FiniteClones
<1> SUFFICES ASSUME IInv PROVE FiniteClones
  OBVIOUS
<1>1. clones \subseteq ImageTimes /\ timestamp \in Nat /\ \A t \in clones : t <= timestamp
  BY LayoutAssumption DEF IInv, TypeOK, ClonesInPast
<1>2. clones \in SUBSET Nat
  BY <1>1, LayoutAssumption
<1>3. IsFiniteSet(clones)
  BY <1>1, <1>2, FS_BoundedSetOfNaturals
<1> QED
  BY <1>1, <1>3 DEF FiniteClones, IInv, TypeOK

LEMMA IdleIsSound ==
  Sound(Idle) /\ Idle.kind = "none" /\ DOMAIN Idle.cols.at = {} /\ Idle.cols = Empty
<1>1. /\ Idle.kind = "none" /\ Idle.cols = Empty /\ Idle.placed = {} /\ Idle.rows = 0
      /\ Idle.max_meas = 0 /\ Idle.room = 0 /\ Idle.lost = FALSE
  BY DEF Idle
<1>2. Shaped(Idle)
  BY DEF Shaped, Idle, Fields
<1>3. Empty.size = 0
  BY DEF Empty
<1>4. Placed(Empty) = {}
  BY EmptyFits DEF Placed
<1> QED
  BY <1>1, <1>2, <1>3, <1>4, EmptyFits DEF Sound

(* What is filled in of a system, and what is left. *)
Filled(s, c, p, r)  == [s EXCEPT !.cols = c, !.placed = p, !.rows = r]
Counted(s, m, n, l) == [s EXCEPT !.max_meas = m, !.features = n, !.lost = l]

LEMMA FilledFields ==
  ASSUME NEW s, Shaped(s), NEW c, NEW p, NEW r
  PROVE  LET t == Filled(s, c, p, r)
         IN /\ Shaped(t)
            /\ t.kind = s.kind /\ t.cols = c /\ t.placed = p /\ t.rows = r /\ t.max_meas = s.max_meas
            /\ t.room = s.room /\ t.features = s.features /\ t.lost = s.lost
<1> DEFINE t == Filled(s, c, p, r)
<1>1. DOMAIN s = Fields
  BY DEF Shaped
<1>2. t = [x \in Fields |-> IF x = "rows" THEN r ELSE IF x = "placed" THEN p ELSE IF x = "cols" THEN c ELSE s[x]]
  BY <1>1 DEF Filled
<1> HIDE DEF t
<1>3. Shaped(t)
  BY <1>2 DEF Shaped
<1>4. \A x \in Fields : t[x] = IF x = "rows" THEN r ELSE IF x = "placed" THEN p ELSE IF x = "cols" THEN c ELSE s[x]
  BY <1>2
<1>5. /\ t.kind = s.kind /\ t.cols = c /\ t.placed = p /\ t.rows = r /\ t.max_meas = s.max_meas
      /\ t.room = s.room /\ t.features = s.features /\ t.lost = s.lost
  BY <1>4 DEF Fields
<1> QED
  BY <1>3, <1>5 DEF t

LEMMA CountedFields ==
  ASSUME NEW s, Shaped(s), NEW m, NEW n, NEW l
  PROVE  LET t == Counted(s, m, n, l)
         IN /\ Shaped(t)
            /\ t.kind = s.kind /\ t.cols = s.cols /\ t.placed = s.placed /\ t.rows = s.rows /\ t.max_meas = m
            /\ t.room = s.room /\ t.features = n /\ t.lost = l
<1> DEFINE t == Counted(s, m, n, l)
<1>1. DOMAIN s = Fields
  BY DEF Shaped
<1>2. t = [x \in Fields |-> IF x = "lost" THEN l ELSE IF x = "features" THEN n ELSE IF x = "max_meas" THEN m ELSE s[x]]
  BY <1>1 DEF Counted
<1> HIDE DEF t
<1>3. Shaped(t)
  BY <1>2 DEF Shaped
<1>4. \A x \in Fields : t[x] = IF x = "lost" THEN l ELSE IF x = "features" THEN n ELSE IF x = "max_meas" THEN m ELSE s[x]
  BY <1>2
<1>5. /\ t.kind = s.kind /\ t.cols = s.cols /\ t.placed = s.placed /\ t.rows = s.rows /\ t.max_meas = m
      /\ t.room = s.room /\ t.features = n /\ t.lost = l
  BY <1>4 DEF Fields
<1> QED
  BY <1>3, <1>5 DEF t

LEMMA StackFields ==
  ASSUME Shaped(system), NEW L, NEW rws
  PROVE  LET cols == Columns(system.cols, L.order)
             s == Stack(L, rws)
         IN /\ Shaped(s) /\ s.kind = system.kind /\ s.cols = cols
            /\ s.placed = system.placed \cup
                             UNION {Written(L, Start(L.order, i)) \X {cols.at[L.order[i]]} : i \in DOMAIN L.order}
            /\ s.rows = system.rows + rws /\ s.max_meas = system.max_meas /\ s.room = system.room
            /\ s.features = system.features /\ s.lost = system.lost
<1> DEFINE cols == Columns(system.cols, L.order)
           placed == system.placed \cup
                       UNION {Written(L, Start(L.order, i)) \X {cols.at[L.order[i]]} : i \in DOMAIN L.order}
           r == system.rows + rws
           s == Stack(L, rws)
<1>1. s = Filled(system, cols, placed, r)
  BY DEF Stack, Filled
<1> HIDE DEF cols, placed, r, s
<1>2. /\ Shaped(s) /\ s.kind = system.kind /\ s.cols = cols /\ s.placed = placed /\ s.rows = r
      /\ s.max_meas = system.max_meas /\ s.room = system.room /\ s.features = system.features
      /\ s.lost = system.lost
  BY <1>1, FilledFields
<1> QED
  BY <1>2 DEF cols, placed, r, s

(* What has been stacked is sound. *)
LEMMA StackSound ==
  ASSUME Sound(system), NEW L, Fits(L), NEW rws
  PROVE  LET cols == Columns(system.cols, L.order)
             s == Stack(L, rws)
         IN /\ Shaped(s) /\ Fits(s.cols) /\ s.placed = Placed(s.cols) /\ s.cols = cols
            /\ DOMAIN s.cols.at = DOMAIN system.cols.at \cup DOMAIN L.at
            /\ s.kind = system.kind /\ s.rows = system.rows + rws /\ s.max_meas = system.max_meas
            /\ s.room = system.room /\ s.features = system.features /\ s.lost = system.lost
<1> DEFINE cols == Columns(system.cols, L.order)
           s == Stack(L, rws)
           New == UNION {Written(L, Start(L.order, i)) \X {cols.at[L.order[i]]} : i \in DOMAIN L.order}
<1>1. Shaped(system) /\ Fits(system.cols) /\ system.placed = Placed(system.cols)
  BY DEF Sound
<1>2. /\ Shaped(s) /\ s.kind = system.kind /\ s.cols = cols /\ s.placed = system.placed \cup New
      /\ s.rows = system.rows + rws /\ s.max_meas = system.max_meas /\ s.room = system.room
      /\ s.features = system.features /\ s.lost = system.lost
  BY <1>1, StackFields
<1>3. Extends(system.cols, cols, DOMAIN L.at) /\ Placed(system.cols) \cup New = Placed(cols)
  BY <1>1, StackedColumns
<1> HIDE DEF cols, s, New
<1> QED
  BY <1>1, <1>2, <1>3 DEF Extends, s, cols

(* A feature that is stacked or not. *)
LEMMA AddKeepsSound ==
  ASSUME FiniteClones, Sound(system), NEW feat, Seen(feat), NEW a, a = NoAnchor \/ Held(a),
         NEW L, Fits(L), FeatureVars(feat, a) \subseteq DOMAIN L.at,
         NEW rws \in Nat, 1 <= rws, rws <= 2 * Count(feat),
         Columns(system.cols, L.order).size <= system.room,
         Add(feat, a, L, rws)
  PROVE  /\ Sound(system') /\ system'.kind = system.kind /\ system'.room = system.room
         /\ DOMAIN system'.cols.at \subseteq DOMAIN system.cols.at \cup DOMAIN L.at
<1> DEFINE mm == system.max_meas + 2 * Count(feat)
           ff == system.features + 1
           ll == system.lost \/ LosesSomething(L, feat, a) \/ rws < 1
           s  == Stack(L, rws)
<1>1. Count(feat) \in Nat
  BY CountFacts
<1>2. mm \in Nat /\ system.rows \in Nat /\ system.rows <= mm /\ system.rows + rws \in Nat /\ system.rows + rws <= mm
  <2>1. system.rows \in Nat /\ system.max_meas \in Nat /\ system.rows <= system.max_meas
    BY DEF Sound
  <2> QED
    BY <1>1, <2>1
<1>3. Shaped(system) /\ ~system.lost
  BY DEF Sound
<1>4. CASE system' = [system EXCEPT !.max_meas = @ + 2 * Count(feat), !.features = @ + 1]
  <2>1. system' = [system EXCEPT !.max_meas = mm, !.features = ff]
    BY <1>4
  <2> HIDE DEF mm, ff
  <2>2. system' = Counted(system, mm, ff, system.lost)
    BY <1>3, <2>1 DEF Shaped, Fields, Counted
  <2>3. /\ Shaped(system') /\ system'.kind = system.kind /\ system'.cols = system.cols
        /\ system'.placed = system.placed /\ system'.rows = system.rows /\ system'.max_meas = mm
        /\ system'.room = system.room /\ system'.features = ff /\ system'.lost = system.lost
    BY <1>3, <2>2, CountedFields
  <2> QED
    BY <1>2, <2>3 DEF Sound
<1>5. CASE system' = [s EXCEPT !.max_meas = @ + 2 * Count(feat), !.features = @ + 1,
                               !.lost = @ \/ LosesSomething(L, feat, a) \/ rws < 1]
  <2>1. /\ Shaped(s) /\ Fits(s.cols) /\ s.placed = Placed(s.cols)
        /\ s.cols = Columns(system.cols, L.order)
        /\ DOMAIN s.cols.at = DOMAIN system.cols.at \cup DOMAIN L.at
        /\ s.kind = system.kind /\ s.rows = system.rows + rws /\ s.max_meas = system.max_meas
        /\ s.room = system.room /\ s.features = system.features /\ s.lost = system.lost
    BY StackSound
  <2>2. ~ll
    <3>1. ~LosesSomething(L, feat, a)
      BY NothingLost
    <3>2. ~(rws < 1)
      OBVIOUS
    <3> QED
      BY <1>3, <3>1, <3>2
  <2>3. system' = Counted(s, mm, ff, ll)
    <3>1. /\ s.max_meas + 2 * Count(feat) = mm /\ s.features + 1 = ff
      BY <2>1
    <3>2. (s.lost \/ LosesSomething(L, feat, a) \/ rws < 1) = ll
      BY <2>1
    <3> HIDE DEF s, mm, ff, ll
    <3> QED
      BY <1>5, <3>1, <3>2 DEF Counted
  <2> HIDE DEF mm, ff, ll, s
  <2>4. /\ Shaped(system') /\ system'.kind = s.kind /\ system'.cols = s.cols /\ system'.placed = s.placed
        /\ system'.rows = s.rows /\ system'.max_meas = mm /\ system'.room = s.room
        /\ system'.features = ff /\ system'.lost = ll
    BY <2>1, <2>3, CountedFields
  <2> QED
    BY <1>2, <2>1, <2>2, <2>4 DEF Sound
<1> QED
  BY <1>4, <1>5 DEF Add

Handed(s, k, q, m, l) == [s EXCEPT !.kind = k, !.room = q, !.max_meas = m, !.lost = l]

LEMMA HandedFields ==
  ASSUME NEW s, Shaped(s), NEW k, NEW q, NEW m, NEW l
  PROVE  LET t == Handed(s, k, q, m, l)
         IN /\ Shaped(t)
            /\ t.kind = k /\ t.cols = s.cols /\ t.placed = s.placed /\ t.rows = s.rows /\ t.max_meas = m
            /\ t.room = q /\ t.features = s.features /\ t.lost = l
<1> DEFINE t == Handed(s, k, q, m, l)
<1>1. DOMAIN s = Fields
  BY DEF Shaped
<1>2. t = [x \in Fields |-> IF x = "lost" THEN l ELSE IF x = "max_meas" THEN m
                            ELSE IF x = "room" THEN q ELSE IF x = "kind" THEN k ELSE s[x]]
  BY <1>1 DEF Handed
<1> HIDE DEF t
<1>3. Shaped(t)
  BY <1>2 DEF Shaped
<1>4. \A x \in Fields : t[x] = IF x = "lost" THEN l ELSE IF x = "max_meas" THEN m
                               ELSE IF x = "room" THEN q ELSE IF x = "kind" THEN k ELSE s[x]
  BY <1>2
<1>5. /\ t.kind = k /\ t.cols = s.cols /\ t.placed = s.placed /\ t.rows = s.rows /\ t.max_meas = m
      /\ t.room = q /\ t.features = s.features /\ t.lost = l
  BY <1>4 DEF Fields
<1> QED
  BY <1>3, <1>5 DEF t

(* What the layout gives an update. *)
LEMMA LayoutInUpdate ==
  ASSUME IInv
  PROVE  TypeOK /\ BlocksBelong /\ NoOrphanRow /\ MapsMatchVariables /\ FiniteClones
BY FiniteWindow DEF IInv

LEMMA IdleKeepsUInv ==
  ASSUME system' = Idle, AnchorsHeld'
  PROVE  UInv'
<1>1. /\ Sound(system') /\ system'.kind = "none" /\ DOMAIN system'.cols.at = {}
  BY IdleIsSound
<1>2. Sound(system)'
  BY <1>1 DEF Sound, Shaped, Fields
<1>3. InState' /\ RoomMade'
  BY <1>1 DEF InState, RoomMade
<1> QED
  BY <1>2, <1>3 DEF UInv

LEMMA BeginKeepsUInv ==
  ASSUME IInv, UInv, Begin \/ BeginSlam
  PROVE  UInv'
<1>1. PICK k, q : /\ system' = [Idle EXCEPT !.kind = k, !.room = q]
                  /\ \/ k = "slam" /\ q = cov_rows
                     \/ k \in {"msckf", "msckf anchored"} /\ q = cov_rows - SizeOfLandmarks
  <2>1. CASE Begin
    <3>1. PICK relative \in BOOLEAN :
            system' = [Idle EXCEPT !.kind = IF relative THEN "msckf anchored" ELSE "msckf",
                                   !.room = cov_rows - SizeOfLandmarks]
      BY <2>1 DEF Begin
    <3> DEFINE k == IF relative THEN "msckf anchored" ELSE "msckf"
    <3>2. k \in {"msckf", "msckf anchored"}
      OBVIOUS
    <3> HIDE DEF k
    <3> QED
      BY <3>1, <3>2 DEF k
  <2>2. CASE BeginSlam
    BY <2>2 DEF BeginSlam
  <2> QED
    BY <2>1, <2>2
<1>2. at = AtEnd /\ UNCHANGED <<vars, anchor>>
  BY DEF Begin, BeginSlam, Updating, Running
<1>3. /\ Shaped(Idle) /\ Idle.cols = Empty /\ Fits(Empty) /\ DOMAIN Empty.at = {} /\ Idle.placed = Placed(Empty)
      /\ Idle.rows = 0 /\ Idle.max_meas = 0 /\ Idle.lost = FALSE
  BY IdleIsSound, EmptyFits DEF Sound, Idle
<1>4. system' = Handed(Idle, k, q, Idle.max_meas, Idle.lost)
  BY <1>1, <1>3 DEF Handed, Shaped, Fields
<1>5. /\ Shaped(system') /\ system'.kind = k /\ system'.cols = Idle.cols /\ system'.placed = Idle.placed
      /\ system'.rows = Idle.rows /\ system'.max_meas = Idle.max_meas
      /\ system'.room = q /\ system'.lost = Idle.lost
  BY <1>3, <1>4, HandedFields
<1>6. Empty.size <= q
  <2>1. DOMAIN Empty.at \subseteq variables /\ \A v \in DOMAIN Empty.at : v[1] # "feat"
    BY <1>3
  <2>2. Empty.size <= cov_rows /\ Empty.size <= cov_rows - SizeOfLandmarks
    BY <1>3, <2>1, LayoutInUpdate, ColumnsFitState
  <2> QED
    BY <1>1, <2>2
<1>7. Sound(system')
  BY <1>3, <1>5, <1>6 DEF Sound
<1>8. InState'
  BY <1>3, <1>5 DEF InState
<1>9. RoomMade'
  <2>1. at' = at /\ cov_rows' = cov_rows /\ SizeOfLandmarks' = SizeOfLandmarks
    BY <1>2 DEF vars, SizeOfLandmarks
  <2>2. DOMAIN system'.cols.at = {}
    BY <1>3, <1>5
  <2> QED
    BY <1>1, <1>2, <1>5, <2>1, <2>2 DEF RoomMade
<1>10. AnchorsHeld'
  BY <1>2 DEF UInv, AnchorsHeld, vars, Held, Cameras
<1> QED
  BY <1>7, <1>8, <1>9, <1>10 DEF UInv

(* A feature of UpdaterMSCKF. *)
LEMMA MsckfKeepsUInv ==
  ASSUME IInv, UInv, MsckfFeature
  PROVE  UInv'
<1>1. /\ TypeOK /\ BlocksBelong /\ NoOrphanRow /\ MapsMatchVariables /\ FiniteClones /\ options \in OptionSets
  BY LayoutInUpdate DEF FiniteClones
<1>2. PICK feat \in Feats(2) :
        LET a == IF system.kind = "msckf" THEN NoAnchor ELSE Anchor(feat, AnchorCamera(feat))
        IN Add(feat, a, FeatureColumns(feat, a), 2 * Count(feat) - 3)
  BY DEF MsckfFeature
<1> DEFINE a == IF system.kind = "msckf" THEN NoAnchor ELSE Anchor(feat, AnchorCamera(feat))
           L == FeatureColumns(feat, a)
           rws == 2 * Count(feat) - 3
           cols == Columns(system.cols, L.order)
<1>3. Seen(feat) /\ Count(feat) >= 2 /\ Count(feat) \in Nat
  BY <1>1, FeatsAreSeen, CountFacts
<1>4. a = NoAnchor \/ Held(a)
  BY <1>1, <1>3, AnchorIsHeld
<1>5. rws \in Nat /\ 1 <= rws /\ rws <= 2 * Count(feat)
  BY <1>3
<1>6. Add(feat, a, L, rws)
  BY <1>2
<1> HIDE DEF a, rws
<1>7. Fits(L) /\ DOMAIN L.at = FeatureVars(feat, a)
  BY <1>1, <1>3, <1>4, FeatureColumnsFit
<1> HIDE DEF L
<1>8. /\ at = AtEnd /\ system.room = cov_rows - SizeOfLandmarks
      /\ \A v \in DOMAIN system.cols.at : v[1] # "feat"
      /\ system.kind \in {"msckf", "msckf anchored"}
  BY DEF MsckfFeature, UInv, RoomMade
<1>9. FeatureVars(feat, a) \subseteq variables /\ \A v \in FeatureVars(feat, a) : v[1] # "feat"
  BY <1>1, <1>3, <1>4, <1>8, FeatureVarsInState, FeatureVarsKinds
<1>10. Fits(cols) /\ DOMAIN cols.at = DOMAIN system.cols.at \cup DOMAIN L.at
  <2>1. Fits(system.cols)
    BY DEF UInv, Sound
  <2>2. Extends(system.cols, cols, DOMAIN L.at)
    BY <1>7, <2>1, StackedColumns
  <2> QED
    BY <2>2 DEF Extends
<1>11. cols.size <= system.room
  <2>1. DOMAIN cols.at \subseteq variables /\ \A v \in DOMAIN cols.at : v[1] # "feat"
    BY <1>7, <1>8, <1>9, <1>10 DEF UInv, InState
  <2> HIDE DEF cols
  <2> QED
    BY <1>1, <1>8, <1>10, <2>1, ColumnsFitState
<1>12. /\ Sound(system') /\ system'.kind = system.kind /\ system'.room = system.room
       /\ DOMAIN system'.cols.at \subseteq DOMAIN system.cols.at \cup DOMAIN L.at
  <2>1. FeatureVars(feat, a) \subseteq DOMAIN L.at
    BY <1>7
  <2>2. Columns(system.cols, L.order).size <= system.room
    BY <1>11
  <2>3. Sound(system)
    BY DEF UInv
  <2> HIDE DEF cols
  <2> QED
    BY <1>1, <1>3, <1>4, <1>5, <1>6, <1>7, <2>1, <2>2, <2>3, AddKeepsSound
<1>13. UNCHANGED <<vars, anchor>>
  BY DEF MsckfFeature
<1>14. InState'
  BY <1>7, <1>9, <1>12, <1>13 DEF UInv, InState, vars
<1>15. RoomMade'
  <2>1. at' = at /\ cov_rows' = cov_rows /\ SizeOfLandmarks' = SizeOfLandmarks
    BY <1>13 DEF vars, SizeOfLandmarks
  <2>2. \A v \in DOMAIN system'.cols.at : v[1] # "feat"
    BY <1>7, <1>8, <1>9, <1>12
  <2> QED
    BY <1>8, <1>12, <2>1, <2>2 DEF RoomMade
<1>16. AnchorsHeld'
  BY <1>13 DEF UInv, AnchorsHeld, vars, Held, Cameras
<1> QED
  BY <1>12, <1>14, <1>15, <1>16 DEF UInv

(* A landmark of UpdaterSLAM::update. *)
LEMMA SlamKeepsUInv ==
  ASSUME IInv, UInv, SlamFeature
  PROVE  UInv'
<1>1. /\ TypeOK /\ BlocksBelong /\ NoOrphanRow /\ MapsMatchVariables /\ FiniteClones /\ options \in OptionSets
  BY LayoutInUpdate DEF FiniteClones
<1>2. PICK f \in landmarks :
        \E feat \in Feats(IF LandmarkSize[f] = 1 THEN 2 ELSE 1) :
          Add(feat, anchor[f], Insert(FeatureColumns(feat, anchor[f]), Landmark(f)),
              2 * Count(feat) - (IF LandmarkSize[f] = 1 THEN 2 ELSE 0))
  BY DEF SlamFeature
<1> DEFINE least == IF LandmarkSize[f] = 1 THEN 2 ELSE 1
           a == anchor[f]
<1>3. PICK feat \in Feats(least) :
        Add(feat, a, Insert(FeatureColumns(feat, a), Landmark(f)),
            2 * Count(feat) - (IF LandmarkSize[f] = 1 THEN 2 ELSE 0))
  BY <1>2
<1> DEFINE F == FeatureColumns(feat, a)
           L == Insert(F, Landmark(f))
           rws == 2 * Count(feat) - (IF LandmarkSize[f] = 1 THEN 2 ELSE 0)
           cols == Columns(system.cols, L.order)
<1>4. Seen(feat) /\ Count(feat) >= least /\ Count(feat) \in Nat
  BY <1>1, FeatsAreSeen, CountFacts
<1>5. a = NoAnchor \/ Held(a)
  BY DEF UInv, AnchorsHeld
<1>6. rws \in Nat /\ 1 <= rws /\ rws <= 2 * Count(feat)
  BY <1>4
<1>7. Add(feat, a, L, rws)
  BY <1>3
<1> HIDE DEF a, rws, least
<1>8. Fits(F) /\ DOMAIN F.at = FeatureVars(feat, a)
  BY <1>1, <1>4, <1>5, FeatureColumnsFit
<1> HIDE DEF F
<1>9. Landmark(f) \in Variables /\ Landmark(f) \in variables
  BY <1>1, VariableKinds DEF TypeOK, MapsMatchVariables
<1>10. Fits(L) /\ DOMAIN L.at = FeatureVars(feat, a) \cup {Landmark(f)}
  <2>1. Extends(F, L, {Landmark(f)})
    BY <1>8, <1>9, InsertFits
  <2> QED
    BY <1>8, <2>1 DEF Extends
<1> HIDE DEF L
<1>11. at = AtEnd /\ system.room = cov_rows /\ system.kind = "slam"
  BY DEF SlamFeature, UInv, RoomMade
<1>12. DOMAIN L.at \subseteq variables
  <2>1. FeatureVars(feat, a) \subseteq variables
    BY <1>1, <1>4, <1>5, <1>11, FeatureVarsInState
  <2> QED
    BY <1>9, <1>10, <2>1
<1>13. Fits(cols) /\ DOMAIN cols.at = DOMAIN system.cols.at \cup DOMAIN L.at
  <2>1. Fits(system.cols)
    BY DEF UInv, Sound
  <2>2. Extends(system.cols, cols, DOMAIN L.at)
    BY <1>10, <2>1, StackedColumns
  <2> QED
    BY <2>2 DEF Extends
<1>14. cols.size <= system.room
  <2>1. DOMAIN cols.at \subseteq variables
    BY <1>12, <1>13 DEF UInv, InState
  <2> HIDE DEF cols
  <2> QED
    BY <1>1, <1>11, <1>13, <2>1, ColumnsFitState
<1>15. /\ Sound(system') /\ system'.kind = system.kind /\ system'.room = system.room
       /\ DOMAIN system'.cols.at \subseteq DOMAIN system.cols.at \cup DOMAIN L.at
  <2>1. FeatureVars(feat, a) \subseteq DOMAIN L.at
    BY <1>10
  <2>2. Columns(system.cols, L.order).size <= system.room
    BY <1>14
  <2>3. Sound(system)
    BY DEF UInv
  <2> HIDE DEF cols
  <2> QED
    BY <1>1, <1>4, <1>5, <1>6, <1>7, <1>10, <2>1, <2>2, <2>3, AddKeepsSound
<1>16. UNCHANGED <<vars, anchor>>
  BY DEF SlamFeature
<1>17. InState'
  BY <1>12, <1>15, <1>16 DEF UInv, InState, vars
<1>18. RoomMade'
  <2>1. at' = at /\ cov_rows' = cov_rows
    BY <1>16 DEF vars
  <2> QED
    BY <1>11, <1>15, <2>1 DEF RoomMade
<1>19. AnchorsHeld'
  BY <1>16 DEF UInv, AnchorsHeld, vars, Held, Cameras
<1> QED
  BY <1>15, <1>17, <1>18, <1>19 DEF UInv

(* A feature of UpdaterSLAM::delayed_init. *)
LEMMA InitializeKeepsUInv ==
  ASSUME IInv, UInv, NEW f \in Features, InitializeFrom(f)
  PROVE  UInv'
<1>1. /\ TypeOK /\ BlocksBelong /\ NoOrphanRow /\ MapsMatchVariables /\ FiniteClones /\ options \in OptionSets
  BY LayoutInUpdate DEF FiniteClones
<1>2. /\ at = AtEnd /\ system = Idle /\ Initialize(f)
  BY DEF InitializeFrom, Updating, Running
<1>3. PICK feat \in Feats(2) :
        LET a == IF f \in Relative THEN Anchor(feat, AnchorCamera(feat)) ELSE NoAnchor
            L == FeatureColumns(feat, a)
            rws == 2 * Count(feat) - (IF LandmarkSize[f] = 1 THEN 2 ELSE 0)
        IN /\ anchor' = IF f \in landmarks' THEN [anchor EXCEPT ![f] = a] ELSE anchor
           /\ system' = [Stack(L, rws) EXCEPT !.kind = "initialize", !.room = cov_rows,
                           !.max_meas = 2 * Count(feat),
                           !.lost = LosesSomething(L, feat, a) \/ rws < LandmarkSize[f]]
  BY DEF InitializeFrom
<1> DEFINE a == IF f \in Relative THEN Anchor(feat, AnchorCamera(feat)) ELSE NoAnchor
           L == FeatureColumns(feat, a)
           rws == 2 * Count(feat) - (IF LandmarkSize[f] = 1 THEN 2 ELSE 0)
           s == Stack(L, rws)
           lost == LosesSomething(L, feat, a) \/ rws < LandmarkSize[f]
           m == 2 * Count(feat)
<1>4. Seen(feat) /\ Count(feat) >= 2 /\ Count(feat) \in Nat
  BY <1>1, FeatsAreSeen, CountFacts
<1>5. (a = NoAnchor \/ Held(a)) /\ a \in [cam : Int, time : Nat]
  BY <1>1, <1>4, AnchorIsHeld DEF NoAnchor
<1>6. rws \in Nat /\ rws <= m /\ m \in Nat /\ ~(rws < LandmarkSize[f])
  <2>1. LandmarkSize[f] \in {1, 3}
    BY LayoutAssumption
  <2> QED
    BY <1>4, <2>1
<1>7. anchor' = IF f \in landmarks' THEN [anchor EXCEPT ![f] = a] ELSE anchor
  BY <1>3
<1>8. system' = Handed(s, "initialize", cov_rows, m, lost)
  BY <1>3 DEF Handed
<1> HIDE DEF a, rws, m
<1>9. Fits(L) /\ DOMAIN L.at = FeatureVars(feat, a)
  BY <1>1, <1>4, <1>5, FeatureColumnsFit
<1>10. ~lost
  <2>1. FeatureVars(feat, a) \subseteq DOMAIN L.at
    BY <1>9
  <2>2. ~LosesSomething(L, feat, a)
    <3> HIDE DEF L
    <3> QED
      BY <1>1, <1>4, <1>5, <2>1, NothingLost
  <2> QED
    BY <1>6, <2>2
<1> HIDE DEF L, lost
<1>11. DOMAIN L.at \subseteq variables
  BY <1>1, <1>2, <1>4, <1>5, <1>9, FeatureVarsInState
<1>12. /\ Shaped(s) /\ Fits(s.cols) /\ s.placed = Placed(s.cols)
       /\ DOMAIN s.cols.at = DOMAIN system.cols.at \cup DOMAIN L.at
       /\ s.rows = system.rows + rws
  BY <1>9, StackSound DEF UInv
<1> HIDE DEF s
<1>13. s.rows = rws /\ DOMAIN s.cols.at = DOMAIN L.at
  <2>1. system.rows = 0 /\ DOMAIN system.cols.at = {}
    BY <1>2, IdleIsSound DEF Idle
  <2> QED
    BY <1>6, <1>12, <2>1
<1>14. /\ Shaped(system') /\ system'.kind = "initialize" /\ system'.cols = s.cols /\ system'.placed = s.placed
       /\ system'.rows = s.rows /\ system'.max_meas = m /\ system'.room = cov_rows /\ system'.lost = lost
  BY <1>8, <1>12, HandedFields
<1>15. s.cols.size <= cov_rows
  BY <1>1, <1>11, <1>12, <1>13, ColumnsFitState
<1>16. Sound(system')
  BY <1>6, <1>10, <1>12, <1>13, <1>14, <1>15 DEF Sound
<1>17. /\ variables \subseteq variables' /\ clones' = clones /\ options' = options
       /\ landmarks' \subseteq landmarks \cup {f} /\ f \notin landmarks
  BY <1>2 DEF Initialize, Push
<1>18. InState'
  BY <1>11, <1>13, <1>14, <1>17 DEF InState
<1>19. RoomMade'
  BY <1>14 DEF RoomMade
<1>20. AnchorsHeld'
  <2>1. /\ anchor \in [Features -> [cam : Int, time : Nat]]
        /\ \A g \in landmarks : anchor[g] = NoAnchor \/ Held(anchor[g])
    BY DEF UInv, AnchorsHeld
  <2>2. anchor' \in [Features -> [cam : Int, time : Nat]]
    BY <1>5, <1>7, <2>1
  <2>3. landmarks \subseteq Features
    BY <1>1 DEF TypeOK
  <2>4. \A g \in Features : anchor'[g] = IF g = f /\ f \in landmarks' THEN a ELSE anchor[g]
    BY <1>7, <2>1
  <2>5. \A g \in landmarks' : anchor'[g] = NoAnchor \/ Held(anchor'[g])
    BY <1>5, <1>17, <2>1, <2>3, <2>4
  <2>6. \A c : Held(c)' <=> Held(c)
    BY <1>17 DEF Held, Cameras
  <2>7. \A g \in landmarks' : anchor'[g] = NoAnchor \/ (anchor'[g].cam \in Cameras' /\ anchor'[g].time \in clones')
    BY <1>17, <2>5 DEF Held, Cameras
  <2> QED
    BY <2>2, <2>7 DEF AnchorsHeld, Held, NoAnchor
<1> QED
  BY <1>16, <1>18, <1>19, <1>20 DEF UInv

(* An anchor that moves to the newest clone. *)
LEMMA ChangeKeepsUInv ==
  ASSUME IInv, UInv, NEW f \in Features, ChangeAnchor(f)
  PROVE  UInv'
<1>1. /\ TypeOK /\ BlocksBelong /\ NoOrphanRow /\ MapsMatchVariables /\ FiniteClones /\ options \in OptionSets
  BY LayoutInUpdate DEF FiniteClones
<1> DEFINE old == anchor[f]
           new == [anchor[f] EXCEPT !.time = timestamp]
           L == AnchorColumns(f, new)
           s == Stack(L, LandmarkSize[f])
<1>2. /\ at = AtEnd /\ timestamp \in clones /\ system = Idle /\ f \in landmarks /\ old # NoAnchor
      /\ UNCHANGED vars
  BY DEF ChangeAnchor, Updating, Running, AtOldest
<1>3. /\ anchor' = [anchor EXCEPT ![f] = new]
      /\ system' = [s EXCEPT !.kind = "anchor", !.room = cov_rows, !.max_meas = LandmarkSize[f]]
  BY DEF ChangeAnchor
<1>4. old \in [cam : Int, time : Nat] /\ Held(old)
  BY <1>2 DEF UInv, AnchorsHeld
<1>5. timestamp \in Nat /\ timestamp \in ImageTimes
  BY <1>1, <1>2, LayoutAssumption DEF FiniteClones
<1>6. new \in [cam : Int, time : Nat] /\ Held(new)
  <2>1. new = [cam |-> old.cam, time |-> timestamp]
    BY <1>4
  <2>2. new.cam = old.cam /\ new.time = timestamp
    BY <2>1
  <2> QED
    BY <1>2, <1>4, <1>5, <2>1, <2>2 DEF Held
<1> HIDE DEF old, new
<1>7. Fits(L) /\ DOMAIN L.at \subseteq variables
  <2> DEFINE vs == AnchorOrder(old) \o AnchorOrder(new)
             M  == Columns(Empty, vs)
  <2>1. /\ AnchorOrder(old) \in Seq(Variables) /\ AnchorOrder(new) \in Seq(Variables)
        /\ {AnchorOrder(old)[i] : i \in 1 .. Len(AnchorOrder(old))} = AnchorVars(old)
        /\ {AnchorOrder(new)[i] : i \in 1 .. Len(AnchorOrder(new))} = AnchorVars(new)
    BY <1>1, <1>4, <1>6, AnchorOrderVars
  <2>2. vs \in Seq(Variables) /\ {vs[i] : i \in 1 .. Len(vs)} = AnchorVars(old) \cup AnchorVars(new)
    BY <2>1, ConcatVars
  <2>3. L = Insert(M, Landmark(f))
    BY DEF AnchorColumns, old
  <2> HIDE DEF vs
  <2>4. Extends(Empty, M, AnchorVars(old) \cup AnchorVars(new))
    BY <2>2, EmptyFits, ColumnsFits
  <2>5. Fits(M) /\ DOMAIN M.at = AnchorVars(old) \cup AnchorVars(new)
    BY <2>4, EmptyFits DEF Extends
  <2> HIDE DEF L, M
  <2>6. Landmark(f) \in Variables /\ Landmark(f) \in variables
    BY <1>1, <1>2, VariableKinds DEF MapsMatchVariables
  <2>7. Extends(M, L, {Landmark(f)})
    BY <2>3, <2>5, <2>6, InsertFits
  <2>8. AnchorVars(old) \subseteq variables /\ AnchorVars(new) \subseteq variables
    BY <1>1, <1>2, <1>4, <1>6, AnchorVarsInState
  <2> QED
    BY <2>5, <2>6, <2>7, <2>8 DEF Extends
<1> HIDE DEF L
<1>8. /\ Shaped(s) /\ Fits(s.cols) /\ s.placed = Placed(s.cols)
      /\ DOMAIN s.cols.at = DOMAIN system.cols.at \cup DOMAIN L.at
      /\ s.rows = system.rows + LandmarkSize[f] /\ s.lost = system.lost
  BY <1>7, StackSound DEF UInv
<1> HIDE DEF s
<1>9. LandmarkSize[f] \in Nat
  BY LayoutAssumption
<1>10. s.rows = LandmarkSize[f] /\ DOMAIN s.cols.at = DOMAIN L.at /\ ~s.lost
  <2>1. system.rows = 0 /\ DOMAIN system.cols.at = {} /\ system.lost = FALSE
    BY <1>2, IdleIsSound DEF Idle
  <2> QED
    BY <1>8, <1>9, <2>1
<1>11. system' = Handed(s, "anchor", cov_rows, LandmarkSize[f], s.lost)
  BY <1>3, <1>8 DEF Handed, Shaped, Fields
<1>12. /\ Shaped(system') /\ system'.kind = "anchor" /\ system'.cols = s.cols /\ system'.placed = s.placed
       /\ system'.rows = s.rows /\ system'.max_meas = LandmarkSize[f] /\ system'.room = cov_rows
       /\ system'.lost = s.lost
  BY <1>8, <1>11, HandedFields
<1>13. s.cols.size <= cov_rows
  BY <1>1, <1>7, <1>8, <1>10, ColumnsFitState
<1>14. Sound(system')
  BY <1>8, <1>9, <1>10, <1>12, <1>13 DEF Sound
<1>15. InState'
  BY <1>2, <1>7, <1>10, <1>12 DEF InState, vars
<1>16. RoomMade'
  BY <1>12 DEF RoomMade
<1>17. AnchorsHeld'
  <2>1. /\ anchor \in [Features -> [cam : Int, time : Nat]]
        /\ \A g \in landmarks : anchor[g] = NoAnchor \/ Held(anchor[g])
    BY DEF UInv, AnchorsHeld
  <2>2. anchor' \in [Features -> [cam : Int, time : Nat]]
    BY <1>3, <1>6, <2>1
  <2>3. landmarks \subseteq Features /\ landmarks' = landmarks /\ clones' = clones /\ options' = options
    BY <1>1, <1>2 DEF TypeOK, vars
  <2>4. \A g \in Features : anchor'[g] = IF g = f THEN new ELSE anchor[g]
    BY <1>3, <2>1
  <2>5. \A g \in landmarks' : anchor'[g] = NoAnchor \/ Held(anchor'[g])
    BY <1>6, <2>1, <2>3, <2>4
  <2>6. \A g \in landmarks' : anchor'[g] = NoAnchor \/ (anchor'[g].cam \in Cameras' /\ anchor'[g].time \in clones')
    BY <2>3, <2>5 DEF Held, Cameras
  <2> QED
    BY <2>2, <2>6 DEF AnchorsHeld, Held, NoAnchor
<1> QED
  BY <1>14, <1>15, <1>16, <1>17 DEF UInv

(* The window is cut behind the anchors that moved. *)
LEMMA CutKeepsUInv ==
  ASSUME IInv, UInv, MarginalizeClone
  PROVE  UInv'
<1>1. clones \subseteq ImageTimes /\ landmarks \subseteq Features
  BY DEF IInv, TypeOK
<1>2. /\ system = Idle /\ system' = Idle /\ anchor' = anchor /\ options' = options /\ landmarks' = landmarks
      /\ Cardinality(clones) > options.max_clone_size
  BY DEF MarginalizeClone, MarginalizeOldClone
<1>3. PICK t \in clones : (\A c \in clones : t <= c) /\ clones' = clones \ {t}
  BY DEF MarginalizeClone, MarginalizeOldClone
<1>4. /\ anchor \in [Features -> [cam : Int, time : Nat]]
      /\ \A g \in landmarks : anchor[g] = NoAnchor \/ Held(anchor[g])
  BY DEF UInv, AnchorsHeld
<1>5. ASSUME NEW g \in landmarks, anchor[g] # NoAnchor PROVE anchor[g].time \in clones \ {t}
  <2>1. ~AtOldest(g)
    BY DEF MarginalizeClone
  <2>2. ~(\A c \in clones : anchor[g].time <= c)
    BY <1>2, <1>5, <2>1 DEF AtOldest
  <2>3. anchor[g].time # t
    BY <1>3, <2>2
  <2> QED
    BY <1>4, <1>5, <2>3 DEF Held
<1>6. \A g \in landmarks' : anchor'[g] = NoAnchor \/ (anchor'[g].cam \in Cameras' /\ anchor'[g].time \in clones')
  BY <1>2, <1>3, <1>4, <1>5 DEF Held, Cameras
<1>7. AnchorsHeld'
  BY <1>2, <1>4, <1>6 DEF AnchorsHeld, Held, NoAnchor
<1> QED
  BY <1>2, <1>7, IdleKeepsUInv

LEMMA RestKeepsUInv ==
  ASSUME IInv, UInv, Rest
  PROVE  UInv'
<1>1. system' = Idle /\ anchor' = anchor
  BY DEF Rest
<1>2. options' = options /\ landmarks' = landmarks /\ clones \subseteq clones'
  <2>1. CASE Construct \/ SetInitialCovariance
    BY <2>1 DEF Construct, SetInitialCovariance
  <2>2. CASE \E t \in ImageTimes : PropagateAndClone(t) \/ ZeroVelocity(t)
    BY <2>2 DEF PropagateAndClone, ZeroVelocity
  <2> QED
    BY <2>1, <2>2 DEF Rest
<1>3. AnchorsHeld'
  BY <1>1, <1>2 DEF UInv, AnchorsHeld, Held, Cameras, NoAnchor
<1> QED
  BY <1>1, <1>3, IdleKeepsUInv

LEMMA DropKeepsUInv ==
  ASSUME IInv, UInv, NEW f \in Features, DropLandmark(f)
  PROVE  UInv'
<1>1. /\ system' = Idle /\ anchor' = [anchor EXCEPT ![f] = NoAnchor]
      /\ options' = options /\ landmarks' = landmarks \ {f} /\ clones' = clones
  BY DEF DropLandmark, MarginalizeSlam
<1>2. landmarks \subseteq Features
  BY DEF IInv, TypeOK
<1>3. /\ anchor \in [Features -> [cam : Int, time : Nat]]
      /\ \A g \in landmarks : anchor[g] = NoAnchor \/ Held(anchor[g])
  BY DEF UInv, AnchorsHeld
<1>4. anchor' \in [Features -> [cam : Int, time : Nat]]
  BY <1>1, <1>3 DEF NoAnchor
<1>5. \A g \in landmarks' : anchor'[g] = anchor[g]
  BY <1>1, <1>2, <1>3
<1>6. \A g \in landmarks' : anchor'[g] = NoAnchor \/ (anchor'[g].cam \in Cameras' /\ anchor'[g].time \in clones')
  BY <1>1, <1>3, <1>5 DEF Held, Cameras
<1>7. AnchorsHeld'
  BY <1>4, <1>6 DEF AnchorsHeld, Held, NoAnchor
<1> QED
  BY <1>1, <1>7, IdleKeepsUInv

LEMMA UpdatesStepKeepsUInv == IInv /\ UInv /\ [UpdatesNext]_allVars => UInv'
<1> SUFFICES ASSUME IInv, UInv, [UpdatesNext]_allVars PROVE UInv'
  OBVIOUS
<1>1. CASE Finish
  <2>1. system' = Idle /\ UNCHANGED <<vars, anchor>>
    BY <1>1 DEF Finish
  <2>2. AnchorsHeld'
    BY <2>1 DEF UInv, AnchorsHeld, vars, Held, Cameras
  <2> QED
    BY <2>1, <2>2, IdleKeepsUInv
<1>2. CASE UNCHANGED allVars
  <2>1. UNCHANGED <<vars, anchor>> /\ system' = system
    BY <1>2 DEF allVars
  <2>2. AnchorsHeld' /\ InState'
    BY <2>1 DEF UInv, AnchorsHeld, InState, vars, Held, Cameras
  <2>3. Sound(system')
    BY <2>1 DEF UInv
  <2>4. RoomMade'
    BY <2>1 DEF UInv, RoomMade, vars, SizeOfLandmarks
  <2> QED
    BY <2>2, <2>3, <2>4 DEF UInv
<1> QED
  BY <1>1, <1>2, RestKeepsUInv, CutKeepsUInv, BeginKeepsUInv, MsckfKeepsUInv, SlamKeepsUInv,
     InitializeKeepsUInv, ChangeKeepsUInv, DropKeepsUInv DEF UpdatesNext

(* What the run checks is part of the invariant.                            *)
LEMMA UInvGivesMatch == UInv => JacobianMatchesState
<1> SUFFICES ASSUME UInv PROVE JacobianMatchesState
  OBVIOUS
<1> DEFINE L == system.cols
           len == Len(L.order)
           P == system.placed
<1>1. /\ Fits(L) /\ P = Placed(L) /\ DOMAIN L.at \subseteq variables /\ ~system.lost
      /\ L.size <= system.room /\ system.rows <= system.max_meas
  BY DEF UInv, Sound, InState
<1>2. /\ len \in Nat /\ DOMAIN L.order = 1 .. len /\ DOMAIN L.at = {L.order[i] : i \in 1 .. len}
      /\ \A i, j \in 1 .. len : L.order[i] = L.order[j] => i = j
  BY <1>1, OrderFacts
<1>3. \A i \in 1 .. len : Start(L.order, i) = L.at[L.order[i]]
  BY <1>1, StartIsPosition
<1> HIDE DEF L, len, P
<1>4. P = {<<L.order[i], Start(L.order, i)>> : i \in DOMAIN L.order}
  BY <1>1, <1>2, <1>3 DEF Placed
<1>5. \A i \in DOMAIN L.order : L.order[i] \in variables
  BY <1>1, <1>2
<1>6. Cardinality(P) = len
  <2> DEFINE f == [p \in P |-> CHOOSE i \in 1 .. len : L.order[i] = p[1]]
  <2>1. \A p \in P : \E i \in 1 .. len : p = <<L.order[i], Start(L.order, i)>>
    BY <1>2, <1>4
  <2>2. \A p \in P : f[p] \in 1 .. len /\ L.order[f[p]] = p[1] /\ p = <<p[1], L.at[p[1]]>>
    <3> SUFFICES ASSUME NEW p \in P
                 PROVE  f[p] \in 1 .. len /\ L.order[f[p]] = p[1] /\ p = <<p[1], L.at[p[1]]>>
      OBVIOUS
    <3>1. PICK i \in 1 .. len : p = <<L.order[i], Start(L.order, i)>>
      BY <2>1
    <3>2. p[1] = L.order[i] /\ p = <<p[1], L.at[p[1]]>>
      BY <1>3, <3>1
    <3>3. f[p] \in 1 .. len /\ L.order[f[p]] = p[1]
      BY <3>2
    <3> QED
      BY <3>2, <3>3
  <2>3. f \in [P -> 1 .. len]
    BY <2>2
  <2> HIDE DEF f
  <2>4. \A p, q \in P : f[p] = f[q] => p = q
    BY <2>2
  <2>5. \A i \in 1 .. len : \E p \in P : f[p] = i
    <3> SUFFICES ASSUME NEW i \in 1 .. len PROVE \E p \in P : f[p] = i
      OBVIOUS
    <3> DEFINE p == <<L.order[i], Start(L.order, i)>>
    <3>1. p \in P /\ p[1] = L.order[i]
      BY <1>2, <1>4
    <3>2. f[p] = i
      BY <1>2, <2>2, <3>1
    <3> QED
      BY <3>1, <3>2
  <2>6. IsFiniteSet(1 .. len) /\ Cardinality(1 .. len) = len
    BY <1>2, FS_Interval
  <2> QED
    BY <2>3, <2>4, <2>5, <2>6, SameNumber
<1> QED
  BY <1>1, <1>4, <1>5, <1>6 DEF JacobianMatchesState, L, len, P

(* Whatever the order in which features, cameras and anchors bring their   *)
(* variables into map_hx, Hx_mapping and Phi_id_map, and for any number of *)
(* features, cameras and clones, the columns that hold the Jacobian by a   *)
(* variable are the ones the filter multiplies with the variable's block,  *)
(* no contribution is lost, and the matrices allocated before the first    *)
(* feature are large enough.                                               *)
THEOREM JacobiansStayMatched == UpdatesSpec => []JacobianMatchesState
<1>1. UpdatesSpec => []IInv
  BY UpdatesRefineLayout, IInvAlways, PTL
<1>2. UpdatesInit => UInv
  <2> SUFFICES ASSUME UpdatesInit PROVE UInv
    OBVIOUS
  <2>1. system = Idle /\ landmarks = {} /\ anchor = [f \in Features |-> NoAnchor]
    BY DEF UpdatesInit, Init
  <2>2. AnchorsHeld
    BY <2>1 DEF AnchorsHeld, NoAnchor
  <2>3. Sound(system) /\ InState /\ RoomMade
    BY <2>1, IdleIsSound DEF InState, RoomMade
  <2> QED
    BY <2>2, <2>3 DEF UInv
<1> QED
  BY <1>1, <1>2, UpdatesStepKeepsUInv, UInvGivesMatch, PTL DEF UpdatesSpec
=============================================================================
