---------------------------- MODULE VioInit_proofs ----------------------------
(***************************************************************************)
(* Proofs about VioInit, for any images, window, margin and number of      *)
(* clones, with and without the thread.                                    *)
(***************************************************************************)
EXTENDS VioInit, Subsequences_proofs

-----------------------------------------------------------------------------
(* The invariant *)

(* An attempt under way that has its initial time; a state set by one. *)
Timed  == tpc \in {"integrate", "system", "optimise", "recover", "commit"}
HasSet == tpc \in {"lock", "replay"} \/ thread_init_success

Threads ==
  /\ thread_init_running <=> tpc # "none"
  /\ mtx = "init" <=> tpc = "replay"
  /\ tpc \notin {"none", "end"} => ~thread_init_success
  /\ pc \in {"success", "start"} => tpc = "none"
  /\ pc = "start" => ~thread_init_success
  /\ pc \in {"running", "enqueue", "success", "start", "join"} => ~is_initialized_vio
  /\ pc = "update" => is_initialized_vio
  /\ is_initialized_vio => tpc = "none" /\ thread_init_success

(* Nothing the two threads hand over is newer than image and IMU data. *)
Images ==
  /\ pc # "pop" => image \in ImageTimes
  /\ pc \notin {"pop", "imu"} => image <= newest
  /\ \A t \in db : t <= image /\ t <= newest

Arrived(q)    == \A i \in 1 .. Len(q) : q[i] <= image /\ q[i] <= newest

Queue ==
  /\ Increasing(camera_queue_init) /\ Arrived(camera_queue_init)
  /\ pc \in {"imu", "track", "running", "enqueue"} =>
       \A i \in 1 .. Len(camera_queue_init) : camera_queue_init[i] < image
  /\ tpc = "replay" => /\ Increasing(todo) /\ Arrived(todo)
                       /\ \A i \in 1 .. Len(todo) : timestamp < todo[i]

Ahead == snapshot.imu - snapshot.image > Half

(* Pose, time of the attempt and time of the state. *)
Pose ==
  /\ tpc \in {"integrate", "system", "optimise", "recover"} => tTime = tCam
  /\ Timed => tTime # 0 /\ tTime <= newest /\ (tTime <= image \/ Ahead)
  /\ tpc = "commit" => imu_value = tTime
  /\ tpc = "lock" => timestamp = tTime
  /\ HasSet => imu_value = timestamp /\ timestamp # 0
  /\ HasSet => timestamp <= newest /\ (timestamp <= image \/ Ahead)

Samples == {2 * k : k \in 1 .. LastSample}
(* A buffer without gaps up to its newest sample. *)
Whole(I, top) ==
  /\ I \subseteq Samples /\ top \in I
  /\ \A s \in I : s <= top
  /\ \A s \in I, u \in Samples : s <= u /\ u <= top => u \in I
Gapless(I) == IF newest = 0 THEN I = {} ELSE Whole(I, newest)

Buffers ==
  /\ newest \in Samples \cup {0}
  /\ Gapless(prop_imu)
  /\ \A c \in clones : c <= timestamp
  /\ ~HasSet => clones = {}
  /\ ~is_initialized_vio =>
       /\ Gapless(init_imu) /\ init_imu \subseteq prop_imu
       /\ \A s \in init_imu : s >= newest - Window - Margin

(* In time, there is a sample at the beginning of the next interval that   *)
(* the clock of the newest sample will not have cleaned up.                *)
Anchored(t) ==
  \E w \in prop_imu : w <= t /\ (~is_initialized_vio => w >= snapshot.imu - Half - 2 * Margin)
Anchor ==
  /\ Timed \/ HasSet => snapshot.imu # 0
  /\ (Timed \/ HasSet) /\ ~is_initialized_vio => (late <=> newest - snapshot.imu > Half)
  /\ Timed /\ ~late => Anchored(tTime)
  /\ HasSet /\ ~late => Anchored(timestamp)

VioInv == TypeOK /\ Threads /\ Images /\ Queue /\ Pose /\ Buffers /\ Anchor /\ ImuCoversInterval

-----------------------------------------------------------------------------
(* Sets of numbers *)

LEMMA MinOfIsLeast ==
  ASSUME NEW S, S \subseteq Nat, S # {}
  PROVE  MinOf(S) \in S /\ \A n \in S : MinOf(S) <= n
BY LeastExists DEF MinOf

LEMMA MaxOfIsGreatest ==
  ASSUME NEW S, S \subseteq Int, S # {}, NEW b \in Int, \A n \in S : n <= b
  PROVE  MaxOf(S) \in S /\ \A n \in S : n <= MaxOf(S)
BY GreatestExists DEF MaxOf

-----------------------------------------------------------------------------
(* IMU samples and the readings of an interval *)

LEMMA SampleValue ==
  ASSUME NEW s \in Samples
  PROVE  s \in Nat /\ s >= 2
BY VioInitAssumption DEF Samples

LEMMA SamplesApart ==
  ASSUME NEW s \in Samples, NEW u \in Samples, s < u
  PROVE  s + 2 <= u /\ s + 2 \in Samples
<1>1. PICK k \in 1 .. LastSample : s = 2 * k
  BY DEF Samples
<1>2. PICK j \in 1 .. LastSample : u = 2 * j
  BY DEF Samples
<1>3. k < j
  BY <1>1, <1>2, VioInitAssumption
<1>4. k + 1 \in 1 .. LastSample /\ s + 2 = 2 * (k + 1) /\ s + 2 <= u
  BY <1>1, <1>2, <1>3, VioInitAssumption
<1> QED
  BY <1>4 DEF Samples

LEMMA NextSample ==
  ASSUME NEW n \in Samples \cup {0}, n + 2 <= LastSample
  PROVE  n + 2 \in Samples /\ \A s \in Samples : s <= n + 2 => s <= n \/ s = n + 2
<1>1. PICK k \in 0 .. LastSample : n = 2 * k
  BY VioInitAssumption DEF Samples
<1>2. k + 1 \in 1 .. LastSample /\ n + 2 = 2 * (k + 1)
  BY <1>1, VioInitAssumption
<1>3. n + 2 \in Samples
  BY <1>2 DEF Samples
<1>4. \A s \in Samples : s < n + 2 => s <= n
  BY <1>3, <1>1, SampleValue, SamplesApart
<1> QED
  BY <1>1, <1>3, <1>4, SampleValue

(* Every time up to a sample has one at it or just before it. *)
LEMMA SampleAtOrBefore ==
  ASSUME NEW u \in Samples, NEW t \in Int, 2 <= t, t <= u
  PROVE  \E e \in Samples : e <= t /\ t <= e + 1
<1> DEFINE T == {s \in Samples : s <= t}
<1>1. 2 \in T
  <2>1. 1 \in 1 .. LastSample /\ 2 = 2 * 1
    BY VioInitAssumption DEF Samples
  <2> QED
    BY <2>1 DEF Samples
<1>2. MaxOf(T) \in T /\ \A s \in T : s <= MaxOf(T)
  <2>1. T \subseteq Int /\ T # {}
    BY <1>1, SampleValue
  <2> QED
    BY <2>1, MaxOfIsGreatest
<1>3. PICK e \in Samples : e <= t /\ \A s \in Samples : s <= t => s <= e
  BY <1>2
<1>4. CASE e < u
  BY <1>3, <1>4, SamplesApart, SampleValue
<1>5. CASE ~(e < u)
  BY <1>3, <1>5, SampleValue
<1> QED
  BY <1>3, <1>4, <1>5

LEMMA StepsOfWhole ==
  ASSUME NEW I, NEW top, Whole(I, top)
  PROVE  /\ \A p \in Steps(I) : p[1] \in I /\ p[1] < top /\ p[2] = p[1] + 2 /\ p[1] \in Nat
         /\ \A s \in I : s < top => <<s, s + 2>> \in Steps(I)
<1>1. \A s \in I : s \in Samples /\ s \in Nat
  BY SampleValue DEF Whole
<1>2. \A s \in I : s < top => s + 2 \in I /\ s + 2 <= top
  BY <1>1, SamplesApart DEF Whole
<1>3. \A s, u \in I : s < u => s + 2 \in I /\ s + 2 <= u
  BY <1>1, SamplesApart DEF Whole
<1>4. ASSUME NEW p \in Steps(I)
      PROVE  p[1] \in I /\ p[1] < top /\ p[2] = p[1] + 2 /\ p[1] \in Nat
  <2>1. p[1] \in I /\ p[2] \in I /\ p[1] < p[2] /\ ~\E s \in I : p[1] < s /\ s < p[2]
    BY DEF Steps
  <2>2. p[2] = p[1] + 2
    BY <1>1, <1>3, <2>1
  <2>3. p[2] <= top /\ top \in Nat
    BY <1>1, <2>1 DEF Whole
  <2> QED
    BY <1>1, <2>1, <2>2, <2>3
<1>5. ASSUME NEW s \in I, s < top
      PROVE  <<s, s + 2>> \in Steps(I)
  <2>1. s + 2 \in I /\ ~\E u \in I : s < u /\ u < s + 2
    BY <1>1, <1>2, <1>3, <1>5
  <2>2. s < s + 2
    BY <1>1
  <2> QED
    BY <2>1, <2>2 DEF Steps
<1> QED
  BY <1>4, <1>5

(* Readings of an interval that the buffer covers from its start to its    *)
(* end: select_imu_readings finds all of them.                             *)
LEMMA SelectIsWanted ==
  ASSUME NEW I, NEW top, Whole(I, top), NEW t0 \in Int, NEW t1 \in Int,
         t0 < t1, t1 <= top, NEW w \in I, w <= t0
  PROVE  Select(I, t0, t1) = Wanted(I, t0, t1)
<1>1. /\ \A s \in I : s \in Samples /\ s \in Nat /\ s <= top
      /\ top \in I /\ top \in Nat /\ w \in Nat
  BY SampleValue DEF Whole
<1>2. \A s, u \in I : s < u => s + 2 <= u /\ s + 2 \in I
  BY <1>1, SamplesApart DEF Whole
<1>3. /\ \A p \in Steps(I) : p[1] \in I /\ p[1] < top /\ p[2] = p[1] + 2 /\ p[1] \in Nat
      /\ \A s \in I : s < top => <<s, s + 2>> \in Steps(I)
  BY StepsOfWhole
(* The sample at or just before either end. *)
<1>4. ASSUME NEW t \in Int, w <= t, t <= top
      PROVE  \E e \in I : e <= t /\ t <= e + 1
  <2>1. 2 <= t
    BY <1>1, <1>4, SampleValue
  <2>2. PICK e \in Samples : e <= t /\ t <= e + 1
    BY <1>1, <1>4, <2>1, SampleAtOrBefore
  <2>3. e \in Nat /\ w <= e
    <3>1. e \in Nat
      BY SampleValue
    <3>2. ~(e < w)
      BY <1>1, <1>4, <2>2, <3>1, SamplesApart
    <3> QED
      BY <1>1, <3>1, <3>2
  <2> QED
    BY <1>1, <1>4, <2>2, <2>3 DEF Whole
<1>5. PICK e1 \in I : e1 <= t1 /\ t1 <= e1 + 1
  BY <1>1, <1>4
<1> DEFINE First == {t0 : p \in {q \in Steps(I) : StartsIn(q, t0)}}
           Middle == {p[1] : p \in {q \in Steps(I) : ~StartsIn(q, t0) /\ Inside(q, t0, t1)}}
           End == UNION {Cut(I, p, t1) : p \in EndsIn(I, t0, t1)}
<1>6. First = IF t0 \in I THEN {} ELSE {t0}
  <2>1. CASE t0 \in I
    <3>1. \A p \in Steps(I) : ~StartsIn(p, t0)
      BY <1>1, <1>2, <1>3, <2>1 DEF StartsIn
    <3> QED
      BY <2>1, <3>1
  <2>2. CASE t0 \notin I
    <3>1. PICK e \in I : e <= t0 /\ t0 <= e + 1
      BY <1>1, <1>4
    <3>2. e < t0 /\ t0 < e + 2 /\ e < top
      BY <1>1, <2>2, <3>1
    <3>3. <<e, e + 2>> \in Steps(I) /\ StartsIn(<<e, e + 2>>, t0)
      BY <1>3, <3>2 DEF StartsIn
    <3> QED
      BY <2>2, <3>3
  <2> QED
    BY <2>1, <2>2
<1>7. Middle = {s \in I : t0 <= s /\ s + 2 <= t1}
  <2>1. ASSUME NEW p \in Steps(I)
        PROVE  ~StartsIn(p, t0) /\ Inside(p, t0, t1) <=> t0 <= p[1] /\ p[1] + 2 <= t1
    BY <1>3 DEF StartsIn, Inside
  <2>2. \A s \in I : s + 2 <= t1 => <<s, s + 2>> \in Steps(I) /\ s = <<s, s + 2>>[1]
    BY <1>1, <1>3
  <2>3. \A s \in Middle : s \in I /\ t0 <= s /\ s + 2 <= t1
    BY <1>3, <2>1
  <2>4. \A s \in I : t0 <= s /\ s + 2 <= t1 => s \in Middle
    BY <2>1, <2>2
  <2> HIDE DEF Middle
  <2> QED
    BY <2>3, <2>4
<1>8. \A p \in Steps(I) : Passes(p, t0, t1) <=> t0 <= p[1] /\ t1 < p[1] + 2
  BY <1>3 DEF Passes, StartsIn, Inside
<1>9. t0 <= e1 /\ t1 < e1 + 2
  BY <1>1, <1>5
<1>10. End = IF e1 < top THEN {e1, t1} ELSE {}
  <2>1. CASE e1 < top
    <3> DEFINE q == <<e1, e1 + 2>>
    <3>1. q \in Steps(I) /\ Passes(q, t0, t1)
      BY <1>3, <1>8, <1>9, <2>1
    <3>2. \A p \in Steps(I) : Passes(p, t0, t1) => e1 <= p[1] /\ (p[1] = e1 => p = q)
      <4> SUFFICES ASSUME NEW p \in Steps(I), Passes(p, t0, t1)
                   PROVE  e1 <= p[1] /\ (p[1] = e1 => p = q)
        OBVIOUS
      <4>1. p[1] \in I /\ p[1] \in Nat /\ t1 < p[1] + 2 /\ p[2] = p[1] + 2 /\ p = <<p[1], p[2]>>
        BY <1>3, <1>8 DEF Steps
      <4>2. ~(p[1] < e1)
        BY <1>1, <1>2, <1>5, <4>1
      <4> QED
        BY <1>1, <4>1, <4>2
    <3>3. q[1] = e1
      OBVIOUS
    <3> HIDE DEF q
    <3>4. EndsIn(I, t0, t1) = {q}
      <4>1. q \in EndsIn(I, t0, t1)
        BY <3>1, <3>2, <3>3 DEF EndsIn
      <4>2. ASSUME NEW p \in EndsIn(I, t0, t1) PROVE p = q
        <5>1. p \in Steps(I) /\ Passes(p, t0, t1) /\ p[1] <= q[1]
          BY <3>1 DEF EndsIn
        <5>2. p[1] \in Nat /\ e1 \in Nat
          BY <1>1, <1>3, <5>1
        <5>3. e1 <= p[1] /\ p[1] <= e1
          BY <3>2, <3>3, <5>1
        <5> QED
          BY <3>2, <5>1, <5>2, <5>3
      <4> QED
        BY <4>1, <4>2
    <3>5. Cut(I, q, t1) = {e1, t1}
      BY <1>1, <1>5, <3>3 DEF Cut
    <3> QED
      BY <2>1, <3>4, <3>5
  <2>2. CASE ~(e1 < top)
    <3>1. \A p \in Steps(I) : ~Passes(p, t0, t1)
      <4> SUFFICES ASSUME NEW p \in Steps(I), Passes(p, t0, t1) PROVE FALSE
        OBVIOUS
      <4>1. p[1] \in I /\ p[1] \in Nat /\ p[1] < top /\ t1 < p[1] + 2
        BY <1>3, <1>8
      <4>2. p[1] + 2 <= top
        BY <1>1, <1>2, <4>1
      <4> QED
        BY <1>1, <1>5, <2>2, <4>1, <4>2
    <3>2. EndsIn(I, t0, t1) = {}
      BY <3>1 DEF EndsIn
    <3> QED
      BY <2>2, <3>2
  <2> QED
    BY <2>1, <2>2
<1>11. Collected(I, t0, t1) = First \cup Middle \cup End
  BY DEF Collected
<1> HIDE DEF First, Middle, End
<1> DEFINE Between == {s \in I : t0 < s /\ s < t1}
<1>12. Wanted(I, t0, t1) = {t0, t1} \cup Between
  <2>1. \A s \in I : s < t1 => \E u \in I : u > s
    BY <1>1
  <2> QED
    BY <2>1 DEF Wanted
(* A sample inside, or at the start, is in the middle or the last one. *)
<1>13. \A s \in I : t0 <= s /\ s < t1 => s \in Middle \cup End
  <2> SUFFICES ASSUME NEW s \in I, t0 <= s, s < t1 PROVE s \in Middle \cup End
    OBVIOUS
  <2>1. CASE s + 2 <= t1
    BY <1>7, <2>1
  <2>2. CASE ~(s + 2 <= t1)
    <3>1. s = e1 /\ e1 < top
      BY <1>1, <1>2, <1>5, <1>9, <2>2
    <3> QED
      BY <1>10, <3>1
  <2> QED
    BY <2>1, <2>2
<1>14. t0 \in First \cup Middle \cup End
  BY <1>6, <1>13
<1>15. \A x \in First \cup Middle \cup End : x \in {t0, t1} \cup Between
  <2>1. \A s \in I : t0 <= s /\ s <= t1 => s \in {t0, t1} \cup Between
    BY <1>1
  <2>2. \A s \in I : s + 2 <= t1 => s <= t1
    BY <1>1
  <2>3. \A x \in First : x = t0
    BY <1>6
  <2>4. \A x \in Middle : x \in {t0, t1} \cup Between
    BY <1>7, <2>1, <2>2
  <2>5. \A x \in End : x \in {t0, t1} \cup Between
    BY <1>5, <1>9, <1>10, <2>1
  <2> QED
    BY <2>3, <2>4, <2>5
<1>16. \A x \in {t0} \cup Between : x \in First \cup Middle \cup End
  BY <1>1, <1>13, <1>14
<1>17. (First \cup Middle \cup End) \cup {t1} = {t0, t1} \cup Between
  BY <1>15, <1>16
<1> QED
  BY <1>11, <1>12, <1>14, <1>17 DEF Select

-----------------------------------------------------------------------------
(* Types *)

USE DEF imuVars, mainVars, threadVars, stateVars, flagVars, histVars

(* The newest image with measurements; -1 for none. *)
LEMMA NewestOfDb ==
  ASSUME TypeOK, Images
  PROVE  /\ MaxOf(db \cup {-1}) \in db \cup {-1}
         /\ MaxOf(db \cup {-1}) \in ImageTimes \cup {-1}
         /\ MaxOf(db \cup {-1}) # -1 =>
              MaxOf(db \cup {-1}) <= image /\ MaxOf(db \cup {-1}) <= newest
<1>1. db \cup {-1} \subseteq Int /\ image \in Nat /\ \A t \in db : t <= image /\ t <= newest
  BY VioInitAssumption DEF TypeOK, Images
<1>2. \A n \in db \cup {-1} : n <= image
  BY <1>1
<1>3. MaxOf(db \cup {-1}) \in db \cup {-1}
  BY <1>1, <1>2, MaxOfIsGreatest
<1> QED
  BY <1>1, <1>3 DEF TypeOK

LEMMA TwoOrMore ==
  ASSUME NEW S, Cardinality(S) >= 2
  PROVE  S # {}
BY FS_EmptySet

LEMMA NewestSample ==
  ASSUME NEW I, I \subseteq 1 .. LastSample, I # {}
  PROVE  MaxOf(I) \in I /\ \A s \in I : s <= MaxOf(I)
<1>1. I \subseteq Int /\ LastSample \in Int /\ \A s \in I : s <= LastSample
  BY VioInitAssumption
<1> QED
  BY <1>1, MaxOfIsGreatest

LEMMA NextImageValue ==
  ASSUME NextImage, TypeOK
  PROVE  image' \in ImageTimes /\ image < image'
<1>1. After(ImageTimes, image) \subseteq Nat
  BY VioInitAssumption DEF After
<1>2. image' \in After(ImageTimes, image)
  BY <1>1, MinOfIsLeast DEF NextImage
<1> QED
  BY <1>2 DEF After

LEMMA ImagesSubsequence ==
  ASSUME NEW q \in Seq(ImageTimes), NEW P, P \subseteq 1 .. Len(q), Increasing(q),
         NEW s, s = Subsequence(q, P)
  PROVE  /\ s \in Seq(ImageTimes) /\ Increasing(s)
         /\ Drawn(s, q, P)
<1>1. ImageTimes \subseteq Int
  BY VioInitAssumption
<1> QED
  BY <1>1, SubsequenceFacts

(* The images an attempt goes on with. *)
LEMMA ReplayFacts ==
  ASSUME TypeOK, Queue, NEW rate
  PROVE  LET q == EveryNth(ToReplay(camera_queue_init), rate)
         IN  /\ q \in Seq(ImageTimes) /\ Increasing(q) /\ Arrived(q)
             /\ \A i \in 1 .. Len(q) : tTime < q[i]
<1> DEFINE all == camera_queue_init
           kept == {j \in 1 .. Len(all) : all[j] > tTime}
           new == ToReplay(all)
           chosen == {j \in 1 .. Len(new) : (j - 1) % rate = 0}
           q == EveryNth(new, rate)
<1>1. ImageTimes \subseteq Int /\ all \in Seq(ImageTimes) /\ Increasing(all) /\ Arrived(all)
  BY VioInitAssumption DEF TypeOK, Queue
<1>2. kept \subseteq 1 .. Len(all) /\ \A p \in kept : all[p] > tTime
  OBVIOUS
<1>3. new = Subsequence(all, kept)
  BY DEF ToReplay
<1> HIDE DEF kept, new
<1>4. /\ new \in Seq(ImageTimes) /\ Increasing(new)
      /\ Drawn(new, all, kept)
  <2>1. kept \subseteq 1 .. Len(all)
    BY <1>2
  <2> QED
    BY <1>1, <1>3, <2>1, ImagesSubsequence
<1>5. \A i \in 1 .. Len(new) : tTime < new[i] /\ new[i] <= image /\ new[i] <= newest
  <2> SUFFICES ASSUME NEW i \in 1 .. Len(new)
               PROVE  tTime < new[i] /\ new[i] <= image /\ new[i] <= newest
    OBVIOUS
  <2>1. PICK p \in kept : new[i] = all[p]
    BY <1>4 DEF Drawn
  <2>2. p \in 1 .. Len(all) /\ all[p] > tTime
    BY <1>2
  <2>3. all[p] \in Nat
    BY <1>1, <2>2, ElementOfSeq, VioInitAssumption
  <2>4. tTime \in Int
    BY VioInitAssumption DEF TypeOK, Times
  <2> QED
    BY <1>1, <2>1, <2>2, <2>3, <2>4 DEF Arrived
<1>6. chosen \subseteq 1 .. Len(new) /\ q = Subsequence(new, chosen)
  BY DEF EveryNth
<1> HIDE DEF chosen, q
<1>7. /\ q \in Seq(ImageTimes) /\ Increasing(q)
      /\ Drawn(q, new, chosen)
  BY <1>1, <1>4, <1>6, ImagesSubsequence
<1>8. \A i \in 1 .. Len(q) : tTime < q[i] /\ q[i] <= image /\ q[i] <= newest
  BY <1>5, <1>6, <1>7 DEF Drawn
<1> QED
  BY <1>7, <1>8 DEF Arrived, new, q

LEMMA PropagateTypes ==
  ASSUME TypeOK, NEW t \in ImageTimes, PropagateAndClone(t)
  PROVE  /\ imu_value' \in Times \cup {0} /\ timestamp' \in Times \cup {0}
         /\ clones' \subseteq ImageTimes
         /\ last' \in [from : Times \cup {0}, to : Times \cup {0},
                       imu : SUBSET (1 .. LastSample), late : BOOLEAN]
<1>1. t \in Times
  BY DEF Times
<1>2. clones' \subseteq ImageTimes
  BY DEF PropagateAndClone, Marginalized, TypeOK
<1>3. last' \in [from : Times \cup {0}, to : Times \cup {0},
                imu : SUBSET (1 .. LastSample), late : BOOLEAN]
  BY <1>1 DEF PropagateAndClone, TypeOK
<1> QED
  BY <1>1, <1>2, <1>3 DEF PropagateAndClone

LEMMA FeederTypes ==
  ASSUME TypeOK, Images, Feeder
  PROVE  TypeOK'
<1>1. CASE NextImage
  BY <1>1, NextImageValue DEF NextImage, TypeOK
<1>2. CASE FeedImu
  <2>1. newest + 2 \in 1 .. LastSample
    BY <1>2, VioInitAssumption DEF FeedImu, TypeOK
  <2>2. prop_imu' \subseteq 1 .. LastSample
    BY <1>2, <2>1 DEF FeedImu, TypeOK, Cleaned, Since
  <2>3. init_imu' \subseteq 1 .. LastSample
    BY <1>2, <2>1 DEF FeedImu, TypeOK, Since
  <2>4. late' \in BOOLEAN
    BY <1>2 DEF FeedImu, TypeOK
  <2>5. newest' \in 0 .. LastSample
    BY <1>2, <2>1 DEF FeedImu
  <2>6. UNCHANGED <<multi_threading_subs, mainVars, db, threadVars, camera_queue_init, mtx,
                    stateVars, flagVars, snapshot, last>>
    BY <1>2 DEF FeedImu
  <2> QED
    BY <2>2, <2>3, <2>4, <2>5, <2>6 DEF TypeOK
<1>3. CASE CaughtUp
  BY <1>3 DEF CaughtUp, TypeOK
<1>4. CASE TrackImage
  BY <1>4 DEF TrackImage, TypeOK, Images
<1>5. CASE CheckRunning
  BY <1>5 DEF CheckRunning, TypeOK
<1>6. CASE Enqueue
  <2>1. camera_queue_init' \in Seq(ImageTimes)
    BY <1>6, AppendProperties DEF Enqueue, TypeOK, Images
  <2> QED
    BY <1>6, <2>1 DEF Enqueue, TypeOK
<1>7. CASE CheckSuccess
  BY <1>7 DEF CheckSuccess, TypeOK
<1>8. CASE StartThread
  BY <1>8 DEF StartThread, TypeOK
<1>9. CASE JoinThread
  BY <1>9 DEF JoinThread, TypeOK
<1>10. CASE Update
  <2>1. CASE timestamp < image
    BY <1>10, <2>1, PropagateTypes DEF Update, TypeOK, Images
  <2>2. CASE ~(timestamp < image)
    BY <1>10, <2>2 DEF Update, TypeOK
  <2> QED
    BY <2>1, <2>2
<1> QED
  BY <1>1, <1>2, <1>3, <1>4, <1>5, <1>6, <1>7, <1>8, <1>9, <1>10 DEF Feeder

LEMMA InitThreadTypes ==
  ASSUME TypeOK, Images, Queue, Pose, InitThread
  PROVE  TypeOK'
<1> USE DEF Failed
<1>1. CASE Initialize
  <2>1. tCam' \in ImageTimes \cup {-1}
    BY <1>1, NewestOfDb DEF Initialize
  <2>2. db' \subseteq ImageTimes /\ init_imu' \subseteq 1 .. LastSample
    BY <1>1 DEF Initialize, TypeOK, After, Since
  <2>3. tpc' \in {"failed", "static", "dynamic"}
    BY <1>1 DEF Initialize
  <2> QED
    BY <1>1, <2>1, <2>2, <2>3 DEF Initialize, TypeOK
<1>2. CASE StaticInit
  <2>1. CASE Failed /\ UNCHANGED imu_value
    BY <1>2, <2>1 DEF StaticInit, TypeOK
  <2>2. CASE ~(Failed /\ UNCHANGED imu_value)
    <3> DEFINE n == MaxOf(init_imu)
    <3>1. Cardinality(OlderHalf(n)) >= 2 /\ tTime' = MaxOf(OlderHalf(n))
          /\ imu_value' = tTime' /\ tpc' = "commit" /\ Snapshot
      BY <1>2, <2>2 DEF StaticInit
    <3>2. OlderHalf(n) \subseteq 1 .. LastSample /\ OlderHalf(n) # {}
      BY <3>1, TwoOrMore DEF OlderHalf, TypeOK
    <3>3. tTime' \in Times
      BY <3>1, <3>2, NewestSample DEF Times
    <3>4. snapshot' \in [imu : 0 .. LastSample, image : ImageTimes \cup {0}] /\ late' = FALSE
      BY <3>1 DEF Snapshot, TypeOK
    <3>5. UNCHANGED <<imuVars, mainVars, db, tCam, todo, camera_queue_init, mtx, timestamp,
                      clones, flagVars, last>>
      BY <1>2 DEF StaticInit
    <3>6. imu_value' \in Times \cup {0} /\ tTime' \in Times \cup {0} /\ tpc' \in {"commit"}
          /\ late' \in BOOLEAN
      BY <3>1, <3>3, <3>4
    <3> QED
      BY <3>4, <3>5, <3>6 DEF TypeOK
  <2> QED
    BY <2>1, <2>2
<1>3. CASE DynamicCollect
  <2>1. tCam' \in ImageTimes \cup {-1}
    BY <1>3, NewestOfDb DEF DynamicCollect
  <2>2. db' \subseteq ImageTimes /\ init_imu' \subseteq 1 .. LastSample
    BY <1>3 DEF DynamicCollect, TypeOK, After, Since
  <2>3. tTime' \in Times \cup {0}
    BY <1>3, <2>1, VioInitAssumption DEF DynamicCollect, TypeOK, Times
  <2>4. snapshot' \in [imu : 0 .. LastSample, image : ImageTimes \cup {0}] /\ late' \in BOOLEAN
    <3>1. [imu |-> newest, image |-> image] \in [imu : 0 .. LastSample, image : ImageTimes \cup {0}]
      BY DEF TypeOK
    <3>2. UNCHANGED <<snapshot, late>> \/ Snapshot
      BY <1>3 DEF DynamicCollect
    <3> QED
      BY <3>1, <3>2 DEF Snapshot, TypeOK
  <2>5. tpc' \in {"failed", "integrate"}
    BY <1>3 DEF DynamicCollect
  <2> QED
    BY <1>3, <2>1, <2>2, <2>3, <2>4, <2>5 DEF DynamicCollect, TypeOK
<1>4. CASE DynamicIntegrate
  BY <1>4 DEF DynamicIntegrate, TypeOK
<1>5. CASE DynamicSystem \/ DynamicOptimise
  <2>1. UNCHANGED <<imuVars, mainVars, db, tCam, tTime, todo, camera_queue_init, mtx, stateVars,
                    flagVars, histVars>>
    BY <1>5 DEF DynamicSystem, DynamicOptimise, Stage
  <2>2. tpc' \in {"optimise", "recover", "failed"}
    BY <1>5 DEF DynamicSystem, DynamicOptimise, Stage
  <2> QED
    BY <2>1, <2>2 DEF TypeOK
<1>6. CASE DynamicRecover
  <2>1. tCam \in Times \cup {0}
    BY <1>6 DEF DynamicRecover, Pose, TypeOK
  <2> QED
    BY <1>6, <2>1 DEF DynamicRecover, TypeOK
<1>7. CASE Commit
  BY <1>7 DEF Commit, TypeOK, After
<1>8. CASE LockQueue
  <2>1. todo' \in Seq(ImageTimes)
    BY <1>8, ReplayFacts DEF LockQueue
  <2> QED
    BY <1>8, <2>1 DEF LockQueue, TypeOK
<1>9. CASE Replay
  <2>1. Head(todo) \in ImageTimes /\ Tail(todo) \in Seq(ImageTimes)
    BY <1>9, HeadTailProperties DEF Replay, TypeOK
  <2> QED
    BY <1>9, <2>1, PropagateTypes DEF Replay, TypeOK
<1>10. CASE Unlock \/ Fail
  BY <1>10, EmptySeq DEF Unlock, Fail, TypeOK
<1>11. CASE EndThread
  <2>1. UNCHANGED <<imuVars, mainVars, db, tCam, tTime, todo, camera_queue_init, mtx, stateVars,
                    thread_init_success, is_initialized_vio, histVars>>
        /\ tpc' \in {"none"} /\ thread_init_running' \in BOOLEAN
    BY <1>11 DEF EndThread
  <2> QED
    BY <2>1 DEF TypeOK
<1> QED
  BY <1>1, <1>2, <1>3, <1>4, <1>5, <1>6, <1>7, <1>8, <1>9, <1>10, <1>11 DEF InitThread

(* The times of the state are natural numbers. *)
LEMMA Numbers ==
  ASSUME TypeOK
  PROVE  /\ image \in Nat /\ newest \in Nat /\ tCam \in Int /\ tTime \in Nat
         /\ timestamp \in Nat /\ imu_value \in Nat
         /\ snapshot.imu \in Nat /\ snapshot.image \in Nat
         /\ db \subseteq Nat \ {0} /\ clones \subseteq Nat
<1>1. ImageTimes \subseteq Nat \ {0} /\ Times \subseteq Nat \ {0}
  BY VioInitAssumption DEF Times
<1>2. 0 .. LastSample \subseteq Nat
  BY VioInitAssumption
<1>3. image \in Nat /\ newest \in Nat /\ tCam \in Int
  BY <1>1, <1>2 DEF TypeOK
<1>4. tTime \in Nat /\ timestamp \in Nat /\ imu_value \in Nat
  BY <1>1 DEF TypeOK
<1>5. snapshot.imu \in Nat /\ snapshot.image \in Nat
  <2>1. snapshot \in [imu : 0 .. LastSample, image : ImageTimes \cup {0}]
    BY DEF TypeOK
  <2>2. snapshot.imu \in 0 .. LastSample /\ snapshot.image \in ImageTimes \cup {0}
    BY <2>1
  <2>3. snapshot.imu \in Nat
    BY <1>2, <2>2
  <2>4. \A t \in ImageTimes \cup {0} : t \in Nat
    BY <1>1
  <2>5. snapshot.image \in Nat
    BY <2>2, <2>4
  <2> QED
    BY <2>3, <2>5
<1>6. db \subseteq Nat \ {0} /\ clones \subseteq Nat
  BY <1>1 DEF TypeOK
<1> QED
  BY <1>3, <1>4, <1>5, <1>6

LEMMA HalfTwice == Half \in Nat /\ Window = 2 * Half
BY VioInitAssumption DEF Half

LEMMA ElementsAreTimes ==
  ASSUME NEW q \in Seq(ImageTimes)
  PROVE  Len(q) \in Nat /\ \A i \in 1 .. Len(q) : q[i] \in Nat /\ q[i] # 0
BY LenProperties, ElementOfSeq, VioInitAssumption

-----------------------------------------------------------------------------
(* The two threads and their flags *)

LEMMA FeederThreads ==
  ASSUME TypeOK, Threads, Feeder
  PROVE  Threads'
<1>1. CASE NextImage
  BY <1>1 DEF NextImage, Threads
<1>2. CASE FeedImu
  BY <1>2 DEF FeedImu, Threads
<1>3. CASE CaughtUp
  BY <1>3 DEF CaughtUp, Threads
<1>4. CASE TrackImage
  BY <1>4 DEF TrackImage, Threads
<1>5. CASE CheckRunning
  BY <1>5 DEF CheckRunning, Threads
<1>6. CASE Enqueue
  BY <1>6 DEF Enqueue, Threads
<1>7. CASE CheckSuccess
  BY <1>7 DEF CheckSuccess, Threads
<1>8. CASE StartThread
  BY <1>8 DEF StartThread, Threads
<1>9. CASE JoinThread
  BY <1>9 DEF JoinThread, Threads
<1>10. CASE Update
  BY <1>10 DEF Update, Threads
<1> QED
  BY <1>1, <1>2, <1>3, <1>4, <1>5, <1>6, <1>7, <1>8, <1>9, <1>10 DEF Feeder

LEMMA InitThreadThreads ==
  ASSUME TypeOK, Threads, InitThread
  PROVE  Threads'
<1> USE DEF Failed, Threads
<1>1. CASE Initialize
  BY <1>1 DEF Initialize
<1>2. CASE StaticInit
  BY <1>2 DEF StaticInit
<1>3. CASE DynamicCollect
  BY <1>3 DEF DynamicCollect
<1>4. CASE DynamicIntegrate
  BY <1>4 DEF DynamicIntegrate
<1>5. CASE DynamicSystem \/ DynamicOptimise
  BY <1>5 DEF DynamicSystem, DynamicOptimise, Stage
<1>6. CASE DynamicRecover
  BY <1>6 DEF DynamicRecover
<1>7. CASE Commit
  BY <1>7 DEF Commit
<1>8. CASE LockQueue
  BY <1>8 DEF LockQueue
<1>9. CASE Replay
  BY <1>9 DEF Replay
<1>10. CASE Unlock
  BY <1>10 DEF Unlock
<1>11. CASE Fail
  BY <1>11 DEF Fail
<1>12. CASE EndThread
  BY <1>12 DEF EndThread
<1> QED
  BY <1>1, <1>2, <1>3, <1>4, <1>5, <1>6, <1>7, <1>8, <1>9, <1>10, <1>11, <1>12 DEF InitThread

-----------------------------------------------------------------------------
(* Images *)

LEMMA FeederImages ==
  ASSUME TypeOK, Images, Feeder
  PROVE  Images'
<1> USE Numbers DEF Images
<1>1. CASE NextImage
  <2>1. image' \in ImageTimes /\ image < image' /\ image' \in Nat
    BY <1>1, NextImageValue, VioInitAssumption
  <2>2. pc' \in {"imu", "track"} /\ (pc' = "track" => image' <= newest)
    BY <1>1, <2>1 DEF NextImage
  <2>3. UNCHANGED <<newest, db>>
    BY <1>1 DEF NextImage
  <2> QED
    BY <2>1, <2>2, <2>3
<1>2. CASE FeedImu
  BY <1>2 DEF FeedImu
<1>3. CASE CaughtUp
  BY <1>3 DEF CaughtUp
<1>4. CASE TrackImage
  BY <1>4 DEF TrackImage
<1>5. CASE CheckRunning
  BY <1>5 DEF CheckRunning
<1>6. CASE Enqueue
  BY <1>6 DEF Enqueue
<1>7. CASE CheckSuccess
  BY <1>7 DEF CheckSuccess
<1>8. CASE StartThread
  BY <1>8 DEF StartThread
<1>9. CASE JoinThread
  BY <1>9 DEF JoinThread
<1>10. CASE Update
  BY <1>10 DEF Update
<1> QED
  BY <1>1, <1>2, <1>3, <1>4, <1>5, <1>6, <1>7, <1>8, <1>9, <1>10 DEF Feeder

(* The initialisation thread leaves the feeding thread's variables alone,  *)
(* and only takes measurements away.                                       *)
LEMMA InitThreadFrame ==
  ASSUME InitThread
  PROVE  /\ UNCHANGED <<multi_threading_subs, newest, prop_imu, image, pc, is_initialized_vio>>
         /\ db' \subseteq db /\ tpc # "none"
<1>1. CASE Initialize
  BY <1>1 DEF Initialize, After
<1>2. CASE StaticInit
  BY <1>2 DEF StaticInit
<1>3. CASE DynamicCollect
  BY <1>3 DEF DynamicCollect, After
<1>4. CASE DynamicIntegrate
  BY <1>4 DEF DynamicIntegrate
<1>5. CASE DynamicSystem \/ DynamicOptimise
  BY <1>5 DEF DynamicSystem, DynamicOptimise, Stage
<1>6. CASE DynamicRecover
  BY <1>6 DEF DynamicRecover
<1>7. CASE Commit
  BY <1>7 DEF Commit, After
<1>8. CASE LockQueue \/ Replay \/ Unlock \/ Fail \/ EndThread
  BY <1>8 DEF LockQueue, Replay, Unlock, Fail, EndThread
<1> QED
  BY <1>1, <1>2, <1>3, <1>4, <1>5, <1>6, <1>7, <1>8 DEF InitThread

LEMMA InitThreadImages ==
  ASSUME Images, InitThread
  PROVE  Images'
BY InitThreadFrame DEF Images

-----------------------------------------------------------------------------
(* The queued images and those an attempt goes on with *)

LEMMA AppendNewer ==
  ASSUME NEW q \in Seq(ImageTimes), NEW t \in ImageTimes, Increasing(q),
         \A i \in 1 .. Len(q) : q[i] < t
  PROVE  /\ Increasing(Append(q, t))
         /\ \A i \in 1 .. Len(Append(q, t)) :
              Append(q, t)[i] = t \/ \E j \in 1 .. Len(q) : Append(q, t)[i] = q[j]
<1>1. Len(q) \in Nat /\ Len(Append(q, t)) = Len(q) + 1
      /\ (\A i \in 1 .. Len(q) : Append(q, t)[i] = q[i]) /\ Append(q, t)[Len(q) + 1] = t
  BY AppendProperties, LenProperties
<1>2. \A i \in 1 .. Len(q) + 1 : i \in 1 .. Len(q) \/ i = Len(q) + 1
  BY <1>1
<1>3. ASSUME NEW i \in 1 .. Len(q) + 1, NEW j \in 1 .. Len(q) + 1, i < j
      PROVE  Append(q, t)[i] < Append(q, t)[j]
  <2>1. i \in 1 .. Len(q)
    BY <1>1, <1>3
  <2>2. CASE j \in 1 .. Len(q)
    BY <1>1, <1>3, <2>1, <2>2 DEF Increasing
  <2>3. CASE j = Len(q) + 1
    BY <1>1, <2>1, <2>3
  <2> QED
    BY <1>2, <2>2, <2>3
<1> QED
  BY <1>1, <1>2, <1>3 DEF Increasing

LEMMA TailFacts ==
  ASSUME NEW q \in Seq(ImageTimes), q # <<>>, Increasing(q), Arrived(q)
  PROVE  /\ Head(q) \in ImageTimes /\ Head(q) <= image /\ Head(q) <= newest
         /\ Increasing(Tail(q)) /\ Arrived(Tail(q))
         /\ \A i \in 1 .. Len(Tail(q)) : Head(q) < Tail(q)[i]
         /\ Head(q) = q[1] /\ 1 \in 1 .. Len(q)
<1>1. Len(q) \in Nat /\ Len(q) # 0 /\ Len(Tail(q)) = Len(q) - 1
      /\ Head(q) = q[1] /\ Head(q) \in ImageTimes
      /\ \A i \in 1 .. Len(Tail(q)) : Tail(q)[i] = q[i + 1]
  BY HeadTailProperties, LenProperties, EmptySeq
<1>2. 1 \in 1 .. Len(q) /\ \A i \in 1 .. Len(Tail(q)) : i + 1 \in 1 .. Len(q) /\ 1 < i + 1
  BY <1>1
<1>3. Arrived(Tail(q)) /\ Head(q) <= image /\ Head(q) <= newest
  BY <1>1, <1>2 DEF Arrived
<1>4. \A i \in 1 .. Len(Tail(q)) : Head(q) < Tail(q)[i]
  BY <1>1, <1>2 DEF Increasing
<1>5. \A i, j \in 1 .. Len(Tail(q)) : i < j => Tail(q)[i] < Tail(q)[j]
  <2>1. \A i, j \in 1 .. Len(Tail(q)) : i < j => i + 1 < j + 1
    BY <1>1
  <2> QED
    BY <1>1, <1>2, <2>1 DEF Increasing
<1> QED
  BY <1>1, <1>2, <1>3, <1>4, <1>5 DEF Increasing

LEMMA FeederQueue ==
  ASSUME TypeOK, Threads, Images, Queue, Feeder
  PROVE  Queue'
<1> USE Numbers DEF Queue
<1>1. /\ camera_queue_init \in Seq(ImageTimes) /\ todo \in Seq(ImageTimes)
      /\ Len(camera_queue_init) \in Nat
      /\ \A i \in 1 .. Len(camera_queue_init) : camera_queue_init[i] \in Nat
      /\ \A i \in 1 .. Len(todo) : todo[i] \in Nat
  BY ElementsAreTimes DEF TypeOK
<1>2. CASE NextImage
  <2>1. image' \in Nat /\ image < image'
    BY <1>2, NextImageValue, VioInitAssumption
  <2>2. UNCHANGED <<newest, camera_queue_init, todo, tpc, timestamp>>
    BY <1>2 DEF NextImage
  <2>3. ASSUME NEW i \in 1 .. Len(camera_queue_init)
        PROVE  camera_queue_init[i] <= image' /\ camera_queue_init[i] <= newest
    <3>1. camera_queue_init[i] <= image /\ camera_queue_init[i] <= newest
      BY DEF Arrived
    <3> QED
      BY <1>1, <2>1, <3>1
  <2>5. ASSUME tpc = "replay", NEW i \in 1 .. Len(todo)
        PROVE  todo[i] <= image' /\ todo[i] <= newest
    <3>1. todo[i] <= image /\ todo[i] <= newest
      BY <2>5 DEF Arrived
    <3> QED
      BY <1>1, <2>1, <3>1
  <2>4. \A i \in 1 .. Len(camera_queue_init) : camera_queue_init[i] < image'
    BY <1>1, <2>1 DEF Arrived
  <2> QED
    BY <2>2, <2>3, <2>4, <2>5 DEF Increasing, Arrived
<1>3. CASE FeedImu
  <2>1. newest' \in Nat /\ newest <= newest'
    BY <1>3 DEF FeedImu
  <2>2. UNCHANGED <<image, pc, camera_queue_init, todo, tpc, timestamp>>
    BY <1>3 DEF FeedImu
  <2>3. ASSUME NEW i \in 1 .. Len(camera_queue_init)
        PROVE  camera_queue_init[i] <= image /\ camera_queue_init[i] <= newest'
    <3>1. camera_queue_init[i] <= image /\ camera_queue_init[i] <= newest
      BY DEF Arrived
    <3> QED
      BY <1>1, <2>1, <3>1
  <2>5. ASSUME tpc = "replay", NEW i \in 1 .. Len(todo)
        PROVE  todo[i] <= image /\ todo[i] <= newest'
    <3>1. todo[i] <= image /\ todo[i] <= newest
      BY <2>5 DEF Arrived
    <3> QED
      BY <1>1, <2>1, <3>1
  <2> QED
    BY <2>2, <2>3, <2>5 DEF Increasing, Arrived
<1>4. CASE CaughtUp \/ TrackImage \/ CheckRunning
  BY <1>4 DEF CaughtUp, TrackImage, CheckRunning, Increasing, Arrived
<1>5. CASE Enqueue
  <2>1. image \in ImageTimes /\ image <= newest
        /\ \A i \in 1 .. Len(camera_queue_init) : camera_queue_init[i] < image
    BY <1>5 DEF Enqueue, Images
  <2>2. camera_queue_init' = Append(camera_queue_init, image) /\ pc' = "pop" /\ tpc # "replay"
        /\ UNCHANGED <<image, newest, todo, tpc, timestamp>>
    BY <1>5 DEF Enqueue, Threads
  <2> DEFINE q == Append(camera_queue_init, image)
  <2>4. Increasing(q) /\ \A i \in 1 .. Len(q) :
          q[i] = image \/ \E j \in 1 .. Len(camera_queue_init) : q[i] = camera_queue_init[j]
    BY <1>1, <2>1, AppendNewer
  <2> HIDE DEF q
  <2>5. \A i \in 1 .. Len(q) : q[i] <= image /\ q[i] <= newest
    BY <2>1, <2>4 DEF Arrived
  <2>3. Increasing(camera_queue_init') /\ Arrived(camera_queue_init)'
    BY <2>2, <2>4, <2>5 DEF Arrived, q
  <2> QED
    BY <2>2, <2>3, <2>5 DEF Increasing, Arrived
<1>6. CASE CheckSuccess \/ StartThread \/ JoinThread
  BY <1>6 DEF CheckSuccess, StartThread, JoinThread, Increasing, Arrived
<1>7. CASE Update
  <2>1. tpc # "replay" /\ pc' = "pop"
        /\ UNCHANGED <<image, newest, camera_queue_init, tpc>>
    BY <1>7 DEF Update, Threads
  <2> QED
    BY <2>1 DEF Increasing, Arrived
<1> QED
  BY <1>2, <1>3, <1>4, <1>5, <1>6, <1>7 DEF Feeder

LEMMA InitThreadQueue ==
  ASSUME TypeOK, Threads, Queue, Pose, InitThread
  PROVE  Queue'
<1> USE DEF Queue
<1>1. UNCHANGED <<image, newest, pc>>
  BY InitThreadFrame
<1>2. CASE /\ Initialize \/ StaticInit \/ DynamicCollect \/ DynamicIntegrate \/ DynamicSystem
              \/ DynamicOptimise \/ DynamicRecover \/ Commit
  <2>1. UNCHANGED camera_queue_init /\ tpc' # "replay"
    BY <1>2 DEF Initialize, StaticInit, DynamicCollect, DynamicIntegrate, DynamicSystem,
                DynamicOptimise, DynamicRecover, Commit, Stage, Failed
  <2> QED
    BY <1>1, <2>1 DEF Increasing, Arrived
<1>3. CASE LockQueue
  <2>1. /\ Increasing(todo') /\ Arrived(todo')
        /\ \A i \in 1 .. Len(todo') : tTime < todo'[i]
    BY <1>3, ReplayFacts DEF LockQueue
  <2>2. UNCHANGED <<camera_queue_init, timestamp>> /\ timestamp = tTime
    BY <1>3 DEF LockQueue, Pose
  <2> QED
    BY <1>1, <2>1, <2>2 DEF Increasing, Arrived
<1>4. CASE Replay
  <2>1. UNCHANGED camera_queue_init /\ todo' = Tail(todo) /\ timestamp' = Head(todo)
    BY <1>4 DEF Replay, PropagateAndClone
  <2>2. /\ Increasing(Tail(todo)) /\ Arrived(Tail(todo))
        /\ \A i \in 1 .. Len(Tail(todo)) : Head(todo) < Tail(todo)[i]
    BY <1>4, TailFacts DEF Replay, TypeOK
  <2> QED
    BY <1>1, <2>1, <2>2 DEF Increasing, Arrived
<1>5. CASE Unlock \/ Fail
  <2>1. camera_queue_init' = <<>> /\ tpc' # "replay" /\ Len(<<>>) = 0
    BY <1>5, EmptySeq DEF Unlock, Fail
  <2> QED
    BY <2>1 DEF Increasing, Arrived
<1>6. CASE EndThread
  <2>1. UNCHANGED camera_queue_init /\ tpc' # "replay"
    BY <1>6 DEF EndThread
  <2> QED
    BY <1>1, <2>1 DEF Increasing, Arrived
<1> QED
  BY <1>2, <1>3, <1>4, <1>5, <1>6 DEF InitThread

-----------------------------------------------------------------------------
(* Pose and time *)

LEMMA FeederPose ==
  ASSUME TypeOK, Threads, Images, Pose, Feeder
  PROVE  Pose'
<1> USE Numbers DEF Pose, Timed, HasSet, Ahead
<1>1. CASE NextImage
  <2>1. image' \in Nat /\ image < image'
    BY <1>1, NextImageValue, VioInitAssumption
  <2> QED
    BY <1>1, <2>1 DEF NextImage
<1>2. CASE FeedImu
  <2>1. newest' = newest + 2
    BY <1>2 DEF FeedImu
  <2> QED
    BY <1>2, <2>1 DEF FeedImu
<1>3. CASE CaughtUp \/ TrackImage \/ CheckRunning \/ Enqueue
  BY <1>3 DEF CaughtUp, TrackImage, CheckRunning, Enqueue
<1>4. CASE CheckSuccess \/ JoinThread
  BY <1>4 DEF CheckSuccess, JoinThread
<1>5. CASE StartThread
  BY <1>5 DEF StartThread, Threads
<1>6. CASE Update
  <2>1. image \in Nat \ {0} /\ image <= newest /\ tpc = "none"
    BY <1>6, VioInitAssumption DEF Update, Threads, Images
  <2>2. CASE timestamp < image
    BY <1>6, <2>1, <2>2 DEF Update, PropagateAndClone
  <2>3. CASE ~(timestamp < image)
    BY <1>6, <2>3 DEF Update
  <2> QED
    BY <2>2, <2>3
<1> QED
  BY <1>1, <1>2, <1>3, <1>4, <1>5, <1>6 DEF Feeder

(* The time the static initialiser finds is at most half a window older    *)
(* than the newest sample.                                                 *)
LEMMA StaticTime ==
  ASSUME TypeOK, Threads, Buffers, StaticInit, tpc' = "commit"
  PROVE  LET n == MaxOf(init_imu)
         IN  /\ n = newest /\ newest # 0 /\ init_imu \subseteq prop_imu /\ Whole(init_imu, newest)
             /\ tTime' = MaxOf(OlderHalf(n)) /\ OlderHalf(n) # {}
             /\ tTime' \in OlderHalf(n) /\ \A s \in OlderHalf(n) : s <= tTime'
             /\ tTime' \in Nat \ {0} /\ tTime' <= newest - Half
             /\ imu_value' = tTime' /\ Snapshot
<1> DEFINE n == MaxOf(init_imu)
<1>1. /\ Cardinality(init_imu) >= 2 /\ Cardinality(OlderHalf(n)) >= 2
      /\ tTime' = MaxOf(OlderHalf(n)) /\ imu_value' = tTime' /\ Snapshot
  BY DEF StaticInit, Failed
<1>2. init_imu # {} /\ OlderHalf(n) # {} /\ init_imu \subseteq 1 .. LastSample
      /\ OlderHalf(n) \subseteq 1 .. LastSample
  BY <1>1, TwoOrMore DEF OlderHalf, TypeOK
<1>3. ~is_initialized_vio
  BY DEF StaticInit, Threads
<1>4. newest # 0 /\ Whole(init_imu, newest) /\ init_imu \subseteq prop_imu
  BY <1>2, <1>3 DEF Buffers, Gapless
<1>5. n \in init_imu /\ \A s \in init_imu : s <= n
  BY <1>2, NewestSample
<1>6. newest \in init_imu /\ \A s \in init_imu : s <= newest
  BY <1>4 DEF Whole
<1>7. n = newest
  <2>1. n \in Nat
    <3>1. 1 .. LastSample \subseteq Nat
      BY VioInitAssumption
    <3>2. n \in 1 .. LastSample
      BY <1>2, <1>5
    <3> QED
      BY <3>1, <3>2
  <2>3. newest \in Nat
    BY Numbers
  <2>2. n <= newest /\ newest <= n
    BY <1>5, <1>6
  <2> QED
    BY <2>1, <2>2, <2>3
<1>8. tTime' \in OlderHalf(n) /\ \A s \in OlderHalf(n) : s <= tTime'
  BY <1>1, <1>2, NewestSample
<1>9. tTime' \in Nat \ {0} /\ tTime' <= n - Half
  BY <1>2, <1>8 DEF OlderHalf
<1> QED
  BY <1>1, <1>2, <1>4, <1>7, <1>8, <1>9

(* The time of the dynamic initialiser is the newest image's.              *)
LEMMA DynamicTime ==
  ASSUME TypeOK, Images, DynamicCollect, tpc' = "integrate"
  PROVE  /\ tTime' = tCam' /\ tCam' \in db /\ tCam' \in Nat \ {0}
         /\ tCam' <= image /\ tCam' <= newest /\ Snapshot
         /\ init_imu' = Since(init_imu, tCam' - Window) /\ init_imu' # init_imu
<1>1. tCam' = MaxOf(db \cup {-1}) /\ tCam' \in Int /\ Window \in Nat
  <2>1. tCam' = MaxOf(db \cup {-1})
    BY DEF DynamicCollect
  <2>2. tCam' \in ImageTimes \cup {-1}
    BY <2>1, NewestOfDb
  <2> QED
    BY <2>1, <2>2, VioInitAssumption
<1>2. ~(tCam' - Window < 0) /\ tTime' = tCam' /\ Snapshot
      /\ init_imu' = Since(init_imu, tCam' - Window) /\ init_imu' # init_imu
  BY DEF DynamicCollect, Failed
<1>3. tCam' # -1
  BY <1>1, <1>2
<1>4. tCam' \in db /\ tCam' <= image /\ tCam' <= newest
  BY <1>1, <1>3, NewestOfDb
<1> QED
  BY <1>2, <1>4, Numbers

LEMMA InitThreadPose ==
  ASSUME TypeOK, Threads, Images, Queue, Pose, Buffers, InitThread
  PROVE  Pose'
<1> USE DEF Pose, Timed, HasSet
<1>1. UNCHANGED <<image, newest>>
  BY InitThreadFrame
<1>2. CASE Initialize \/ Fail
  BY <1>2 DEF Initialize, Fail, Threads
<1>3. CASE StaticInit
  <2>1. UNCHANGED <<image, newest, timestamp, thread_init_success>> /\ ~thread_init_success
    BY <1>1, <1>3 DEF StaticInit, Threads
  <2>2. CASE tpc' = "commit"
    <3>1. tTime' \in Nat \ {0} /\ tTime' <= newest - Half /\ imu_value' = tTime' /\ Snapshot
      BY <1>3, <2>2, StaticTime
    <3>2. snapshot'.imu = newest /\ snapshot'.image = image
      BY <3>1 DEF Snapshot
    <3>3. tTime' # 0 /\ tTime' <= newest /\ (tTime' <= image \/ newest - image > Half)
      BY <3>1, HalfTwice, Numbers
    <3> QED
      BY <2>1, <2>2, <3>1, <3>2, <3>3 DEF Ahead
  <2>3. CASE tpc' # "commit"
    BY <1>3, <2>1, <2>3 DEF StaticInit, Failed
  <2> QED
    BY <2>2, <2>3
<1>4. CASE DynamicCollect
  <2>1. UNCHANGED <<image, newest, timestamp, thread_init_success>> /\ ~thread_init_success
        /\ tpc' \in {"failed", "integrate"}
    BY <1>1, <1>4 DEF DynamicCollect, Threads, Failed
  <2>2. CASE tpc' = "integrate"
    BY <1>4, <2>1, <2>2, DynamicTime
  <2>3. CASE tpc' = "failed"
    BY <2>1, <2>3
  <2> QED
    BY <2>1, <2>2, <2>3
<1>5. CASE DynamicIntegrate \/ DynamicSystem \/ DynamicOptimise
  <2>1. UNCHANGED <<tTime, tCam, snapshot, image, newest, timestamp, imu_value,
                    thread_init_success>>
    BY <1>5 DEF DynamicIntegrate, DynamicSystem, DynamicOptimise, Stage, Failed
  <2>2. tpc \in {"integrate", "system", "optimise"} /\ ~thread_init_success
        /\ tpc' \in {"system", "optimise", "recover", "failed"}
    BY <1>5 DEF DynamicIntegrate, DynamicSystem, DynamicOptimise, Stage, Failed, Threads
  <2> QED
    BY <2>1, <2>2 DEF Ahead
<1>6. CASE DynamicRecover
  <2>1. UNCHANGED <<tTime, tCam, snapshot, image, newest, timestamp, thread_init_success>>
        /\ imu_value' = tCam
    BY <1>6 DEF DynamicRecover, Failed
  <2>2. tpc = "recover" /\ ~thread_init_success /\ tpc' \in {"commit", "failed"}
    BY <1>6 DEF DynamicRecover, Failed, Threads
  <2> QED
    BY <2>1, <2>2 DEF Ahead
<1>7. CASE Commit
  BY <1>7 DEF Commit, Ahead
<1>8. CASE LockQueue
  BY <1>8 DEF LockQueue, Ahead
<1>9. CASE Replay
  <2>1. Head(todo) \in Nat \ {0} /\ Head(todo) <= image /\ Head(todo) <= newest
    BY <1>9, TailFacts, VioInitAssumption DEF Replay, TypeOK, Queue
  <2>2. timestamp' = Head(todo) /\ imu_value' = Head(todo) /\ tpc' = "replay"
    BY <1>9 DEF Replay, PropagateAndClone
  <2> QED
    BY <1>1, <2>1, <2>2
<1>10. CASE Unlock \/ EndThread
  BY <1>10 DEF Unlock, EndThread, Ahead
<1> QED
  BY <1>2, <1>3, <1>4, <1>5, <1>6, <1>7, <1>8, <1>9, <1>10 DEF InitThread

-----------------------------------------------------------------------------
(* The buffers *)

(* Old samples may go from a buffer as long as the newest one stays.       *)
LEMMA WholeSince ==
  ASSUME NEW I, NEW top, Whole(I, top), NEW b \in Int, b <= top
  PROVE  Whole(Since(I, b), top)
<1>1. \A s \in Samples : s \in Nat
  BY SampleValue
<1>2. \A s \in Since(I, b) : s \in I /\ s >= b /\ s \in Samples
  BY DEF Whole, Since
<1>3. ASSUME NEW s \in Since(I, b), NEW u \in Samples, s <= u, u <= top
      PROVE  u \in Since(I, b)
  <2>1. u \in I /\ u \in Nat /\ s \in Nat /\ s >= b
    BY <1>1, <1>2, <1>3 DEF Whole
  <2> QED
    BY <1>3, <2>1 DEF Since
<1>4. top \in Since(I, b)
  BY DEF Whole, Since
<1> QED
  BY <1>2, <1>3, <1>4 DEF Whole

LEMMA WholeNext ==
  ASSUME NEW I, newest \in Samples \cup {0}, Gapless(I), newest + 2 <= LastSample
  PROVE  Whole(I \cup {newest + 2}, newest + 2)
<1> DEFINE n == newest + 2
<1>1. n \in Samples /\ \A s \in Samples : s <= n => s <= newest \/ s = n
  BY NextSample
<1>2. newest \in Nat /\ \A s \in Samples : s \in Nat /\ s >= 2
  BY SampleValue
<1>3. \A s \in I : s \in Samples /\ s <= newest
  BY DEF Gapless, Whole
<1>4. ASSUME NEW s \in I \cup {n}, NEW u \in Samples, s <= u, u <= n
      PROVE  u \in I \cup {n}
  <2>1. CASE u = n
    BY <2>1
  <2>2. CASE u # n
    <3>1. u <= newest /\ newest # 0
      BY <1>1, <1>2, <1>4, <2>2
    <3>2. s # n
      BY <1>2, <1>4, <3>1
    <3> QED
      BY <1>4, <3>1, <3>2 DEF Gapless, Whole
  <2> QED
    BY <2>1, <2>2
<1>5. \A s \in I \cup {n} : s \in Samples /\ s <= n
  <2>1. ASSUME NEW s \in I PROVE s \in Samples /\ s <= n
    <3>1. s \in Samples /\ s <= newest
      BY <1>3
    <3>2. s \in Nat /\ newest \in Nat
      BY <1>2, <3>1
    <3> QED
      BY <3>1, <3>2
  <2>2. n \in Samples /\ n <= n
    BY <1>1, <1>2
  <2> QED
    BY <2>1, <2>2
<1> QED
  BY <1>4, <1>5 DEF Whole

LEMMA SinceKeepsGapless ==
  ASSUME newest \in Samples \cup {0}, NEW I, Gapless(I), NEW b \in Int, b <= newest
  PROVE  Gapless(Since(I, b))
<1>1. CASE newest = 0
  BY <1>1 DEF Gapless, Since
<1>2. CASE newest # 0
  BY <1>2, WholeSince DEF Gapless
<1> QED
  BY <1>1, <1>2

(* What the feeding of a sample makes of the propagator's buffer.          *)
LEMMA FedBuffer ==
  ASSUME TypeOK, Threads, Pose, Buffers, FeedImu
  PROVE  \E b \in Int :
           /\ b <= newest /\ newest' = newest + 2 /\ newest' \in Samples
           /\ prop_imu' = Since(prop_imu \cup {newest'}, b)
           /\ Whole(prop_imu', newest')
           /\ ~is_initialized_vio => b <= 0 \/ b = newest' - Window - 2 * Margin
           /\ is_initialized_vio => b <= 0 \/ (b = MinOf(clones) - Margin /\ clones # {})
<1> DEFINE n == newest + 2
           old == OldestTime(n)
           all == prop_imu \cup {n}
<1>1. newest' = n /\ prop_imu' = Cleaned(all, old - Margin) /\ n <= LastSample
  BY DEF FeedImu
<1>2. newest \in Samples \cup {0} /\ Gapless(prop_imu)
  BY DEF Buffers
<1>3. n \in Samples /\ Whole(all, n)
  BY <1>1, <1>2, NextSample, WholeNext
<1>4. /\ n \in Nat /\ newest \in Nat /\ Window \in Nat /\ Margin \in Nat \ {0} /\ timestamp \in Nat
      /\ clones \subseteq Nat
  BY <1>3, SampleValue, Numbers, VioInitAssumption
<1>5. /\ old \in Int
      /\ ~is_initialized_vio => old = n - Window - Margin
      /\ is_initialized_vio => old = -1 \/ (old = MinOf(clones) /\ clones # {} /\ old <= timestamp)
  <2>1. CASE ~is_initialized_vio
    BY <1>4, <2>1 DEF OldestTime
  <2>2. CASE is_initialized_vio
    <3>1. clones # {} => MinOf(clones) \in Nat
      BY <1>4, MinOfIsLeast
    <3>2. old = IF clones = {} \/ MinOf(clones) > timestamp THEN -1 ELSE MinOf(clones)
      BY <2>2 DEF OldestTime
    <3>3. CASE clones = {} \/ MinOf(clones) > timestamp
      BY <2>2, <3>2, <3>3
    <3>4. CASE ~(clones = {} \/ MinOf(clones) > timestamp)
      BY <1>4, <2>2, <3>1, <3>2, <3>4
    <3> QED
      BY <3>3, <3>4
  <2> QED
    BY <2>1, <2>2
<1>6. is_initialized_vio => timestamp <= newest
  BY DEF Threads, Pose, HasSet
<1> HIDE DEF n, old, all
<1>7. CASE old - Margin < 0
  <2>1. prop_imu' = all
    BY <1>1, <1>7 DEF Cleaned
  <2>2. \A s \in all : s >= 0
    BY <1>3, SampleValue DEF Whole
  <2>3. all = Since(all, 0)
    BY <2>2 DEF Since
  <2>4. 0 \in Int /\ 0 <= newest /\ 0 <= 0
    BY <1>4
  <2> QED
    BY <1>1, <1>3, <2>1, <2>3, <2>4 DEF n, all
<1>8. CASE ~(old - Margin < 0)
  <2>1. prop_imu' = Since(all, old - Margin) /\ old - Margin \in Int
    BY <1>1, <1>4, <1>5, <1>8 DEF Cleaned
  <2>2. old - Margin <= newest
    BY <1>4, <1>5, <1>6, <1>8 DEF n
  <2>3. old - Margin <= n
    BY <1>4, <2>1, <2>2 DEF n
  <2>4. Whole(prop_imu', n)
    BY <1>3, <2>1, <2>3, WholeSince
  <2>5. ~is_initialized_vio => old - Margin = n - Window - 2 * Margin
    BY <1>4, <1>5
  <2>6. is_initialized_vio => old - Margin = MinOf(clones) - Margin /\ clones # {}
    BY <1>4, <1>5, <1>8
  <2> QED
    BY <1>1, <1>3, <2>1, <2>2, <2>4, <2>5, <2>6 DEF n, all
<1> QED
  BY <1>7, <1>8

LEMMA FeedImuBuffers ==
  ASSUME TypeOK, Threads, Pose, Buffers, FeedImu
  PROVE  Buffers'
<1>1. PICK b \in Int :
        /\ b <= newest /\ newest' = newest + 2 /\ newest' \in Samples
        /\ prop_imu' = Since(prop_imu \cup {newest'}, b)
        /\ Whole(prop_imu', newest')
        /\ ~is_initialized_vio => b <= 0 \/ b = newest' - Window - 2 * Margin
  BY FedBuffer
<1>2. newest' \in Nat /\ newest' # 0 /\ newest \in Nat /\ newest' <= LastSample
      /\ Window \in Nat /\ Margin \in Nat \ {0}
  BY <1>1, SampleValue, Numbers, VioInitAssumption DEF FeedImu
<1>3. UNCHANGED <<clones, timestamp, is_initialized_vio, tpc, thread_init_success>>
  BY DEF FeedImu
<1>4. ASSUME ~is_initialized_vio
      PROVE  /\ Whole(init_imu', newest') /\ init_imu' \subseteq prop_imu'
             /\ \A s \in init_imu' : s >= newest' - Window - Margin
  <2> DEFINE all == init_imu \cup {newest'}
             old == newest' - Window - Margin
  <2>1. Gapless(init_imu) /\ init_imu \subseteq prop_imu /\ newest \in Samples \cup {0}
    BY <1>4 DEF Buffers
  <2>2. Whole(all, newest')
    BY <1>1, <1>2, <2>1, WholeNext
  <2>3. old \in Int /\ old <= newest'
    <3>1. newest' \in Nat /\ Window \in Nat /\ Margin \in Nat
      BY <1>2
    <3>2. \A x, y, z \in Nat : x - y - z \in Int /\ x - y - z <= x
      OBVIOUS
    <3> QED
      BY <3>1, <3>2
  <2>4. init_imu' = IF old = -1 THEN all ELSE Since(all, old)
    BY <1>1, <1>4 DEF FeedImu, OldestTime
  <2>5. \A s \in all : s \in Nat
    BY <2>2, SampleValue DEF Whole
  <2> HIDE DEF all
  <2>6. init_imu' = Since(all, old)
    <3>1. old = -1 => all = Since(all, old)
      BY <2>5 DEF Since
    <3> QED
      BY <2>4, <3>1
  <2>7. Whole(init_imu', newest')
    BY <2>2, <2>3, <2>6, WholeSince
  <2>8. \A s \in init_imu' : s >= old
    BY <2>6 DEF Since
  <2>9. init_imu' \subseteq prop_imu'
    <3> SUFFICES ASSUME NEW s \in init_imu' PROVE s \in prop_imu'
      OBVIOUS
    <3>1. s \in all /\ s >= old /\ s \in Nat
      BY <2>5, <2>6 DEF Since
    <3>2. s \in prop_imu \cup {newest'}
      BY <2>1, <3>1 DEF all
    <3>3. s >= b
      BY <1>1, <1>2, <1>4, <3>1
    <3> QED
      BY <1>1, <3>2, <3>3 DEF Since
  <2> QED
    BY <2>7, <2>8, <2>9
<1>5. Gapless(prop_imu)' /\ (~is_initialized_vio => Gapless(init_imu)')
  BY <1>1, <1>2, <1>4 DEF Gapless
<1> QED
  BY <1>1, <1>3, <1>4, <1>5 DEF Buffers, HasSet

(* Whoever clones after a propagation forward keeps no clone newer than    *)
(* the state.                                                              *)
LEMMA ClonesStayOlder ==
  ASSUME TypeOK, \A c \in clones : c <= timestamp, NEW t \in ImageTimes, timestamp < t,
         PropagateAndClone(t)
  PROVE  \A c \in clones' : c <= timestamp'
<1>1. clones' \subseteq clones \cup {t} /\ timestamp' = t
  BY DEF PropagateAndClone, Marginalized
<1>2. t \in Nat /\ timestamp \in Nat /\ clones \subseteq Nat
  BY Numbers, VioInitAssumption
<1>3. \A c \in clones : c <= t
  BY <1>2
<1> QED
  BY <1>1, <1>2, <1>3

LEMMA FeederBuffers ==
  ASSUME TypeOK, Threads, Images, Pose, Buffers, Feeder
  PROVE  Buffers'
<1>1. CASE FeedImu
  BY <1>1, FeedImuBuffers
<1>2. CASE NextImage \/ CaughtUp \/ TrackImage \/ CheckRunning \/ Enqueue \/ JoinThread
  BY <1>2 DEF NextImage, CaughtUp, TrackImage, CheckRunning, Enqueue, JoinThread, Buffers, HasSet,
              Gapless
<1>3. CASE StartThread
  BY <1>3 DEF StartThread, Threads, Buffers, HasSet, Gapless
<1>4. CASE CheckSuccess
  BY <1>4 DEF CheckSuccess, Threads, Buffers, HasSet, Gapless
<1>5. CASE Update
  <2>1. \A c \in clones' : c <= timestamp'
    <3>1. CASE timestamp < image
      <4>1. image \in ImageTimes
        BY <1>5 DEF Update, Images
      <4> QED
        BY <1>5, <3>1, <4>1, ClonesStayOlder DEF Update, Buffers
    <3>2. CASE ~(timestamp < image)
      BY <1>5, <3>2 DEF Update, Buffers
    <3> QED
      BY <3>1, <3>2
  <2>2. HasSet' /\ is_initialized_vio'
    BY <1>5 DEF Update, Threads, HasSet
  <2>3. UNCHANGED imuVars
    BY <1>5 DEF Update
  <2> QED
    BY <2>1, <2>2, <2>3 DEF Buffers, Gapless
<1> QED
  BY <1>1, <1>2, <1>3, <1>4, <1>5 DEF Feeder

(* Taking old samples from the initialiser's buffer.                       *)
LEMMA InitBufferSince ==
  ASSUME TypeOK, Buffers, ~is_initialized_vio, NEW b \in Int, b <= newest
  PROVE  LET I == Since(init_imu, b)
         IN  /\ Gapless(I) /\ I \subseteq prop_imu
             /\ \A s \in I : s >= newest - Window - Margin
<1>1. Gapless(Since(init_imu, b))
  BY SinceKeepsGapless DEF Buffers
<1> QED
  BY <1>1 DEF Buffers, Since

LEMMA InitThreadBuffers ==
  ASSUME TypeOK, Threads, Images, Queue, Pose, Buffers, InitThread
  PROVE  Buffers'
<1>1. UNCHANGED <<newest, prop_imu, is_initialized_vio>> /\ tpc # "none" /\ ~is_initialized_vio
  BY InitThreadFrame DEF Threads
<1>2. CASE Initialize \/ DynamicCollect
  <2>1. MaxOf(db \cup {-1}) \in Int /\ Window \in Nat /\ Margin \in Nat /\ newest \in Nat
        /\ (MaxOf(db \cup {-1}) # -1 => MaxOf(db \cup {-1}) <= newest)
    BY NewestOfDb, Numbers, VioInitAssumption
  <2>2. \/ UNCHANGED init_imu
        \/ \E b \in Int : b <= newest /\ init_imu' = Since(init_imu, b)
    <3>1. CASE Initialize
      <4> DEFINE b == MaxOf(db \cup {-1}) - Window - Margin
      <4>1. UNCHANGED init_imu \/ init_imu' = Since(init_imu, b)
        BY <3>1 DEF Initialize
      <4>2. b \in Int /\ b <= newest
        BY <2>1
      <4> QED
        BY <4>1, <4>2
    <3>2. CASE DynamicCollect
      <4> DEFINE b == MaxOf(db \cup {-1}) - Window
      <4>1. UNCHANGED init_imu \/ init_imu' = Since(init_imu, b)
        BY <3>2 DEF DynamicCollect
      <4>2. b \in Int /\ b <= newest
        BY <2>1
      <4> QED
        BY <4>1, <4>2
    <3> QED
      BY <1>2, <3>1, <3>2
  <2>3. /\ Gapless(init_imu') /\ init_imu' \subseteq prop_imu
        /\ \A s \in init_imu' : s >= newest - Window - Margin
    BY <1>1, <2>2, InitBufferSince DEF Buffers
  <2>4. UNCHANGED <<clones, timestamp, thread_init_success>> /\ ~HasSet /\ ~HasSet'
    BY <1>2 DEF Initialize, DynamicCollect, Failed, HasSet, Threads
  <2> QED
    BY <1>1, <2>3, <2>4 DEF Buffers, Gapless
<1>3. CASE StaticInit \/ DynamicIntegrate \/ DynamicSystem \/ DynamicOptimise \/ DynamicRecover
  <2>1. UNCHANGED <<init_imu, clones, timestamp>>
    BY <1>3 DEF StaticInit, DynamicIntegrate, DynamicSystem, DynamicOptimise, DynamicRecover, Stage
  <2>2. ~HasSet
    BY <1>3 DEF StaticInit, DynamicIntegrate, DynamicSystem, DynamicOptimise, DynamicRecover, Stage,
                HasSet, Threads
  <2> QED
    BY <1>1, <2>1, <2>2 DEF Buffers, Gapless
<1>4. CASE Commit
  <2>1. ~HasSet /\ UNCHANGED <<init_imu, clones>>
    BY <1>4 DEF Commit, HasSet, Threads
  <2> QED
    BY <1>1, <2>1 DEF Buffers, Gapless
<1>5. CASE LockQueue \/ Unlock \/ EndThread
  <2>1. UNCHANGED <<init_imu, clones, timestamp>> /\ (HasSet' <=> HasSet)
    BY <1>5 DEF LockQueue, Unlock, EndThread, HasSet
  <2> QED
    BY <1>1, <2>1 DEF Buffers, Gapless
<1>6. CASE Fail
  <2>1. UNCHANGED <<init_imu, clones, timestamp>> /\ ~HasSet
    BY <1>6 DEF Fail, HasSet, Threads
  <2> QED
    BY <1>1, <2>1 DEF Buffers, Gapless
<1>7. CASE Replay
  <2>1. Head(todo) \in ImageTimes /\ timestamp < Head(todo)
    BY <1>7, TailFacts DEF Replay, Queue, TypeOK
  <2>2. \A c \in clones' : c <= timestamp'
    BY <1>7, <2>1, ClonesStayOlder DEF Replay, Buffers
  <2>3. UNCHANGED init_imu /\ HasSet'
    BY <1>7 DEF Replay, HasSet
  <2> QED
    BY <1>1, <2>2, <2>3 DEF Buffers, Gapless
<1> QED
  BY <1>2, <1>3, <1>4, <1>5, <1>6, <1>7 DEF InitThread

-----------------------------------------------------------------------------
(* The sample the next interval begins with *)

LEMMA SampleKept ==
  ASSUME NEW I, NEW top, Whole(I, top), NEW w \in I, NEW t \in Nat, w <= t, t <= top
  PROVE  \E e \in I : e <= t /\ t <= e + 1 /\ w <= e
<1>1. top \in Samples /\ top \in Nat /\ w \in Samples /\ w \in Nat /\ w >= 2
  BY SampleValue DEF Whole
<1>2. PICK e \in Samples : e <= t /\ t <= e + 1
  BY <1>1, SampleAtOrBefore
<1>3. e \in Nat
  BY SampleValue
<1>4. ~(e < w)
  BY <1>1, <1>2, <1>3, SamplesApart
<1>5. w <= e /\ e <= top
  BY <1>1, <1>2, <1>3, <1>4
<1> QED
  BY <1>2, <1>5 DEF Whole

(* The clock of a new sample leaves an anchor of the attempt or the state. *)
LEMMA FedAnchor ==
  ASSUME TypeOK, Threads, Pose, Buffers, FeedImu, Timed \/ HasSet,
         NEW t \in Nat, Anchored(t), t <= newest, HasSet => t = timestamp,
         ~is_initialized_vio => newest' - snapshot.imu <= Half
  PROVE  Anchored(t)'
<1>1. PICK b \in Int :
        /\ b <= newest /\ newest' = newest + 2 /\ newest' \in Samples
        /\ prop_imu' = Since(prop_imu \cup {newest'}, b)
        /\ ~is_initialized_vio => b <= 0 \/ b = newest' - Window - 2 * Margin
        /\ is_initialized_vio => b <= 0 \/ (b = MinOf(clones) - Margin /\ clones # {})
  BY FedBuffer
<1>2. PICK w \in prop_imu :
        w <= t /\ (~is_initialized_vio => w >= snapshot.imu - Half - 2 * Margin)
  BY DEF Anchored
<1>3. w \in Nat /\ newest # 0 /\ Whole(prop_imu, newest) /\ newest \in Nat
  BY SampleValue, Numbers DEF Buffers, Gapless, Whole
<1>4. UNCHANGED <<snapshot, is_initialized_vio>>
  BY DEF FeedImu
<1>5. Margin \in Nat /\ Margin >= 1 /\ snapshot.imu \in Nat /\ newest' \in Nat
  BY <1>1, Numbers, SampleValue, VioInitAssumption
<1>6. CASE w >= b
  <2>1. w \in prop_imu'
    BY <1>1, <1>6 DEF Since
  <2> QED
    BY <1>2, <1>4, <2>1 DEF Anchored
<1>7. CASE ~(w >= b)
  <2>1. b > w
    BY <1>3, <1>7
  <2>2. is_initialized_vio
    <3> SUFFICES ASSUME ~is_initialized_vio PROVE FALSE
      OBVIOUS
    <3>1. b = newest' - Window - 2 * Margin
      BY <1>1, <1>3, <2>1
    <3>2. w >= snapshot.imu - Half - 2 * Margin /\ newest' - snapshot.imu <= Half
      BY <1>2
    <3>3. \A n, s, h, g, v \in Nat :
            v >= s - h - 2 * g /\ n - s <= h => v >= n - 2 * h - 2 * g
      OBVIOUS
    <3>4. w >= newest' - 2 * Half - 2 * Margin
      BY <1>3, <1>5, <3>2, <3>3, HalfTwice
    <3> QED
      BY <1>7, <3>1, <3>4, HalfTwice
  <2> DEFINE m == MinOf(clones)
  <2>3. b = m - Margin /\ clones # {}
    BY <1>1, <1>3, <2>1, <2>2
  <2>4. m \in clones /\ m \in Nat
    BY <2>3, MinOfIsLeast, Numbers
  <2>5. m <= t
    BY <2>2, <2>4 DEF Buffers, Threads, HasSet
  <2> HIDE DEF m
  <2>6. w <= m /\ m <= newest
    BY <1>3, <1>5, <2>1, <2>3, <2>4, <2>5
  <2>7. PICK e \in prop_imu : e <= m /\ m <= e + 1
    BY <1>3, <2>4, <2>6, SampleKept
  <2>8. e \in Nat
    BY <1>3, SampleValue DEF Whole
  <2>9. e >= b /\ e <= t
    BY <1>5, <2>3, <2>4, <2>5, <2>7, <2>8
  <2>10. e \in prop_imu'
    BY <1>1, <2>9 DEF Since
  <2> QED
    BY <1>4, <2>2, <2>9, <2>10 DEF Anchored
<1> QED
  BY <1>6, <1>7

LEMMA FeedImuAnchor ==
  ASSUME TypeOK, Threads, Pose, Buffers, Anchor, FeedImu
  PROVE  Anchor'
<1>1. UNCHANGED <<snapshot, tpc, tTime, timestamp, is_initialized_vio, thread_init_success>>
  BY DEF FeedImu
<1>2. newest' = newest + 2 /\ newest \in Nat /\ snapshot.imu \in Nat /\ Half \in Nat
      /\ tTime \in Nat /\ timestamp \in Nat
  BY Numbers, HalfTwice DEF FeedImu
<1>3. (Timed' <=> Timed) /\ (HasSet' <=> HasSet)
  BY <1>1 DEF Timed, HasSet
<1>4. Timed \/ HasSet => snapshot.imu # 0
  BY DEF Anchor
<1>5. ASSUME Timed \/ HasSet, ~is_initialized_vio
      PROVE  late' <=> newest' - snapshot.imu > Half
  BY <1>2, <1>4, <1>5 DEF FeedImu
<1>6. ASSUME Timed \/ HasSet, ~late'
      PROVE  ~late /\ (~is_initialized_vio => newest' - snapshot.imu <= Half)
  <2>1. CASE is_initialized_vio
    BY <1>6, <2>1 DEF FeedImu
  <2>2. CASE ~is_initialized_vio
    <3>1. ~(newest' - snapshot.imu > Half)
      BY <1>5, <1>6, <2>2
    <3>2. newest' - snapshot.imu <= Half /\ ~(newest - snapshot.imu > Half)
      BY <1>2, <3>1
    <3>3. late <=> newest - snapshot.imu > Half
      BY <1>6, <2>2 DEF Anchor
    <3> QED
      BY <3>2, <3>3
  <2> QED
    BY <2>1, <2>2
<1>7. ASSUME Timed, ~late' PROVE Anchored(tTime)'
  <2>1. ~HasSet
    BY <1>7 DEF Timed, HasSet, Threads
  <2>2. Anchored(tTime) /\ tTime <= newest
    BY <1>6, <1>7 DEF Anchor, Pose
  <2>3. ~late /\ (~is_initialized_vio => newest' - snapshot.imu <= Half)
    BY <1>6, <1>7
  <2> QED
    BY <1>1, <1>2, <1>7, <2>1, <2>2, <2>3, FedAnchor DEF Anchored
<1>8. ASSUME HasSet, ~late' PROVE Anchored(timestamp)'
  <2>1. ~late /\ (~is_initialized_vio => newest' - snapshot.imu <= Half)
    BY <1>6, <1>8
  <2>2. Anchored(timestamp) /\ timestamp <= newest
    BY <1>8, <2>1 DEF Anchor, Pose
  <2> QED
    BY <1>1, <1>2, <1>8, <2>1, <2>2, FedAnchor DEF Anchored
<1> QED
  BY <1>1, <1>3, <1>4, <1>5, <1>7, <1>8 DEF Anchor

(* A propagation forward begins no earlier than the one before.            *)
LEMMA AnchorGoesOn ==
  ASSUME TypeOK, Anchored(timestamp), NEW t \in Nat, timestamp < t, Buffers,
         UNCHANGED <<prop_imu, snapshot, is_initialized_vio>>
  PROVE  Anchored(t)
<1>1. PICK w \in prop_imu :
        w <= timestamp /\ (~is_initialized_vio => w >= snapshot.imu - Half - 2 * Margin)
  BY DEF Anchored
<1>2. w \in Nat /\ timestamp \in Nat
  BY <1>1, SampleValue, Numbers DEF Buffers, Gapless, Whole
<1>3. w <= t
  BY <1>1, <1>2
<1> QED
  BY <1>1, <1>3 DEF Anchored

LEMMA FeederAnchor ==
  ASSUME TypeOK, Threads, Images, Pose, Buffers, Anchor, Feeder
  PROVE  Anchor'
<1>1. CASE FeedImu
  BY <1>1, FeedImuAnchor
<1>2. CASE NextImage \/ CaughtUp \/ TrackImage \/ CheckRunning \/ Enqueue \/ JoinThread
  <2>1. UNCHANGED <<imuVars, snapshot, late, tpc, tTime, timestamp, is_initialized_vio,
                    thread_init_success>>
    BY <1>2 DEF NextImage, CaughtUp, TrackImage, CheckRunning, Enqueue, JoinThread
  <2> QED
    BY <2>1 DEF Anchor, Timed, HasSet, Anchored
<1>3. CASE CheckSuccess
  <2>1. UNCHANGED <<imuVars, snapshot, late, tpc, tTime, timestamp, thread_init_success>>
        /\ tpc = "none" /\ ~is_initialized_vio
    BY <1>3 DEF CheckSuccess, Threads
  <2> QED
    BY <2>1 DEF Anchor, Timed, HasSet, Anchored
<1>4. CASE StartThread
  <2>1. UNCHANGED <<imuVars, snapshot, late, tTime, timestamp, is_initialized_vio,
                    thread_init_success>>
        /\ tpc' = "initialize" /\ ~thread_init_success
    BY <1>4 DEF StartThread, Threads
  <2> QED
    BY <2>1 DEF Anchor, Timed, HasSet, Anchored
<1>5. CASE Update
  <2>1. UNCHANGED <<imuVars, snapshot, late, tpc, tTime, is_initialized_vio,
                    thread_init_success>>
        /\ tpc = "none" /\ is_initialized_vio /\ image \in Nat /\ HasSet
    BY <1>5, Numbers DEF Update, Threads, HasSet, PropagateAndClone
  <2>2. ~late => Anchored(timestamp')
    <3>1. CASE timestamp < image
      BY <1>5, <2>1, <3>1, AnchorGoesOn DEF Update, PropagateAndClone, Anchor
    <3>2. CASE ~(timestamp < image)
      BY <1>5, <2>1, <3>2 DEF Update, Anchor
    <3> QED
      BY <3>1, <3>2
  <2> QED
    BY <2>1, <2>2 DEF Anchor, Timed, HasSet, Anchored
<1> QED
  BY <1>1, <1>2, <1>3, <1>4, <1>5 DEF Feeder

(* Either method finds a sample no older than half a window, and twice the *)
(* margin, at or before the time it initialises at.                        *)
LEMMA StaticAnchor ==
  ASSUME TypeOK, Threads, Buffers, StaticInit, tpc' = "commit"
  PROVE  \E w \in prop_imu : w <= tTime' /\ w >= newest - Half - 2 * Margin
<1> DEFINE n == MaxOf(init_imu)
<1>1. /\ n = newest /\ newest # 0 /\ init_imu \subseteq prop_imu /\ Whole(init_imu, newest)
      /\ OlderHalf(n) # {}
      /\ tTime' \in OlderHalf(n) /\ \A s \in OlderHalf(n) : s <= tTime'
      /\ tTime' \in Nat
  BY StaticTime
<1> HIDE DEF n
<1>2. newest \in Nat /\ Half \in Nat /\ Margin \in Nat /\ Margin >= 1
  BY Numbers, HalfTwice, VioInitAssumption
<1>3. tTime' \in init_imu /\ tTime' > newest - Window /\ tTime' <= newest - Half
  BY <1>1 DEF OlderHalf
<1>4. newest - Half \in Nat /\ newest - Half <= newest
  BY <1>1, <1>2, <1>3
<1>5. PICK e \in init_imu : e <= newest - Half /\ newest - Half <= e + 1 /\ tTime' <= e
  BY <1>1, <1>3, <1>4, SampleKept
<1>6. e \in Nat
  BY <1>1, SampleValue DEF Whole
<1>7. e \in OlderHalf(n)
  <2>1. e > newest - Window
    BY <1>1, <1>2, <1>3, <1>5, <1>6, HalfTwice
  <2> QED
    BY <1>1, <1>5, <2>1 DEF OlderHalf
<1>8. e <= tTime'
  BY <1>1, <1>7
<1>9. e >= newest - Half - 2 * Margin
  <2>1. \A h, g, v \in Nat, m \in Nat : g >= 1 /\ m - h <= v + 1 => v >= m - h - 2 * g
    OBVIOUS
  <2> QED
    BY <1>2, <1>5, <1>6, <2>1
<1> QED
  BY <1>1, <1>8, <1>9

LEMMA DynamicAnchor ==
  ASSUME TypeOK, Threads, Images, Buffers, DynamicCollect, tpc' = "integrate"
  PROVE  newest # 0 /\ \E w \in prop_imu : w <= tTime' /\ w >= newest - Half - 2 * Margin
<1>1. /\ tTime' = tCam' /\ tCam' \in Nat /\ tCam' <= newest
      /\ init_imu' = Since(init_imu, tCam' - Window) /\ init_imu' # init_imu
  BY DynamicTime
<1>2. PICK s \in init_imu : ~(s >= tCam' - Window)
  BY <1>1 DEF Since
<1>3. newest # 0 /\ Whole(init_imu, newest) /\ init_imu \subseteq prop_imu
      /\ s >= newest - Window - Margin
  BY <1>2 DEF Buffers, Gapless, DynamicCollect, Threads
<1>4. newest \in Nat /\ Half \in Nat /\ Window \in Nat /\ Margin \in Nat /\ Margin >= 1 /\ s \in Nat
  BY <1>3, SampleValue, Numbers, HalfTwice, VioInitAssumption DEF Whole
<1>5. s <= tCam' /\ newest < tCam' + Margin
  <2>1. \A o, t, h, g, m \in Nat :
          ~(o >= t - h) /\ o >= m - h - g => o <= t /\ m < t + g
    OBVIOUS
  <2> QED
    BY <1>1, <1>2, <1>3, <1>4, <2>1
<1>6. PICK e \in init_imu : e <= tCam' /\ tCam' <= e + 1
  BY <1>1, <1>3, <1>5, SampleKept
<1>7. e \in Nat
  BY <1>3, SampleValue DEF Whole
<1>8. e >= newest - Half - 2 * Margin
  <2>1. \A h, g, v, m, t \in Nat : m < t + g /\ t <= v + 1 => v >= m - h - 2 * g
    OBVIOUS
  <2> QED
    BY <1>1, <1>4, <1>5, <1>6, <1>7, <2>1
<1> QED
  BY <1>1, <1>3, <1>6, <1>8

LEMMA InitThreadAnchor ==
  ASSUME TypeOK, Threads, Images, Queue, Pose, Buffers, Anchor, InitThread
  PROVE  Anchor'
<1>1. UNCHANGED <<newest, prop_imu, is_initialized_vio>> /\ tpc # "none" /\ ~is_initialized_vio
  BY InitThreadFrame DEF Threads
<1>2. newest \in Nat /\ Half \in Nat
  BY Numbers, HalfTwice
<1> USE DEF Anchor, Timed, HasSet
<1>3. CASE Initialize \/ Fail
  BY <1>3 DEF Initialize, Fail, Threads
<1>4. CASE StaticInit
  <2>1. ~thread_init_success /\ ~thread_init_success' /\ tpc' \in {"failed", "commit"}
    BY <1>4 DEF StaticInit, Threads, Failed
  <2>2. CASE tpc' = "commit"
    <3>1. newest # 0 /\ Snapshot
      BY <1>4, <2>2, StaticTime
    <3>2. snapshot'.imu = newest /\ ~late' /\ ~(newest - newest > Half)
      BY <1>2, <3>1 DEF Snapshot
    <3>3. Anchored(tTime)'
      BY <1>1, <1>4, <2>2, <3>2, StaticAnchor DEF Anchored
    <3> QED
      BY <1>1, <2>1, <2>2, <3>1, <3>2, <3>3
  <2>3. CASE tpc' # "commit"
    BY <2>1, <2>3
  <2> QED
    BY <2>2, <2>3
<1>5. CASE DynamicCollect
  <2>1. ~thread_init_success /\ ~thread_init_success' /\ tpc' \in {"failed", "integrate"}
    BY <1>5 DEF DynamicCollect, Threads, Failed
  <2>2. CASE tpc' = "integrate"
    <3>1. newest # 0 /\ Snapshot
      BY <1>5, <2>2, DynamicTime, DynamicAnchor
    <3>2. snapshot'.imu = newest /\ ~late' /\ ~(newest - newest > Half)
      BY <1>2, <3>1 DEF Snapshot
    <3>3. Anchored(tTime)'
      BY <1>1, <1>5, <2>2, <3>2, DynamicAnchor DEF Anchored
    <3> QED
      BY <1>1, <2>1, <2>2, <3>1, <3>2, <3>3
  <2>3. CASE tpc' # "integrate"
    BY <2>1, <2>3
  <2> QED
    BY <2>2, <2>3
<1>6. CASE DynamicIntegrate \/ DynamicSystem \/ DynamicOptimise \/ DynamicRecover
  <2>1. tpc \in {"integrate", "system", "optimise", "recover"} /\ ~thread_init_success
        /\ tpc' \in {"system", "optimise", "recover", "commit", "failed"}
    BY <1>6 DEF DynamicIntegrate, DynamicSystem, DynamicOptimise, DynamicRecover, Stage, Failed,
                Threads
  <2>2. UNCHANGED <<tTime, snapshot, late, thread_init_success>>
    BY <1>6 DEF DynamicIntegrate, DynamicSystem, DynamicOptimise, DynamicRecover, Stage, Failed
  <2> QED
    BY <1>1, <2>1, <2>2 DEF Anchored
<1>7. CASE Commit
  <2>1. timestamp' = tTime /\ tpc' = "lock" /\ tpc = "commit"
        /\ UNCHANGED <<tTime, snapshot, late, thread_init_success>>
    BY <1>7 DEF Commit
  <2> QED
    BY <1>1, <2>1 DEF Anchored
<1>8. CASE LockQueue \/ Unlock \/ EndThread
  <2>1. UNCHANGED <<timestamp, snapshot, late>>
    BY <1>8 DEF LockQueue, Unlock, EndThread
  <2>2. (HasSet' <=> HasSet) /\ ~Timed' /\ ~Timed
    BY <1>8 DEF LockQueue, Unlock, EndThread
  <2> QED
    BY <1>1, <2>1, <2>2 DEF Anchored
<1>9. CASE Replay
  <2>1. Head(todo) \in Nat /\ timestamp < Head(todo)
    <3>1. Head(todo) \in ImageTimes /\ timestamp < Head(todo)
      BY <1>9, TailFacts DEF Replay, Queue, TypeOK
    <3> QED
      BY <3>1, VioInitAssumption
  <2>2. timestamp' = Head(todo) /\ tpc = "replay" /\ UNCHANGED <<tpc, snapshot, late>>
    BY <1>9 DEF Replay, PropagateAndClone
  <2>3. ~late => Anchored(Head(todo))
    BY <1>1, <2>1, <2>2, AnchorGoesOn
  <2> QED
    BY <1>1, <2>2, <2>3 DEF Anchored
<1> QED
  BY <1>3, <1>4, <1>5, <1>6, <1>7, <1>8, <1>9 DEF InitThread

-----------------------------------------------------------------------------
(* The readings of a propagation *)

LEMMA PropagationIsCovered ==
  ASSUME TypeOK, Buffers, Anchor, HasSet, NEW t \in ImageTimes, timestamp < t, t <= newest,
         PropagateAndClone(t)
  PROVE  ImuCoversInterval'
<1>1. last' = [from |-> timestamp, to |-> t, imu |-> prop_imu, late |-> late]
  BY DEF PropagateAndClone
<1>2. ASSUME ~late
      PROVE  Select(prop_imu, timestamp, t) = Wanted(prop_imu, timestamp, t)
  <2>1. PICK w \in prop_imu : w <= timestamp
    BY <1>2 DEF Anchor, Anchored
  <2>2. Whole(prop_imu, newest)
    BY <2>1 DEF Buffers, Gapless
  <2>3. timestamp \in Int /\ t \in Int
    BY Numbers, VioInitAssumption
  <2> QED
    BY <2>1, <2>2, <2>3, SelectIsWanted
<1> QED
  BY <1>1, <1>2 DEF ImuCoversInterval

LEMMA NextCovers ==
  ASSUME TypeOK, Threads, Images, Queue, Pose, Buffers, Anchor, ImuCoversInterval, Next
  PROVE  ImuCoversInterval'
<1>1. CASE Update
  <2>1. HasSet /\ image \in ImageTimes /\ image <= newest
    BY <1>1 DEF Update, Threads, Images, HasSet
  <2>2. CASE timestamp < image
    BY <1>1, <2>1, <2>2, PropagationIsCovered DEF Update
  <2>3. CASE ~(timestamp < image)
    BY <1>1, <2>3 DEF Update, ImuCoversInterval
  <2> QED
    BY <2>2, <2>3
<1>2. CASE Replay
  <2>1. Head(todo) \in ImageTimes /\ timestamp < Head(todo) /\ Head(todo) <= newest
    BY <1>2, TailFacts DEF Replay, Queue, TypeOK
  <2>2. HasSet /\ PropagateAndClone(Head(todo))
    BY <1>2 DEF Replay, HasSet
  <2> QED
    BY <2>1, <2>2, PropagationIsCovered
<1>3. CASE ~(Update \/ Replay)
  <2>1. UNCHANGED last
    BY <1>3 DEF Next, Feeder, InitThread, NextImage, FeedImu, CaughtUp, TrackImage, CheckRunning,
         Enqueue, CheckSuccess, StartThread, JoinThread, Initialize, StaticInit, DynamicCollect,
         DynamicIntegrate, DynamicSystem, DynamicOptimise, DynamicRecover, Stage, Commit,
         LockQueue, Unlock, Fail, EndThread
  <2> QED
    BY <2>1 DEF ImuCoversInterval
<1> QED
  BY <1>1, <1>2, <1>3

-----------------------------------------------------------------------------
(* The specification *)

LEMMA InitInv ==
  ASSUME Init
  PROVE  VioInv
<1> USE DEF Init
<1>1. TypeOK
  <2>1. snapshot \in [imu : 0 .. LastSample, image : ImageTimes \cup {0}]
    BY VioInitAssumption
  <2>2. last \in [from : Times \cup {0}, to : Times \cup {0}, imu : SUBSET (1 .. LastSample),
                  late : BOOLEAN]
    OBVIOUS
  <2>3. newest \in 0 .. LastSample /\ prop_imu \subseteq 1 .. LastSample
        /\ init_imu \subseteq 1 .. LastSample
    BY VioInitAssumption
  <2>4. todo \in Seq(ImageTimes) /\ camera_queue_init \in Seq(ImageTimes)
    BY EmptySeq
  <2>5. tCam \in ImageTimes \cup {-1} /\ tTime \in Times \cup {0} /\ imu_value \in Times \cup {0}
        /\ timestamp \in Times \cup {0} /\ clones \subseteq ImageTimes
        /\ image \in ImageTimes \cup {0} /\ db \subseteq ImageTimes
    OBVIOUS
  <2>6. multi_threading_subs \in Modes /\ mtx \in {"free", "init"}
        /\ pc \in {"pop"} /\ tpc \in {"none"}
        /\ thread_init_running \in BOOLEAN /\ thread_init_success \in BOOLEAN
        /\ is_initialized_vio \in BOOLEAN /\ late \in BOOLEAN
    OBVIOUS
  <2> HIDE DEF Init
  <2> QED
    BY <2>1, <2>2, <2>3, <2>4, <2>5, <2>6 DEF TypeOK
<1>2. Threads /\ Images /\ Pose
  BY DEF Threads, Images, Pose, Timed, HasSet
<1>3. Queue
  BY EmptySeq DEF Queue, Increasing, Arrived
<1>4. Buffers /\ Anchor /\ ImuCoversInterval
  BY DEF Buffers, Gapless, Anchor, ImuCoversInterval, Timed, HasSet
<1> QED
  BY <1>1, <1>2, <1>3, <1>4 DEF VioInv

LEMMA NextInv ==
  ASSUME VioInv, Next
  PROVE  VioInv'
<1> USE DEF VioInv
<1>1. CASE Feeder
  <2>1. TypeOK' /\ Threads' /\ Images'
    BY <1>1, FeederTypes, FeederThreads, FeederImages
  <2>2. Queue' /\ Pose'
    BY <1>1, FeederQueue, FeederPose
  <2>3. Buffers' /\ Anchor'
    BY <1>1, FeederBuffers, FeederAnchor
  <2> QED
    BY <2>1, <2>2, <2>3, NextCovers
<1>2. CASE InitThread
  <2>1. TypeOK' /\ Threads' /\ Images'
    BY <1>2, InitThreadTypes, InitThreadThreads, InitThreadImages
  <2>2. Queue' /\ Pose'
    BY <1>2, InitThreadQueue, InitThreadPose
  <2>3. Buffers' /\ Anchor'
    BY <1>2, InitThreadBuffers, InitThreadAnchor
  <2> QED
    BY <2>1, <2>2, <2>3, NextCovers
<1> QED
  BY <1>1, <1>2 DEF Next

LEMMA StutterInv ==
  ASSUME VioInv, UNCHANGED vars
  PROVE  VioInv'
BY DEF VioInv, vars, TypeOK, Threads, Images, Queue, Pose, Buffers, Anchor, ImuCoversInterval,
       Timed, HasSet, Increasing, Arrived, Ahead, Gapless, Whole, Anchored

LEMMA InvHolds == Spec => []VioInv
<1>1. Init => VioInv
  BY InitInv
<1>2. VioInv /\ [Next]_vars => VioInv'
  BY NextInv, StutterInv
<1> QED
  BY <1>1, <1>2, PTL DEF Spec

(* Every variable of the two threads keeps its type, the times of state    *)
(* and attempt being those of images and IMU samples.                      *)
THEOREM TypeCorrect == Spec => []TypeOK
<1>1. VioInv => TypeOK
  BY DEF VioInv
<1> QED
  BY <1>1, InvHolds, PTL

(* thread_init_running and thread_init_success keep the threads of         *)
(* try_to_initialize and feed_measurement_camera from working on the state *)
(* at the same time, with no lock around it.                               *)
THEOREM OneOwner == Spec => []StateHasOneOwner
<1>1. VioInv => StateHasOneOwner
  BY DEF VioInv, Threads, StateHasOneOwner
<1> QED
  BY <1>1, InvHolds, PTL

(* The pose that recover leaves behind when it fails later is never        *)
(* propagated as if it were that of _timestamp.                            *)
THEOREM PoseAndTimeTogether == Spec => []PoseMatchesTime
<1>1. VioInv => PoseMatchesTime
  BY DEF VioInv, Threads, Pose, HasSet, PoseMatchesTime
<1> QED
  BY <1>1, InvHolds, PTL

(* The images replayed after an initialisation are in order and newer than *)
(* the state, and the image that takes the result up is not older, unless  *)
(* the IMU data were ahead of the images by more than half a window.       *)
THEOREM ReplayGoesForward == Spec => []ImagesGoForward
<1>1. VioInv => ImagesGoForward
  BY DEF VioInv, Threads, Queue, Increasing, Pose, HasSet, Ahead, ImagesGoForward
<1> QED
  BY <1>1, InvHolds, PTL

(* select_imu_readings finds the readings of every interval that           *)
(* propagate_and_clone asks for, whatever has been cleaned up meanwhile,   *)
(* when no more than half a window of IMU data came during the attempt.    *)
THEOREM NoReadingIsMissing == Spec => []ImuCoversInterval
<1>1. VioInv => ImuCoversInterval
  BY DEF VioInv
<1> QED
  BY <1>1, InvHolds, PTL

=============================================================================
