----------------------------- MODULE ImuReadings -----------------------------
(***************************************************************************)
(* Propagator::select_imu_readings: the readings that integrate the IMU    *)
(* from time0 to time1.  A buffer is the set of its timestamps (samples    *)
(* arrive in time order and a time is never repeated), and so is the       *)
(* result; interpolated readings are told apart by their time alone.       *)
(***************************************************************************)
EXTENDS Integers

(* Consecutive samples of a buffer: imu_data.at(i) and imu_data.at(i + 1). *)
Steps(I) == {p \in I \X I : p[1] < p[2] /\ ~\E s \in I : p[1] < s /\ s < p[2]}

(* CASE 1: the interval starts strictly inside this step. *)
StartsIn(p, time0) == p[1] < time0 /\ time0 < p[2]

Inside_Open(p, time0, time1) == p[1] > time0 /\ p[2] <= time1
(* CASE 2: the whole step lies in the interval. *)
Inside(p, time0, time1) == p[1] >= time0 /\ p[2] <= time1

(* CASE 3: the first step past the end that is neither of the two ends the *)
(* loop.                                                                   *)
Passes(p, time0, time1) ==
  ~StartsIn(p, time0) /\ ~Inside(p, time0, time1) /\ p[2] > time1
EndsIn(I, time0, time1) ==
  {p \in Steps(I) : Passes(p, time0, time1)
                    /\ \A q \in Steps(I) : Passes(q, time0, time1) => p[1] <= q[1]}

(* Readings of the last step: nothing if the buffer starts after the       *)
(* interval, else the sample itself if it is in time, and the end.         *)
Cut(I, p, time1) ==
  IF p[1] > time1 /\ \A s \in I : p[1] <= s THEN {}
  ELSE (IF p[1] > time1 THEN {} ELSE {p[1]}) \cup {time1}

(* What the loop collects. *)
Collected(I, time0, time1) ==
  {time0 : p \in {q \in Steps(I) : StartsIn(q, time0)}}
    \cup {p[1] : p \in {q \in Steps(I) : ~StartsIn(q, time0) /\ Inside(q, time0, time1)}}
    \cup UNION {Cut(I, p, time1) : p \in EndsIn(I, time0, time1)}

(* If the buffer ends early the last reading is stretched to time1. *)
Select(I, time0, time1) ==
  LET got == Collected(I, time0, time1) IN IF got = {} THEN {} ELSE got \cup {time1}

(* Reference: the ends of the interval and every sample between them that  *)
(* has a successor.                                                        *)
Wanted(I, time0, time1) ==
  {time0, time1} \cup {s \in I : time0 < s /\ s < time1 /\ \E u \in I : u > s}
=============================================================================
