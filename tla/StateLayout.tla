----------------------------- MODULE StateLayout -----------------------------
(***************************************************************************)
(* Where each variable of the filter's state lives in the covariance:      *)
(* the constructor of State and the operations of StateHelper that add,    *)
(* copy and remove variables, called in any order their callers allow.     *)
(*                                                                         *)
(* Every operation treats rows and columns of _Cov alike, so the           *)
(* covariance is modelled by its rows: rows[i] names the component         *)
(* <<variable, k>> of the error state that row and column i are about.     *)
(* Rows are counted from 1, ids from 0 as in the code.  The IMU is the     *)
(* first variable and never moves, and neither do its parts; those of a    *)
(* pose follow it (set_local_id).  Values, Jacobians and the tests for     *)
(* negative diagonals are left out; EKFUpdate changes values only.  Images *)
(* come in order, as the main loop delivers them (FramesInOrder of         *)
(* VinsMain); what others do to the clones is modelled in SlidingWindow.   *)
(***************************************************************************)
EXTENDS Integers, FiniteSets, Sequences

CONSTANTS
  ImageTimes,   \* times of the images
  Features,     \* ids of the features that may become landmarks
  Arucos,       \* those among them that marginalize_slam spares
  LandmarkSize, \* 3 or 1 for each feature, by its representation
  OptionSets,   \* the values of StateOptions to consider
  MaxCameras    \* bound on num_cameras

StateOptions == [do_calib_imu_intrinsics : BOOLEAN, do_calib_imu_g_sensitivity : BOOLEAN,
                 kalibr : BOOLEAN, do_calib_camera_timeoffset : BOOLEAN,
                 do_calib_camera_pose : BOOLEAN, do_calib_camera_intrinsics : BOOLEAN,
                 num_cameras : 1 .. MaxCameras, max_clone_size : Nat]

ASSUME LayoutAssumption ==
  /\ ImageTimes \subseteq Nat \ {0}
  /\ Features \subseteq Nat /\ Arucos \subseteq Features
  /\ LandmarkSize \in [Features -> {1, 3}]
  /\ MaxCameras \in Nat \ {0}
  /\ OptionSets \subseteq StateOptions

VARIABLES
  options,     \* _options, fixed
  at,          \* the next variable of the constructor, AtEnd once it is done
  id,          \* _id of every variable, -1 outside the state
  variables,   \* _variables
  cov_rows, rows,
  timestamp, clones, landmarks,  \* _timestamp (0 stands for -1), _clones_IMU, _features_SLAM
  exited       \* std::exit was called

vars == <<options, at, id, variables, cov_rows, rows, timestamp, clones, landmarks, exited>>

-----------------------------------------------------------------------------
(* Variables: those of the constructor are numbered in its order. *)

IMU == <<"base", 1>>
DW  == <<"base", 2>>
DA  == <<"base", 3>>
TG  == <<"base", 4>>
GYROtoIMU == <<"base", 5>>
ACCtoIMU  == <<"base", 6>>
DT == <<"base", 7>>
(* Numbers 8 + 2 i and 9 + 2 i: pose and intrinsics of camera i. *)
IsPose(n) == n >= 8 /\ n % 2 = 0
Camera(n) == (n - 8) \div 2

AtEnd  == 8 + 2 * MaxCameras
Base   == {"base"} \X (1 .. AtEnd - 1)
Clone(t)    == <<"clone", t>>
Landmark(f) == <<"feat", f>>
Variables == Base \cup ({"clone"} \X ImageTimes) \cup ({"feat"} \X Features)

Size(v) ==
  CASE v[1] = "clone" -> 6
    [] v[1] = "feat"  -> LandmarkSize[v[2]]
    [] v = IMU -> 15
    [] v \in {DW, DA} -> 6
    [] v = TG -> 9
    [] v \in {GYROtoIMU, ACCtoIMU} -> 3
    [] v = DT -> 1
    [] v[1] = "base" /\ v[2] >= 8 -> IF IsPose(v[2]) THEN 6 ELSE 8

(* Which of them the options ask for. *)
Estimated(n) ==
  CASE n = 1 -> TRUE
    [] n \in {2, 3} -> options.do_calib_imu_intrinsics
    [] n = 4 -> options.do_calib_imu_intrinsics /\ options.do_calib_imu_g_sensitivity
    [] n = 5 -> options.do_calib_imu_intrinsics /\ options.kalibr
    [] n = 6 -> options.do_calib_imu_intrinsics /\ ~options.kalibr
    [] n = 7 -> options.do_calib_camera_timeoffset
    [] n >= 8 -> /\ Camera(n) < options.num_cameras
                 /\ IF IsPose(n) THEN options.do_calib_camera_pose
                    ELSE options.do_calib_camera_intrinsics

-----------------------------------------------------------------------------
(* StateHelper *)

(* A new variable behind all others. *)
Push(v) ==
  /\ id' = [id EXCEPT ![v] = cov_rows]
  /\ variables' = variables \cup {v}
  /\ cov_rows' = cov_rows + Size(v)
  /\ rows' = [i \in 1 .. cov_rows + Size(v) |-> IF i <= cov_rows THEN rows[i] ELSE <<v, i - cov_rows>>]

(* The component of the clone that a copy of this one becomes. *)
AsClone(v, c) == IF c[1] = IMU /\ c[2] <= Size(v) THEN <<v, c[2]>> ELSE c

(* clone of _imu->pose(), which starts where the IMU does. *)
ClonePose(v) ==
  /\ id' = [id EXCEPT ![v] = cov_rows]
  /\ variables' = variables \cup {v}
  /\ cov_rows' = cov_rows + Size(v)
  /\ rows' = [i \in 1 .. cov_rows + Size(v) |->
                IF i <= cov_rows THEN rows[i] ELSE AsClone(v, rows[id[IMU] + i - cov_rows])]

Shifted_All(marg) == {v \in variables : v # marg}
(* What moves when marg is removed. *)
Shifted(marg) == {v \in variables \ {marg} : id[v] > id[marg]}

MovedFrom_OneOff(marg, i) == IF i < id[marg] THEN i ELSE i + Size(marg)
(* The row that becomes row i. *)
MovedFrom(marg, i) == IF i <= id[marg] THEN i ELSE i + Size(marg)

Marginalize(marg) ==
  IF marg \notin variables
  THEN exited' = TRUE /\ UNCHANGED <<id, variables, cov_rows, rows>>
  ELSE /\ cov_rows' = cov_rows - Size(marg)
       /\ rows' = [i \in 1 .. cov_rows - Size(marg) |-> rows[MovedFrom(marg, i)]]
       /\ id' = [v \in Variables |-> IF v = marg THEN -1
                                     ELSE IF v \in Shifted(marg) THEN id[v] - Size(marg) ELSE id[v]]
       /\ variables' = variables \ {marg}
       /\ UNCHANGED exited

(* EKFPropagation ends the process unless its variables follow each other. *)
Contiguous(order) ==
  \A i \in 1 .. Len(order) - 1 : id[order[i]] + Size(order[i]) = id[order[i + 1]]

-----------------------------------------------------------------------------
(* The constructor of State takes up one variable after the other. *)
Construct ==
  /\ at < AtEnd
  /\ at' = at + 1
  /\ IF Estimated(at) THEN Push(<<"base", at>>)
     ELSE UNCHANGED <<id, variables, cov_rows, rows>>
  /\ UNCHANGED <<options, timestamp, clones, landmarks, exited>>

Running == at = AtEnd /\ ~exited

(* The initialiser overwrites the block of the IMU and sets the time. *)
SetInitialCovariance ==
  /\ Running /\ timestamp = 0
  /\ timestamp' \in ImageTimes
  /\ UNCHANGED <<options, at, id, variables, cov_rows, rows, clones, landmarks, exited>>

PhiOrder_TgLast ==
  IF ~options.do_calib_imu_intrinsics THEN <<IMU>>
  ELSE <<IMU, DW, DA>> \o (IF options.kalibr THEN <<GYROtoIMU>> ELSE <<ACCtoIMU>>)
       \o (IF options.do_calib_imu_g_sensitivity THEN <<TG>> ELSE <<>>)

(* The variables that Propagator::propagate_and_clone propagates. *)
PhiOrder ==
  IF ~options.do_calib_imu_intrinsics THEN <<IMU>>
  ELSE <<IMU, DW, DA>> \o (IF options.do_calib_imu_g_sensitivity THEN <<TG>> ELSE <<>>)
       \o (IF options.kalibr THEN <<GYROtoIMU>> ELSE <<ACCtoIMU>>)

(* propagate_and_clone of an image's time with augment_clone in it; the    *)
(* caller has seen to it that the time is new.                             *)
PropagateAndClone(t) ==
  /\ Running /\ timestamp # 0 /\ t > timestamp
  /\ IF ~Contiguous(PhiOrder)
     THEN exited' = TRUE /\ UNCHANGED <<id, variables, cov_rows, rows, timestamp, clones>>
     ELSE /\ timestamp' = t
          /\ IF t \in clones
             THEN exited' = TRUE /\ UNCHANGED <<id, variables, cov_rows, rows, clones>>
             ELSE ClonePose(Clone(t)) /\ clones' = clones \cup {t} /\ UNCHANGED exited
  /\ UNCHANGED <<options, at, landmarks>>

(* A zero velocity update moves the time and adds no clone. *)
ZeroVelocity(t) ==
  /\ Running /\ timestamp # 0 /\ t > timestamp
  /\ timestamp' = t
  /\ UNCHANGED <<options, at, id, variables, cov_rows, rows, clones, landmarks, exited>>

Initialize_InsertsRefused(f) ==
  /\ Running /\ clones # {} /\ f \notin landmarks
  /\ IF Landmark(f) \in variables
     THEN exited' = TRUE /\ UNCHANGED <<id, variables, cov_rows, rows, landmarks>>
     ELSE /\ \/ Push(Landmark(f))
             \/ UNCHANGED <<id, variables, cov_rows, rows>>
          /\ landmarks' = landmarks \cup {f}
          /\ UNCHANGED exited
  /\ UNCHANGED <<options, at, timestamp, clones>>

(* StateHelper::initialize of a new landmark, with what delayed_init does  *)
(* with its answer: the landmark gets its rows and its entry in the map,   *)
(* or fails the chi-square test and gets neither.  The code asks whether   *)
(* the object is in the state, here it is whether the feature is.          *)
Initialize(f) ==
  /\ Running /\ clones # {} /\ f \notin landmarks
  /\ IF Landmark(f) \in variables
     THEN exited' = TRUE /\ UNCHANGED <<id, variables, cov_rows, rows, landmarks>>
     ELSE /\ \/ Push(Landmark(f)) /\ landmarks' = landmarks \cup {f}
             \/ UNCHANGED <<id, variables, cov_rows, rows, landmarks>>
          /\ UNCHANGED exited
  /\ UNCHANGED <<options, at, timestamp, clones>>

(* One landmark of marginalize_slam. *)
MarginalizeSlam(f) ==
  /\ Running /\ f \in landmarks \ Arucos
  /\ Marginalize(Landmark(f))
  /\ landmarks' = landmarks \ {f}
  /\ UNCHANGED <<options, at, timestamp, clones>>

MarginalizeOldClone ==
  /\ Running /\ Cardinality(clones) > options.max_clone_size
  /\ \E t \in clones : /\ \A c \in clones : t <= c
                       /\ Marginalize(Clone(t))
                       /\ clones' = clones \ {t}
  /\ UNCHANGED <<options, at, timestamp, landmarks>>

Init ==
  /\ options \in OptionSets
  /\ at = 1
  /\ id = [v \in Variables |-> -1]
  /\ variables = {} /\ cov_rows = 0 /\ rows = [i \in 1 .. 0 |-> <<IMU, 1>>]
  /\ timestamp = 0 /\ clones = {} /\ landmarks = {}
  /\ exited = FALSE

Next == \/ Construct \/ SetInitialCovariance
        \/ \E t \in ImageTimes : PropagateAndClone(t) \/ ZeroVelocity(t)
        \/ \E f \in Features : Initialize(f) \/ MarginalizeSlam(f)
        \/ MarginalizeOldClone

Spec == Init /\ [][Next]_vars

-----------------------------------------------------------------------------
(* Properties *)

Components == UNION {{v} \X (1 .. Size(v)) : v \in Variables}

TypeOK ==
  /\ options \in OptionSets /\ at \in 1 .. AtEnd
  /\ id \in [Variables -> Nat \cup {-1}] /\ variables \subseteq Variables
  /\ cov_rows \in Nat /\ rows \in [1 .. cov_rows -> Components]
  /\ timestamp \in ImageTimes \cup {0} /\ clones \subseteq ImageTimes
  /\ landmarks \subseteq Features /\ exited \in BOOLEAN

(* The block [id, id + size) of a variable, which every update and every   *)
(* Jacobian goes by, ...                                                   *)
BlocksBelong ==
  \A v \in variables : /\ id[v] >= 0 /\ id[v] + Size(v) <= cov_rows
                       /\ \A k \in 1 .. Size(v) : rows[id[v] + k] = <<v, k>>

NoOrphanRow ==
  \A i \in 1 .. cov_rows : /\ rows[i][1] \in variables
                           /\ i = id[rows[i][1]] + rows[i][2]

(* ... is about that variable: no two blocks overlap, no operation moves   *)
(* one short, and every row is in a block, so that a removed or refused    *)
(* variable leaves nothing behind.                                         *)
BlocksPartitionRows == BlocksBelong /\ NoOrphanRow

(* The state's maps and its list of variables agree: a variable of neither *)
(* map could never be marginalised, one that is missing ends the process.  *)
MapsMatchVariables ==
  /\ variables \ Base = {Clone(t) : t \in clones} \cup {Landmark(f) : f \in landmarks}
  /\ \A n \in 1 .. at - 1 : <<"base", n>> \in variables <=> Estimated(n)

(* None of the consistency checks of StateHelper that end the process can  *)
(* fail: the variables to propagate stay contiguous whatever is added and  *)
(* removed, no clone is added twice, none is marginalised that is gone.    *)
NoExit == ~exited

(* Removing a variable moves the others without one overtaking another:    *)
(* the list of variables, from which entries are only erased or appended   *)
(* to, stays in the order of the covariance.                               *)
OrderIsKept ==
  [][\A v, w \in variables \cap variables' : id[v] < id[w] => id'[v] < id'[w]]_vars
=============================================================================
