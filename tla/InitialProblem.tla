---------------------------- MODULE InitialProblem ----------------------------
(***************************************************************************)
(* One call of DynamicInitializer::initialize: the measurements that are   *)
(* chosen from a copy of the feature database, the linear system and the   *)
(* optimisation problem built from them, and what is handed back.  Poses   *)
(* are at camera times at least pose_dt_avg apart; every other measurement *)
(* is dropped, in one pass over a hash map, while the set of times grows.  *)
(* The numbers are left out: motion, integration, the constrained solution *)
(* and Ceres succeed or fail.  IMU buffer, window and threads: VioInit.    *)
(***************************************************************************)
EXTENDS InitialGraph

CONSTANTS
  Databases,       \* contents the copy may have: sets of measurements
  NewestTime,      \* newest_cam_time, found before the copy is made
  PoseGap,         \* pose_dt_avg
  MinMeasurements, \* (int)init_window_time
  MinFeatures,     \* 8, fewer here
  NumPoses         \* init_dyn_num_pose

(* Images go on being tracked while features are copied one by one, so a   *)
(* copy may have times newer than NewestTime, by less than the gap of two  *)
(* poses, and of an image some features may have a measurement and others  *)
(* not.  Nor is one feature copied at once: the last measurement may lack  *)
(* its pixel, or pixel and normalised coordinates, which come before the   *)
(* times (m.uv is "both", "norm" or "none").  A list that moves while it   *)
(* is copied is left out.                                                  *)
ASSUME ProblemAssumption ==
  /\ NewestTime \in Nat /\ PoseGap \in Nat \ {0}
  /\ MinMeasurements \in Nat \ {0} /\ MinFeatures \in Nat
  /\ NumPoses \in Nat \ {0, 1}
  /\ \A d \in Databases :
       IsFiniteSet(d) /\ \A m \in d : m.time \in Nat /\ m.time < NewestTime + PoseGap

VARIABLES
  phase,            \* where the call is
  features,         \* the copy: measurements [feat, cam, time, uv]
  unvisited, feat,  \* features the loop has not come to; the one it is at
  pending, times,   \* its measurements not looked at yet; those accepted
  valid,            \* features with enough of them (map_features_num_meas)
  camera_times, camera_ids,  \* map_camera_times, map_camera_ids
  num_measurements,
  counted,          \* history: the measurements num_measurements is about
  index_meas,       \* rows of the linear system that were written
  features_inI0

locals == <<features, unvisited, feat, pending, times, valid, camera_times, camera_ids,
            num_measurements, counted, index_meas, features_inI0>>
problemVars == <<phase, locals>>

NoFeature == "none"
TimesOf(M) == {m.time : m \in M}
FeaturesOf(M) == {m.feat : m \in M}

ProblemInit ==
  /\ phase = "idle"
  /\ features = {} /\ unvisited = {} /\ feat = NoFeature /\ pending = {} /\ times = {}
  /\ valid = {} /\ camera_times = {} /\ camera_ids = {}
  /\ num_measurements = 0 /\ counted = {} /\ index_meas = 0 /\ features_inI0 = {}

(* The end of the call, whatever it returns, is the end of its locals.     *)
Return(to) ==
  /\ phase' = to
  /\ features' = {} /\ unvisited' = {} /\ feat' = NoFeature /\ pending' = {} /\ times' = {}
  /\ valid' = {} /\ camera_times' = {} /\ camera_ids' = {}
  /\ num_measurements' = 0 /\ counted' = {} /\ index_meas' = 0 /\ features_inI0' = {}

(* The database is copied, Databases being what may come of that; the      *)
(* final pose is always inserted.                                          *)
Copy ==
  /\ phase = "idle"
  /\ phase' = "select"
  /\ features' \in Databases
  /\ unvisited' = FeaturesOf(features')
  /\ camera_times' = {NewestTime}
  /\ UNCHANGED <<feat, pending, times, valid, camera_ids, num_measurements, counted, index_meas, features_inI0>>

-----------------------------------------------------------------------------
(* The loop over the features *)

Visit(f) ==
  /\ phase = "select" /\ f \in unvisited
  /\ phase' = "look"
  /\ feat' = f /\ unvisited' = unvisited \ {f}
  /\ pending' = {m \in features : m.feat = f} /\ times' = {}
  /\ UNCHANGED <<features, valid, camera_times, camera_ids, num_measurements, counted, index_meas, features_inI0>>

Distance(s, t) == IF s < t THEN t - s ELSE s - t

AtPose_OwnTimes(t) == \A s \in TimesOf(times) : Distance(s, t) >= PoseGap \/ s = t
(* time_dt >= pose_dt_avg || time_dt == 0.0                                *)
AtPose(t) ==
  LET known == camera_times \cup TimesOf(times)
  IN t \in known \/ \A s \in known : Distance(s, t) >= PoseGap

(* One camera after the other, its times in the order they were appended.  *)
Follows(m) ==
  \A n \in pending : IF n.cam = m.cam THEN m.time <= n.time
                     ELSE {k \in features : k.feat = feat /\ k.cam = n.cam} \subseteq pending

Look(m) ==
  /\ phase = "look" /\ m \in pending /\ Follows(m)
  /\ pending' = pending \ {m}
  /\ times' = IF AtPose(m.time) THEN times \cup {m} ELSE times
  /\ UNCHANGED <<phase, features, unvisited, feat, valid, camera_times, camera_ids, num_measurements, counted,
                 index_meas, features_inI0>>

Skip ==
  /\ phase = "look" /\ pending = {} /\ Cardinality(times) < MinMeasurements
  /\ phase' = "select"
  /\ feat' = NoFeature /\ times' = {}
  /\ UNCHANGED <<features, unvisited, pending, valid, camera_times, camera_ids, num_measurements, counted,
                 index_meas, features_inI0>>

Use_NoCameras ==
  /\ phase = "look" /\ pending = {} /\ Cardinality(times) >= MinMeasurements
  /\ phase' = "select"
  /\ valid' = valid \cup {feat}
  /\ camera_times' = camera_times \cup TimesOf(times)
  /\ camera_ids' = IF camera_ids = {} THEN {m.cam : m \in times} ELSE camera_ids
  /\ num_measurements' = num_measurements + 2 * Cardinality(times)
  /\ counted' = counted \cup times
  /\ feat' = NoFeature /\ times' = {}
  /\ UNCHANGED <<features, unvisited, pending, index_meas, features_inI0>>

Use ==
  /\ phase = "look" /\ pending = {} /\ Cardinality(times) >= MinMeasurements
  /\ phase' = "select"
  /\ valid' = valid \cup {feat}
  /\ camera_times' = camera_times \cup TimesOf(times)
  /\ camera_ids' = camera_ids \cup {m.cam : m \in times}
  /\ num_measurements' = num_measurements + 2 * Cardinality(times)
  /\ counted' = counted \cup times
  /\ feat' = NoFeature /\ times' = {}
  /\ UNCHANGED <<features, unvisited, pending, index_meas, features_inI0>>

system_size == 3 * Cardinality(valid) + 3 + 3
Enough ==
  /\ Cardinality(camera_times) >= NumPoses
  /\ Cardinality(valid) >= MinFeatures
  /\ num_measurements >= system_size

(* The conditions after the loop; there must also have been some rotation. *)
Selected ==
  /\ phase = "select" /\ unvisited = {}
  /\ IF Enough THEN phase' = "integrate" /\ UNCHANGED locals ELSE Return("idle")

-----------------------------------------------------------------------------
(* The linear system and the optimisation *)

IsOldest(t) == t \in TimesOf(counted) /\ \A s \in TimesOf(counted) : t <= s

(* map_camera_cpi_IitoIi1: a time is paired with the one the loop over the *)
(* sorted times was at before, the oldest one with none.                   *)
IitoIi1 ==
  {p \in camera_times \X camera_times :
     ~IsOldest(p[2]) /\ p[1] < p[2] /\ \A u \in camera_times : u <= p[1] \/ p[2] <= u}

Integrate ==
  /\ phase = "integrate"
  /\ phase' = "build"
  /\ UNCHANGED locals

InSystem(m) == m \in features /\ m.feat \in valid /\ m.time \in camera_times

(* Two rows for every measurement of a valid feature we have a pose for.   *)
(* Where its normalised coordinates were not copied at() throws, which     *)
(* nothing catches.                                                        *)
BuildSystem ==
  /\ phase = "build"
  /\ IF \E m \in features : InSystem(m) /\ m.uv = "none" THEN Return("aborted")
     ELSE /\ phase' = "solve"
          /\ index_meas' = 2 * Cardinality({m \in features : InSystem(m)})
          /\ UNCHANGED <<features, unvisited, feat, pending, times, valid, camera_times, camera_ids,
                         num_measurements, counted, features_inI0>>

(* Features behind a camera are dropped, the others make up the problem;   *)
(* that is where pixel coordinates are looked up.                          *)
Recover ==
  /\ phase = "solve"
  /\ \E front \in SUBSET valid :
       IF Cardinality(front) < MinFeatures THEN Return("idle")
       ELSE IF \E m \in features : InSystem(m) /\ m.feat \in front /\ m.uv # "both" THEN Return("aborted")
       ELSE /\ phase' = "optimize"
            /\ features_inI0' = front
            /\ UNCHANGED <<features, unvisited, feat, pending, times, valid, camera_times, camera_ids,
                           num_measurements, counted, index_meas>>

ImageFactors == {m \in features : InSystem(m) /\ m.feat \in features_inI0}

(* What is added to the problem, in terms of blocks and parameters.        *)
Blocks == StateBlocks(camera_times) \cup CalibBlocks(camera_ids)
            \cup FeatureBlocks(FeaturesOf(ImageFactors))
PriorFactors ==
  {FirstPrior(t).params : t \in {t \in camera_times : \A s \in camera_times : t <= s}}
    \cup UNION {{ExtrinsicPrior(c).params, IntrinsicPrior(c).params} : c \in camera_ids}
Residuals ==
  PriorFactors \cup {ImuParams(p[1], p[2]) : p \in IitoIi1}
    \cup {ImageParams(m.time, m.feat, m.cam) : m \in ImageFactors}

Optimize ==
  /\ phase = "optimize"
  /\ phase' = "covariance"
  /\ UNCHANGED locals

(* The covariance is recovered: true is returned, with the IMU as order.   *)
Succeed ==
  /\ phase = "covariance"
  /\ Return("returned")

(* Too little rotation, missing IMU readings, no real eigenvalue, gravity  *)
(* of another length, no convergence, a singular covariance.               *)
Fail ==
  /\ phase \in {"integrate", "build", "solve", "optimize", "covariance"}
  /\ Return("idle")

ProblemNext ==
  \/ Copy \/ Skip \/ Use \/ Selected \/ Integrate \/ BuildSystem \/ Recover \/ Optimize \/ Succeed \/ Fail
  \/ \E f \in unvisited : Visit(f)
  \/ \E m \in pending : Look(m)

ProblemSpec == ProblemInit /\ [][ProblemNext]_problemVars

-----------------------------------------------------------------------------
(* Properties *)

ProblemTypeOK ==
  /\ phase \in {"idle", "select", "look", "integrate", "build", "solve", "optimize", "covariance", "returned",
               "aborted"}
  /\ features = {} \/ features \in Databases
  /\ unvisited \subseteq FeaturesOf(features) /\ valid \subseteq FeaturesOf(features)
  /\ features_inI0 \subseteq valid
  /\ pending \subseteq features /\ times \subseteq features /\ counted \subseteq features
  /\ camera_times \subseteq Nat
  /\ num_measurements \in Nat /\ index_meas \in Nat

(* Rows are allocated for the measurements counted while the features were *)
(* chosen, and written for every measurement with a pose at the end.  They *)
(* are the same ones, whatever the order of the hash map: a measurement    *)
(* between two poses stays out when later features bring in new times.     *)
SystemIsFull ==
  phase \in {"solve", "optimize", "covariance"} => index_meas = num_measurements

(* The chain of integrations starts at the first of the sorted times and   *)
(* ends later (assert at 241); the first has no integration before it      *)
(* (assert at 732).                                                        *)
OldestIsFirst ==
  phase \in {"integrate", "build", "solve", "optimize", "covariance"} =>
    \E t \in camera_times : IsOldest(t) /\ t < NewestTime /\ \A s \in camera_times : t <= s

(* The optimisation problem is whole: no factor looks up a state, feature  *)
(* or calibration that was not added, every variable is tied down by some  *)
(* factor, and the states hang together from the first one to the one that *)
(* is handed back.                                                         *)
GraphIsWhole ==
  phase = "optimize" =>
    /\ UNION {{r[i] : i \in DOMAIN r} : r \in Residuals} = Blocks
    /\ \A t \in camera_times : IsOldest(t) \/ \E s \in camera_times : <<s, t>> \in IitoIi1
    /\ NewestTime \in camera_times

(* Ceres knows parameter blocks by their position in a list and derivatives *)
(* by their column, and so does the filter the covariance comes back to:   *)
(* for every factor the lists DynamicInitializer builds, the factors'      *)
(* constructors, their Evaluate and the preintegration agree on them.      *)
FactorsFitGraph ==
  phase = "optimize" =>
    /\ \A t \in camera_times : IsOldest(t) => PriorFits(FirstPrior(t))
    /\ \A c \in camera_ids : PriorFits(ExtrinsicPrior(c)) /\ PriorFits(IntrinsicPrior(c))
    /\ \A p \in IitoIi1 : ImuFits(p[1], p[2])
    /\ \A m \in ImageFactors : ImageFits(m.time, m.feat, m.cam)
    /\ PreintegrationFits /\ CovarianceFits(camera_ids)
=============================================================================
