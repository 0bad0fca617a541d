------------------------------- MODULE VioInit -------------------------------
(***************************************************************************)
(* Start-up of the estimator (VioManager::try_to_initialize with the       *)
(* thread it creates, InertialInitializer, StaticInitializer and           *)
(* DynamicInitializer) beside the thread that feeds IMU data and images,   *)
(* and the propagation from the initial state to the images.               *)
(*                                                                         *)
(* With multi_threading_subs the initialiser runs while images go on; its  *)
(* result is then moved forward through the images that came meanwhile.    *)
(* Otherwise the feeding thread joins it.                                  *)
(*                                                                         *)
(* What the sensor data decide (disparity, excitation, optimiser) is a     *)
(* free choice; zero velocity updates are left to SlidingWindow.  Time is  *)
(* an integer, the IMU has one sample every two units, the camera offset   *)
(* is zero, images come once and in order (see VinsMain).  The two threads *)
(* touch the initialiser's IMU vector without a lock: a pass over it is    *)
(* one step here.                                                          *)
(***************************************************************************)
EXTENDS Integers, FiniteSets, Sequences, ImuReadings, Subsequences

CONSTANTS
  ImageTimes,  \* timestamps of the images
  LastSample,  \* timestamp of the last IMU sample
  Window,      \* params.init_options.init_window_time
  Margin,      \* the 0.10 added to every clean-up time, half a sample or more
  MaxClones,   \* params.state_options.max_clone_size
  Modes        \* the values of params.use_multi_threading_subs to consider

ASSUME VioInitAssumption ==
  /\ ImageTimes \subseteq Nat \ {0} /\ IsFiniteSet(ImageTimes)
  /\ LastSample \in Nat /\ Margin \in Nat \ {0} /\ MaxClones \in Nat \ {0}
  /\ Window \in Nat /\ Window % 2 = 0
  /\ Modes \subseteq BOOLEAN

VARIABLES
  multi_threading_subs, \* the option, fixed
  newest,               \* IMU sample fed last
  prop_imu, init_imu,   \* Propagator::imu_data, InertialInitializer::imu_data
  image, pc,            \* feeding thread: the image's time, location
  db,                   \* image times that have measurements in trackFEATS
  tpc, tCam, tTime,     \* initialisation thread: location, newest image, result
  todo,                 \* its camera_timestamps_to_init, what is left of it
  camera_queue_init, mtx,
  imu_value,            \* the time whose pose State::_imu holds, 0 for none
  timestamp, clones,    \* State::_timestamp (0 stands for -1), _clones_IMU
  thread_init_running, thread_init_success, is_initialized_vio,
  snapshot,             \* history: newest and image when tTime was determined
  late,                 \* history: IMU data since then exceed half a window
  last                  \* history: the last propagation

imuVars    == <<multi_threading_subs, newest, prop_imu, init_imu>>
mainVars   == <<image, pc>>
threadVars == <<tpc, tCam, tTime, todo>>
stateVars  == <<imu_value, timestamp, clones>>
flagVars   == <<thread_init_running, thread_init_success, is_initialized_vio>>
histVars   == <<snapshot, late, last>>
vars == <<imuVars, mainVars, db, threadVars, camera_queue_init, mtx, stateVars, flagVars, histVars>>

Half    == Window \div 2
MinOf(S) == CHOOSE x \in S : \A y \in S : x <= y
MaxOf(S) == CHOOSE x \in S : \A y \in S : x >= y
Since(S, t) == {s \in S : s >= t}
After(S, t) == {s \in S : s > t}

-----------------------------------------------------------------------------
(* The estimator's state. *)

(* Propagator::clean_old_imu_measurements: a negative time is none. *)
Cleaned(I, oldest) == IF oldest < 0 THEN I ELSE Since(I, oldest)

(* StateHelper::marginalize_old_clone *)
Marginalized(C) == IF Cardinality(C) > MaxClones THEN C \ {MinOf(C)} ELSE C

(* Propagator::propagate_and_clone and the marginalisation after it. *)
PropagateAndClone(t) ==
  /\ timestamp' = t
  /\ imu_value' = t
  /\ clones' = Marginalized(clones \cup {t})
  /\ last' = [from |-> timestamp, to |-> t, imu |-> prop_imu, late |-> late]

-----------------------------------------------------------------------------
(* The feeding thread: main loop, feed_measurement_imu and the part of     *)
(* track_image_and_update that depends on the initialisation.              *)

(* The next pair of images; IMU data may already reach beyond it. *)
NextImage ==
  /\ pc = "pop"
  /\ After(ImageTimes, image) # {}
  /\ image' = MinOf(After(ImageTimes, image))
  /\ pc' = IF newest >= image' THEN "track" ELSE "imu"
  /\ UNCHANGED <<imuVars, db, threadVars, camera_queue_init, mtx, stateVars, flagVars,
                 histVars>>

OldestTime_NewestOnly(n) == n - Window - Margin
(* The time up to which feed_measurement_imu has the buffers cleaned. *)
OldestTime(n) ==
  IF ~is_initialized_vio THEN n - Window - Margin
  ELSE IF clones = {} \/ MinOf(clones) > timestamp THEN -1
  ELSE MinOf(clones)

FeedImu ==
  /\ pc = "imu"
  /\ newest + 2 <= LastSample
  /\ LET n == newest + 2 IN
       /\ newest' = n
       /\ prop_imu' = Cleaned(prop_imu \cup {n}, OldestTime(n) - Margin)
       /\ init_imu' = IF is_initialized_vio THEN init_imu
                      ELSE IF OldestTime(n) = -1 THEN init_imu \cup {n}
                      ELSE Since(init_imu \cup {n}, OldestTime(n))
       /\ late' = IF is_initialized_vio THEN late
                  ELSE snapshot.imu # 0 /\ n - snapshot.imu > Half
  /\ UNCHANGED <<multi_threading_subs, mainVars, db, threadVars, camera_queue_init, mtx,
                 stateVars, flagVars,
                 snapshot, last>>

(* The IMU queue has been drained and reaches the image. *)
CaughtUp ==
  /\ pc = "imu"
  /\ newest >= image
  /\ pc' = "track"
  /\ UNCHANGED <<imuVars, image, db, threadVars, camera_queue_init, mtx, stateVars,
                 flagVars, histVars>>

TrackImage ==
  /\ pc = "track"
  /\ db' = db \cup {image}
  /\ pc' = IF is_initialized_vio THEN "update" ELSE "running"
  /\ UNCHANGED <<imuVars, image, threadVars, camera_queue_init, mtx, stateVars, flagVars,
                 histVars>>

CheckRunning_SuccessFirst ==
  /\ pc = "running"
  /\ pc' = IF thread_init_running /\ ~thread_init_success THEN "enqueue" ELSE "success"
  /\ UNCHANGED <<imuVars, image, db, threadVars, camera_queue_init, mtx, stateVars,
                 flagVars, histVars>>

CheckRunning ==
  /\ pc = "running"
  /\ pc' = IF thread_init_running THEN "enqueue" ELSE "success"
  /\ UNCHANGED <<imuVars, image, db, threadVars, camera_queue_init, mtx, stateVars,
                 flagVars, histVars>>

(* The thread may have finished between the test and the lock. *)
Enqueue ==
  /\ pc = "enqueue"
  /\ mtx = "free"
  /\ camera_queue_init' = Append(camera_queue_init, image)
  /\ pc' = "pop"
  /\ UNCHANGED <<imuVars, image, db, threadVars, mtx, stateVars, flagVars, histVars>>

CheckSuccess ==
  /\ pc = "success"
  /\ is_initialized_vio' = thread_init_success
  /\ pc' = IF thread_init_success THEN "update" ELSE "start"
  /\ UNCHANGED <<imuVars, image, db, threadVars, camera_queue_init, mtx, stateVars,
                 thread_init_running, thread_init_success, histVars>>

StartThread ==
  /\ pc = "start"
  /\ thread_init_running' = TRUE
  /\ tpc' = "initialize"
  /\ pc' = IF multi_threading_subs THEN "pop" ELSE "join"
  /\ UNCHANGED <<imuVars, image, db, tCam, tTime, todo, camera_queue_init, mtx, stateVars,
                 thread_init_success, is_initialized_vio, histVars>>

JoinThread ==
  /\ pc = "join"
  /\ tpc = "none"
  /\ pc' = "pop"
  /\ UNCHANGED <<imuVars, image, db, threadVars, camera_queue_init, mtx, stateVars,
                 flagVars, histVars>>

(* do_feature_propagate_update; what it does after the propagation is      *)
(* modelled in SlidingWindow.                                              *)
Update ==
  /\ pc = "update"
  /\ IF timestamp < image THEN PropagateAndClone(image) ELSE UNCHANGED <<stateVars, last>>
  /\ pc' = "pop"
  /\ UNCHANGED <<imuVars, image, db, threadVars, camera_queue_init, mtx, flagVars,
                 snapshot, late>>

-----------------------------------------------------------------------------
(* The initialisation thread. *)

(* The newest measurement; too short a record, or any of the tests on the  *)
(* disparity, and the attempt fails.  Otherwise old data are removed and   *)
(* one of the two methods is chosen.                                       *)
Initialize ==
  /\ tpc = "initialize"
  /\ tCam' = MaxOf(db \cup {-1})
  /\ LET oldest == tCam' - Window - Margin IN
       IF oldest < 0
       THEN tpc' = "failed" /\ UNCHANGED <<db, init_imu>>
       ELSE /\ tpc' \in {"failed", "static", "dynamic"}
            /\ db' = After(db, oldest)
            /\ init_imu' = Since(init_imu, oldest)
  /\ UNCHANGED <<multi_threading_subs, newest, prop_imu, mainVars, tTime, todo,
                 camera_queue_init, mtx, stateVars, flagVars, histVars>>

Snapshot == /\ snapshot' = [imu |-> newest, image |-> image]
            /\ late' = FALSE

(* The windows 1 to 0 and 2 to 1 of the static initialiser. *)
NewerHalf(n) == {s \in init_imu : s > n - Half}
OlderHalf(n) == {s \in init_imu : s > n - Window /\ s <= n - Half}

Failed ==
  /\ tpc' = "failed"
  /\ UNCHANGED <<tTime, snapshot, late>>

StaticInit ==
  /\ tpc = "static"
  /\ \/ Failed /\ UNCHANGED imu_value
     \/ /\ Cardinality(init_imu) >= 2
        /\ LET n == MaxOf(init_imu) IN
             /\ n - MinOf(init_imu) >= Window
             /\ Cardinality(NewerHalf(n)) >= 2 /\ Cardinality(OlderHalf(n)) >= 2
             /\ tTime' = MaxOf(OlderHalf(n))
        /\ imu_value' = tTime'
        /\ tpc' = "commit"
        /\ Snapshot
  /\ UNCHANGED <<imuVars, mainVars, db, tCam, todo, camera_queue_init, mtx, timestamp,
                 clones, flagVars, last>>

(* The dynamic initialiser reads the newest measurement again, removes     *)
(* what is older than its window and needs to have removed an IMU sample.  *)
DynamicCollect ==
  /\ tpc = "dynamic"
  /\ tCam' = MaxOf(db \cup {-1})
  /\ LET oldest == tCam' - Window IN
       IF oldest < 0
       THEN Failed /\ UNCHANGED <<db, init_imu>>
       ELSE /\ db' = After(db, oldest)
            /\ init_imu' = Since(init_imu, oldest)
            /\ \/ Failed
               \/ /\ Cardinality(init_imu') >= 2 /\ init_imu' # init_imu
                  /\ tTime' = tCam'
                  /\ tpc' = "integrate"
                  /\ Snapshot
  /\ UNCHANGED <<multi_threading_subs, newest, prop_imu, mainVars, todo,
                 camera_queue_init, mtx, stateVars, flagVars, last>>

(* Pre-integration over poses chosen from the window: the IMU vector may   *)
(* have been cleaned since, and has to cover them all.                     *)
DynamicIntegrate ==
  /\ tpc = "integrate"
  /\ \/ Failed
     \/ /\ \E t \in db : /\ t < tCam
                         /\ \E s \in init_imu : s <= t
                         /\ \E s \in init_imu : s > t
        /\ tpc' = "system"
        /\ UNCHANGED <<tTime, snapshot, late>>
  /\ UNCHANGED <<imuVars, mainVars, db, tCam, todo, camera_queue_init, mtx, stateVars,
                 flagVars, last>>

(* A stage that may take long, may fail and touches nothing shared. *)
Stage(here, next) ==
  /\ tpc = here
  /\ \/ Failed
     \/ tpc' = next /\ UNCHANGED <<tTime, snapshot, late>>
  /\ UNCHANGED <<imuVars, mainVars, db, tCam, todo, camera_queue_init, mtx, stateVars,
                 flagVars, last>>

(* Rank, eigenvalues, gravity and the number of features in front. *)
DynamicSystem == Stage("system", "optimise")
(* Convergence of the optimiser. *)
DynamicOptimise == Stage("optimise", "recover")

DynamicRecover_CloneOnly ==
  /\ tpc = "recover"
  /\ \/ Failed
     \/ tpc' = "commit" /\ UNCHANGED <<tTime, snapshot, late>>
  /\ UNCHANGED <<imuVars, mainVars, db, tCam, todo, camera_queue_init, mtx, stateVars,
                 flagVars, last>>

(* The pose is stored before the covariance is known: an attempt that      *)
(* fails here leaves it behind.                                            *)
DynamicRecover ==
  /\ tpc = "recover"
  /\ imu_value' = tCam
  /\ \/ Failed
     \/ tpc' = "commit" /\ UNCHANGED <<tTime, snapshot, late>>
  /\ UNCHANGED <<imuVars, mainVars, db, tCam, todo, camera_queue_init, mtx, timestamp,
                 clones, flagVars, last>>

Commit_CleanUpTime ==
  /\ tpc = "commit"
  /\ timestamp' = tTime - Window - Margin
  /\ db' = After(db, tTime)
  /\ tpc' = "lock"
  /\ UNCHANGED <<imuVars, mainVars, tCam, tTime, todo, camera_queue_init, mtx, imu_value,
                 clones, flagVars, histVars>>

(* set_initial_covariance, _timestamp, clean-up of older measurements. *)
Commit ==
  /\ tpc = "commit"
  /\ timestamp' = tTime
  /\ db' = After(db, tTime)
  /\ tpc' = "lock"
  /\ UNCHANGED <<imuVars, mainVars, tCam, tTime, todo, camera_queue_init, mtx, imu_value,
                 clones, flagVars, histVars>>

ToReplay_SameTimeToo(q) == Subsequence(q, {i \in 1 .. Len(q) : q[i] >= tTime})
(* Images newer than the initial state. *)
ToReplay(q) == Subsequence(q, {i \in 1 .. Len(q) : q[i] > tTime})

CloneRate(n) == n \div MaxClones + 1

(* Every rate-th element, the first one included. *)
EveryNth(q, rate) == Subsequence(q, {i \in 1 .. Len(q) : (i - 1) % rate = 0})

(* The mutex is held until the queue is cleared. *)
LockQueue ==
  /\ tpc = "lock"
  /\ mtx = "free"
  /\ mtx' = "init"
  /\ LET q == ToReplay(camera_queue_init) IN todo' = EveryNth(q, CloneRate(Len(q)))
  /\ tpc' = "replay"
  /\ UNCHANGED <<imuVars, mainVars, db, tCam, tTime, camera_queue_init, stateVars,
                 flagVars, histVars>>

Replay ==
  /\ tpc = "replay"
  /\ todo # <<>>
  /\ PropagateAndClone(Head(todo))
  /\ todo' = Tail(todo)
  /\ UNCHANGED <<imuVars, mainVars, db, tpc, tCam, tTime, camera_queue_init, mtx,
                 flagVars, snapshot, late>>

Unlock_Keeps ==
  /\ tpc = "replay"
  /\ todo = <<>>
  /\ thread_init_success' = TRUE
  /\ camera_queue_init' = <<>>
  /\ tpc' = "end"
  /\ UNCHANGED <<imuVars, mainVars, db, tCam, tTime, todo, mtx, stateVars,
                 thread_init_running, is_initialized_vio, histVars>>

(* thread_init_success, clear, end of the lock's scope. *)
Unlock ==
  /\ tpc = "replay"
  /\ todo = <<>>
  /\ thread_init_success' = TRUE
  /\ camera_queue_init' = <<>>
  /\ mtx' = "free"
  /\ tpc' = "end"
  /\ UNCHANGED <<imuVars, mainVars, db, tCam, tTime, todo, stateVars,
                 thread_init_running, is_initialized_vio, histVars>>

Fail ==
  /\ tpc = "failed"
  /\ mtx = "free"
  /\ thread_init_success' = FALSE
  /\ camera_queue_init' = <<>>
  /\ tpc' = "end"
  /\ UNCHANGED <<imuVars, mainVars, db, tCam, tTime, todo, mtx, stateVars,
                 thread_init_running, is_initialized_vio, histVars>>

EndThread ==
  /\ tpc = "end"
  /\ thread_init_running' = FALSE
  /\ tpc' = "none"
  /\ UNCHANGED <<imuVars, mainVars, db, tCam, tTime, todo, camera_queue_init, mtx,
                 stateVars,
                 thread_init_success, is_initialized_vio, histVars>>

-----------------------------------------------------------------------------
Init ==
  /\ multi_threading_subs \in Modes
  /\ newest = 0 /\ prop_imu = {} /\ init_imu = {}
  /\ image = 0 /\ pc = "pop"
  /\ db = {}
  /\ tpc = "none" /\ tCam = -1 /\ tTime = 0 /\ todo = <<>>
  /\ camera_queue_init = <<>> /\ mtx = "free"
  /\ imu_value = 0 /\ timestamp = 0 /\ clones = {}
  /\ thread_init_running = FALSE /\ thread_init_success = FALSE
  /\ is_initialized_vio = FALSE
  /\ snapshot = [imu |-> 0, image |-> 0] /\ late = FALSE
  /\ last = [from |-> 0, to |-> 0, imu |-> {}, late |-> FALSE]

Feeder == \/ NextImage \/ FeedImu \/ CaughtUp \/ TrackImage \/ CheckRunning
          \/ Enqueue \/ CheckSuccess \/ StartThread \/ JoinThread \/ Update
InitThread == \/ Initialize \/ StaticInit \/ DynamicCollect \/ DynamicIntegrate
              \/ DynamicSystem \/ DynamicOptimise \/ DynamicRecover
              \/ Commit \/ LockQueue \/ Replay \/ Unlock \/ Fail \/ EndThread

Next == Feeder \/ InitThread

(* Both threads are scheduled; the mutex is not handed out fairly, but     *)
(* each of them asks for it only once per image and per attempt.           *)
Fairness == WF_vars(Feeder) /\ WF_vars(InitThread)
Spec     == Init /\ [][Next]_vars
FairSpec == Spec /\ Fairness

-----------------------------------------------------------------------------
(* Properties *)

Times == ImageTimes \cup 1 .. LastSample

TypeOK ==
  /\ multi_threading_subs \in Modes
  /\ newest \in 0 .. LastSample /\ prop_imu \subseteq 1 .. LastSample /\ init_imu \subseteq 1 .. LastSample
  /\ image \in ImageTimes \cup {0} /\ db \subseteq ImageTimes
  /\ pc \in {"pop", "imu", "track", "running", "enqueue", "success", "start", "join", "update"}
  /\ tpc \in {"none", "initialize", "static", "dynamic", "integrate", "system",
             "optimise", "recover", "commit", "lock", "replay", "failed", "end"}
  /\ tCam \in ImageTimes \cup {-1} /\ tTime \in Times \cup {0}
  /\ todo \in Seq(ImageTimes) /\ camera_queue_init \in Seq(ImageTimes)
  /\ mtx \in {"free", "init"}
  /\ imu_value \in Times \cup {0} /\ timestamp \in Times \cup {0} /\ clones \subseteq ImageTimes
  /\ thread_init_running \in BOOLEAN /\ thread_init_success \in BOOLEAN
  /\ is_initialized_vio \in BOOLEAN /\ late \in BOOLEAN
  /\ snapshot \in [imu : 0 .. LastSample, image : ImageTimes \cup {0}]
  /\ last \in [from : Times \cup {0}, to : Times \cup {0}, imu : SUBSET (1 .. LastSample), late : BOOLEAN]

(* The filter's state has one owner: while an image is handed to the       *)
(* filter, and when a thread is started, no initialisation is under way.   *)
(* The two flags are all that guards it.                                   *)
StateHasOneOwner ==
  /\ pc \in {"start", "update"} \/ is_initialized_vio => tpc = "none"
  /\ tpc \notin {"none", "end"} => ~thread_init_success

(* The pose of the state and its time belong together whenever somebody    *)
(* propagates it: a failed attempt may leave the pose of an image behind   *)
(* that is no longer the newest, and only the flags keep it from use.      *)
PoseMatchesTime ==
  pc = "update" \/ tpc = "replay" => imu_value = timestamp /\ timestamp # 0

(* propagate_and_clone ends the process ("We should crash") when asked for *)
(* the state's own time or an earlier one: the replayed images are         *)
(* strictly increasing and newer than the initial state, although an       *)
(* image may be in the result of the optimiser and in the queue, and       *)
(* although one may be queued after the queue was cleared. Nor is an image *)
(* dropped as out of order afterwards: the initial state is not newer than *)
(* the image that takes it up (it may be the state of that very image,     *)
(* which then gets no clone). That needs that the IMU data were at most    *)
(* half a window ahead of the images when the static initialiser took its  *)
(* windows.                                                                *)
ImagesGoForward ==
  /\ tpc = "replay" =>
       /\ \A i \in 1 .. Len(todo) : timestamp < todo[i]
       /\ \A i, j \in 1 .. Len(todo) : i < j => todo[i] < todo[j]
  /\ pc = "update" => timestamp <= image \/ snapshot.imu - snapshot.image > Half

(* Every propagation gets the readings of its whole interval, with both    *)
(* ends and every sample between them: the buffer is cleaned by the clock  *)
(* of the newest sample before and by the oldest clone after the           *)
(* initialisation, and the state it starts from lies in between.  It needs *)
(* that at most half a window of IMU data came while the initialiser was   *)
(* at work.                                                                *)
ImuCoversInterval ==
  last.to # 0 /\ ~last.late =>
    Select(last.imu, last.from, last.to) = Wanted(last.imu, last.from, last.to)

(* "Run the initialization in a second thread so it can go as slow as it   *)
(* desires": the same with no condition on the time it takes.              *)
ImuCoversIntervalAlways ==
  last.to # 0 => Select(last.imu, last.from, last.to) = Wanted(last.imu, last.from, last.to)

(* A successful attempt is taken up by the next image, and an image never  *)
(* waits for ever for the queue's mutex or the join.                       *)
NeitherThreadWaits ==
  /\ (thread_init_success /\ ~thread_init_running /\ image < MaxOf(ImageTimes)) ~> is_initialized_vio
  /\ pc \in {"enqueue", "join"} ~> pc = "pop"
=============================================================================
