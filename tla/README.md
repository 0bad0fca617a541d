# Verification of OpenVINS-Embedded

TLA+ models of the concurrent shell and of the estimator core of
OpenVINS-Embedded, a ROS-free stereo visual-inertial odometry system, with TLC
runs on small instances and TLAPS proofs for every instance.

## 1. Inventory

Three processes, started by `start_sim.sh`, and three libraries.

| Part | State it keeps | Operations | Hard behaviour |
|---|---|---|---|
| `apps/camera` | ring buffer in shared memory, position in the data set | write packet, drop oldest, post semaphore | shares both ring indices with the reader without atomics |
| `apps/imu` | message queue | `mq_send` | blocks when the queue is full |
| `apps/vins` | two thread-safe queues, `stop_flag`, `last_imu_time` | two reader threads, main loop, signal handler | three threads, timeouts, shutdown in any of five loops |
| `include/IpcManager.h`, `start_sim.sh` | four names in the file system | unlink, create, open, readiness relay | crashes, leftovers, start-up order |
| `ov_msckf` `VioManager` | initialised flag, ZUPT decision, feature lists | `feed_measurement_imu/camera`, `track_image_and_update`, `do_feature_propagate_update` | out-of-order and repeated images, overlapping feature lists |
| `ov_msckf` `State`, `StateHelper` | clones, landmarks, covariance layout | clone, marginalise, initialise, update | lookups that throw, `std::exit` on an inconsistent state |
| `ov_msckf` updaters | flags on features, ZUPT history | MSCKF update, SLAM update, delayed initialisation, anchor change, ZUPT | partial failure: a feature may fail at each test |
| `ov_msckf` `Propagator` | IMU buffer, cache | propagate and clone, fast propagation | cache shared between threads, interpolation at interval ends |
| `ov_init` | IMU buffer, feature database | static and dynamic initialisation | runs in its own thread while data are fed |
| `ov_core` `FeatureDatabase` | feature -> measurements | append, queries, clean-up | flagged, not yet deleted features |
| `ov_core` trackers | last points and ids per camera, the id counter | KLT, descriptor, aruco tracking | identity of points across cameras, two threads drawing ids |
| `VioManagerOptions`, `YamlParser` | every option, the "all found" flag | load, report, construct the parts | several parameters are read twice, by filter and initialiser |
| `ov_core` types, cameras, CPI, math | none or plain values | pure functions | floating point only |

How they interact: the IMU process sends samples over a bounded message queue,
the camera process writes images into the ring and posts a semaphore. In the
estimator one thread per channel moves packets into an unbounded
`ThreadSafeQueue`; the main loop pops two images, feeds IMU data up to their
time and calls `VioManager`. `VioManager` calls trackers, propagator, updaters
and `StateHelper` synchronously; the only other thread is the initialiser's.

What makes each part correct is listed property by property in section 3, and
`PROJECT.json` lists every hazard at its source line with the properties that
cover it.

## 2. Modules

| Module | Models | Built on |
|---|---|---|
| `LossyStream` | abstract: packets arrive whole, once, in order, or not at all | |
| `CamRing` | ring buffer, semaphore, producer loop, `camera_read_thread` | implements `LossyStream` until the first race |
| `VinsMain` | `imu_read_thread`, `camera_read_thread`, main loop, SIGINT, message queue, IMU process | `LossyStream` as the camera channel |
| `Startup` | `IpcManager`, readiness relay, `start_sim.sh`, crash and relaunch | |
| `SlidingWindow` | `track_image_and_update`, `do_feature_propagate_update` and what they call in `StateHelper`, the updaters and the feature database | images in order, as `FramesInOrder` of `VinsMain` says |
| `MCSlidingWindow` | the instance in which the tracks are alike, for TLC's symmetry | `SlidingWindow` |
| `Subsequences` | the members of a sequence that a test keeps and of a set by rank, in order, as `Feature::clean_*` do, without recursion | |
| `FeatureDb` | `FeatureDatabase`: one operator per critical section | `Subsequences` |
| `Tracks` | bookkeeping of `TrackKLT` and `TrackDescriptor`, with the threads that delete from the database | `FeatureDb` |
| `ImuReadings` | `Propagator::select_imu_readings` as an operator on sets of times, and the reference `Wanted` | |
| `VioInit` | `try_to_initialize` and its thread, `InertialInitializer`, `StaticInitializer`, `DynamicInitializer`, the IMU buffers and the first propagations | `ImuReadings` chooses the readings |
| `StateLayout` | constructor of `State`, the operations of `StateHelper` on the list of variables and the rows of the covariance | one row per component |
| `Transition` | `Propagator::compute_F_and_G_analytic/discrete` and their callers: where each block of the transition stands and which factors make it | `StateLayout` |
| `Updates` | linear systems of `UpdaterMSCKF`, `UpdaterSLAM`, anchor change: order of variables, columns, stacking | `Transition`, `Subsequences`; implements `StateLayout` |
| `InitialGraph` | parameter blocks and residuals of `DynamicInitializer`'s problem, the Ceres factors, `CpiV1` | |
| `InitialProblem` | one call of `DynamicInitializer::initialize` | `InitialGraph` |
| `Config` | `YamlParser`, `print_and_load*` of both options, constructor of `VioManager` | |
| `MCStateLayout` | the instance for TLC: `Config`, then `StateLayout`'s constructor, `InitialProblem`, `Updates` | all of these |
| `CamRing_proofs`, `Startup_proofs`, `SlidingWindow_proofs`, `VioInit_proofs`, `Tracks_proofs` | theorems about the module each is named after | |
| `VinsMain_proofs` | theorems about `VinsMain`, `Config` and `InitialProblem`: the process, its options and the problem it starts from | |
| `Layout_proofs` | theorems about `StateLayout`, `Transition` and `Updates`: what stands where in the state and in its linear systems | |
| `Subsequences_proofs` | lemmas about `Subsequences`, least elements, ranks and cardinalities | cited by every proof module but those of `CamRing` and `Startup` |

### CamRing
One action per access to shared memory. `CheckFull`, `ReloadReadIdx`,
`DropOldest`, `FillHeader`, `FillImage`, `Publish`, `Post` are the body of the
producer's loop for one packet (the code repeats it for cam1). `WaitToken` to
`AdvanceReadIdx` are one round of the reader. The indices are plain `int`s that
two processes write, so a load and the store depending on it are separate, and
the compiler may load `read_idx` once or twice. Stores are visible in program
order. `raced` records the three events that can damage the stream: a drop
decided on a stale test, a store of the reader over a drop, the producer filling
the slot under copy.

### VinsMain
Each thread has a location; `CatchUp`, `DrainOne`, `DrainEnd` are the nested
wait for IMU data. Time is counted in IMU samples. `TakePair` pops two packets
whether or not they match, as the code does. IPC errors other than timeouts,
on which a reader thread gives up, are left out.

### Startup
`vStep` walks through the estimator's set-up (unlink and create of each of the
four objects, then `sem_post`). A name is bound to the launch that created the
object. `Removed` is what `start_sim.sh` deletes before launching; the readiness
semaphore is not in it. `VinsCrash` may happen at any step and leaves the names.
Producers are named by the launch that started them: those of a crashed launch live
on beside the next one, because `start_sim.sh` waits for its producers and sends
SIGINT to the estimator only. Shared memory exists empty before it is sized, and sized
before its indices are reset (`Create`, `SizeRing`); a camera process that writes into
empty memory dies (`BusError`).

### SlidingWindow
One image goes through the phases `zupt`, `propagate`, `select`, `msckf`,
`slam`, `delayed`, `cleanup`, `anchors`, `marg`. Clones and landmarks are sets,
a feature's measurements the set of their times; whether a triangulation, a
chi-square or a zero-velocity test passes is a free choice. Both cameras are in
every message, so a measurement is a time. Which of the longest tracks reached
`max_clone_size` in one camera, and how many measurements a time counts for in
the sort of the MSCKF list (one or two), is left open. A zero velocity update tests
no order of times (the only test, `UpdaterZeroVelocity.cpp:86`, is commented out), so
`ZuptAccept` may set the state back to an older image, behind its clones; a time that
is then cloned a second time makes `augment_clone` exit the process (`DoubleClone`).
With a single depth (`SingleDepth`) a landmark measured once leaves its update's list
unflagged (`TooFew`). After an initialisation in its own thread the database may hold
measurements newer than the initial state (`Init`). The history variables
`used` and `reused` record which measurements the filter consumed; tracking a
feature again at a time makes a new measurement. A landmark's fail count is
capped at 2, because only `> 1` is tested, and so is the ZUPT count, because
only `>= 2` is.

### VioInit
Two actors. The feeding thread (`pc`) takes an image, feeds IMU data until they
are past it, tracks it, and asks `try_to_initialize`: `CheckRunning` and
`CheckSuccess` read the two atomic flags in the order of the code, `Enqueue` needs
the mutex, `StartThread` starts the initialiser and `JoinThread` waits for it when
`multi_threading_subs` is off. The thread (`tpc`) is split where it touches what
the feeding thread also touches: `DynamicCollect` to `DynamicRecover` read the
buffers and store the pose before the attempt is known to succeed, `Commit` sets
the state, `LockQueue`, `Replay`, `Unlock` move it through the waiting images,
`EndThread` clears `thread_init_running`. Time is an integer, an IMU buffer the set
of its times; `imu_value` is the time the pose held by `_imu` belongs to. The
history variable `snapshot` remembers when the initial time was determined, `late`
that the IMU data fed since then exceed half a window, `last` the last propagation.

### StateLayout
All operations treat rows and columns of `_Cov` alike, so `rows[i]` names the
component `<<variable, k>>` that row and column `i` are about. `id` is `_id`,
`variables` the members of `_variables`, whose order is that of the ids
(`OrderIsKept`). `Construct` takes up the variables of the constructor one by one,
`Push` is the end of `initialize_invertible`, `ClonePose` copies the rows of the
IMU's pose (`AsClone` renames them), `Marginalize` closes the gap and shifts ids.
`Initialize` may be refused by the chi-square test, which `initialize` makes before it
adds rows and the caller before it adds a map entry: then both stay as they are.
`exited` stands for the calls of `std::exit`. `PhiOrder` is the order the propagator
builds from the options, `Contiguous` the test of `EKFPropagation` on it.

### Transition
`LocalId` are the local ids that the propagator's functions count up, `Analytic` and `Discrete` are the two
versions of the transition: for each pair of parts the terms of the block, a term
being a sign and the chain of rotation and scale matrices in front of the
derivative (`H_Dw`, `H_Da`, `H_Tg`, a cross product). `Expected` differentiates the
sensor model `a = R_a D_a (a_m - b_a)`, `w = R_w D_w (w_m - b_g - T_g a)` instead.
Closed forms in `dt` are left out.

### Updates
A feature is what each camera has seen it at. `CameraColumns` is the loop of
`get_feature_jacobian_full` over the cameras, `FeatureColumns` its `map_hx` with the
anchor; `Contributions` is what a measurement has to add, and to which variables; `Stack` the loop that copies a feature's blocks into
`Hx_big`, reading each from where the order puts it; `system.placed` records which
variable's block landed in which columns, `system.lost` a contribution missing or
from another source than the measurement. Triangulation, refinement and the chi-square
test choose freely between accepting and dropping. `InitializeFrom` and
`ChangeAnchor` hand such a system to `initialize` and `EKFPropagation`. Each action
contains one of `StateLayout` or leaves it alone, which `Layout_proofs` proves. Images
are assumed in order in both modules, as `FramesInOrder` of `VinsMain` says they are.

### FeatureDb and Tracks
A database is a function from ids to the times each camera saw the feature at; a
clean-up keeps a subsequence of each list (`Staying`). In
`Tracks` a camera's list is a bag of ids (no decision depends on the order). Without
`use_stereo` each camera has a thread of its own, with it one thread handles the
pair. A thread goes through `feed`, `detect` (identifiers come from `currid`, which is
atomic), matching (`Klt...`, `Desc...`) and `store`, one point at a time under the
database's lock, and `Save` replaces the last lists. Detection finds any points,
matching follows, loses or pairs any of them, as pixels are not modelled. The other
threads delete: `InitializerCleans` at any time until initialised, `FilterCleans` and
`ZeroVelocityCleans` between images. `owner` is a history variable.

### InitialGraph and InitialProblem
`InitialProblem` follows `initialize` from the copy of the database to what is
returned. The hash map is visited in any order, a feature's measurements too
(`Visit`, `Look`, `Skip`, `Use`), because the set of pose times grows while the loop
runs. `Integrate` is the chain of pre-integrations, `BuildSystem` counts the rows
written, `Optimize` adds blocks and residuals. The numeric exits are `Fail`.
`Copy` reads pixels, normalised coordinates and times of a shared feature one after the
other while the tracker may append: a measurement's `uv` says which of them made it
into the copy. Where the code then looks up a coordinate that is missing, `at` throws
and the thread ends the process (`aborted`).
`InitialGraph` states for every factor the lists `DynamicInitializer` gives it, the
sizes it announces, the offsets its `Evaluate` uses and the columns of `CpiV1` it copies.

### Config
`Load` is one of the functions that read a group of parameters, in the order of the
code (`After`); `Found`, `Stored` and `Reported` distinguish missing, malformed and short
parameters and absent sensors as `YamlParser` does, and text in place of a number, which
OpenCV turns into a sentinel without throwing, so that nothing is reported; `Ends` is
what ends the process. A value is where it came from (file, default, sentinel); `rigs`
are the cameras as the two option structs hold them, `parts` what the constructors of filter,
trackers and initialiser get.

## 3. Runs

| Run | Instance | Shows |
|---|---|---|
| `CamRing_races` | 5 slots as in the code, 4 stereo frames, every interleaving | each overflow costs one packet; implements `LossyStream`, whole packets in order, until the first race; nothing stays in the ring |
| `VinsMain_feed` | 3 frames, 3 IMU samples, queue of 2, SIGINT at any time | IMU stream reaches the estimator unbroken; shutdown, back-pressure and catch-up end |
| `VinsMain_skipped` | same | violated: after one lost packet later stereo pairs are discarded |
| `Startup_launches` | 2 launches, crash at any time, the producers of a crashed launch live on | each orderly launch, also one that meets leftovers and old producers, uses nothing of them, writes only into memory that is set up, and has both its producers stream |
| `Startup_stale` | 2 launches | violated: a leftover token lets producers pass before the estimator is ready |
| `SlidingWindow_any` | 4 times, any order, window 2, landmarks of a single depth | types; the window is bounded also when zero velocity updates move the state back behind its clones |
| `SlidingWindow_ordered` | 5 times in order, a time possibly twice, window 2, processing from the first clone on, ZUPT; two tracks and an aruco corner, one landmark allowed | anchors and the state time always have a clone, no clone is newer than the state or made twice; no measurement is consumed twice; the landmark budget holds for tracks |
| `SlidingWindow_repeat` | 4 times, any order | violated: the assertion of `retriangulate_active_tracks` |
| `VioInit_threads` | 7 images, IMU data for 26 time units, window 8, margin 3, 2 clones, with and without `multi_threading_subs` | the state has one owner at a time; the pose belongs to the state's time; no image is processed twice or after a newer one, by either thread; the IMU readings of an interval are complete unless the attempt took longer than half its window; a success is taken up, every image is handled |
| `VioInit_slow` | same, threaded | violated: a slower attempt loses the IMU data its replay needs |
| `Tracks_lists` | both trackers, monocular and stereo, 2 cameras, 3 images, ids 2 to 5, at most 2 new points per detection, 1 point wanted before initialisation and 2 after | no id twice in a list; an id stands for one point and, in both lists, for one seen by both; an id that left a list does not return and is not drawn again; what the filter takes for lost is in no list; a feature is measured once per image and camera |
| `StateLayout_all` | `Config`: 161 configurations, complete, with one fault, or with a required parameter missing. Then for one of four sets of options, 2 cameras, window 1, 3 image times, a relative landmark of size 1 and an aruco corner of size 3, updates of at most 2 features. The initialiser: 75 databases of 3 features, two thirds of them torn by an image appended during the copy, poses 3 apart, 3 of them | one sensor rig everywhere, whatever is wrong in the files; blocks of the covariance about their variables, maps and list agree, no check ends the process; the transition stands where the state has its variables and follows the sensor model; every Jacobian block multiplies its own variable, none is lost, no matrix overflows; the initial linear system is filled exactly; its optimisation problem is connected, and each factor agrees with the lists it is given |

Bounds. The ring needs more packets than it holds, to overflow, and enough
beyond that for an index to pass the point where it was dropped: 8 for 4. The
main loop needs two frames to slip out of step and a third to be lost by it. For `Startup` two launches: the first may crash at any step, the second meets its
names, its token and its producers, wherever they are. The proofs hold for any number. In `SlidingWindow` a track has to live longer than the
window, become a landmark and outlive its anchor: window + 2 times. The two tracks of `SlidingWindow_ordered` are symmetric: no choice
of the model depends on which of them it is.
`EnoughClones` is the literal 5 of the code, scaled down with the window.
In `VioInit` the samples are two time units apart and `Margin` is larger than
that, as 0.10 s is in the code, or the dynamic initialiser would never have the
data of its oldest image (the proofs need no more than `Margin >= 1`: with 0 the
sample at the beginning of an interval is cleaned up); the images are spaced unevenly so that they fall on,
between and closer than samples; the data last for an attempt, its failure, a
second attempt and a replay of more images than the window holds. In
`StateLayout` three images overfill the window and make it move past
landmarks that lie before, between and behind clones. Two features in an update are
what stacking needs: the second meets columns of the first and brings new ones. Both
cameras may see a feature at any subset of the clones. The four sets of options are:
nothing, the cameras (with a sensitivity whose intrinsics are not calibrated), the
IMU in the rpng model with the time offset, and the IMU in the Kalibr model with
sensitivity: each block of the layout is absent and present, each
branch of `PhiOrder` and `LocalId` is taken; the proofs cover all combinations. The
databases mix stereo features seen at poses, stereo features seen between those of
another, cameras that are not synchronised, a feature seen past the newest camera
time and one that is too short; in each one feature may have got another measurement
while it was copied, without its normalised coordinates or without its pixel. In `Tracks` three images let a point be drawn, followed and
lost or stored, with a list filled, short and filled again; `MinMatch` (10 in the
code) and the wanted numbers are scaled down with the ids.

Deadlock is not an error where the run really ends: readers wait for ever once the
producers are done, the stream of images is finite.

Fairness. `CamRing` and `VinsMain` assume that the operating system schedules each
process and each thread (weak fairness of each as a whole, of no single step);
`Startup` the same of the estimator's set-up and of each producer until it streams (a
stream need not end: the IMU process blocks for ever on a queue that nobody reads).
`AllStream` is one obligation per launch, so that a first launch that went well or
crashed does not discharge it for the next. `VioInit` assumes
it of the feeding thread and of the initialisation thread. Nothing makes a
signal or a crash come, an attempt succeed or an image be accepted.

Findings: the four violated runs, with the lines they quote, are listed under
"findings".

Remarks met while modelling, none of them a run of its own:

* The ring needs three slots: with two, a packet can be dropped from under a reader
  that goes on to the slot being filled without any of the three races, so
  `BufferSizeAssumption` asks for three. The code has five.
* `BUFFER_SIZE` is documented as "Number of frames to buffer"; the ring holds one
  packet less, two stereo frames.
* On SIGINT the main loop still feeds the frame it was catching up for, without the
  IMU data up to it.
* `apps/vins/main.cpp` never calls `parser->successful()`, as the simulation drivers
  do before they go on: a missing required parameter leaves its default in use.
  `successful` is also cleared by an optional parameter that is no Boolean.
* A matrix that is too short keeps the identity in the missing rows, unreported.
* `apps/vins` feeds zero masks, so the masks that `use_mask` loads are not used; they
  are checked against the halved image size.
* `perform_detection_stereo` of `TrackKLT` uses the left camera's mask for the right
  image as well.
* `retriangulate_active_tracks` loses one camera's observation of a feature seen by
  both cameras of an image, and counts it once ("Append our new observations for
  each camera").
* `(int)init_window_time` is the number of measurements a feature needs in the dynamic
  initialiser; below one second it would be 0 and let features without any in.
  `ProblemAssumption` excludes that.
* The block (orientation, D_a) of the discrete transition omits the factor D_w that
  the analytic one has; `TransitionFollowsSensors` excepts this one block.
* With images in any order a zero velocity update takes the state back to an older image
  (`UpdaterZeroVelocity.cpp:277` assigns the time, the test at line 86 is commented out).
  Clones newer than the state remain, and a later image of the time of one of them makes
  `augment_clone` end the process. `TimeNeverBackwards` and `CloneAtStateTime` therefore
  need the images in order, as the main loop delivers them; in any order holds
  `BackOnlyByZupt`.
* A landmark of `ANCHORED_INVERSE_DEPTH_SINGLE` with one measurement leaves the list of
  its update without `to_delete` (`UpdaterSLAM.cpp:292-293`), so what it has left may be
  used by two lists of a later image: `NoMeasurementReused` excepts this
  representation, which no configuration shipped with the code selects.
* `DynamicInitializer.cpp:86-94` copies features that the tracker goes on appending to.
  A measurement torn by that makes `at` throw in the initialiser's thread, if it is of a
  pose; measurements past the newest camera time are never looked up.
* Text in place of a number is neither an error nor a default: OpenCV returns a sentinel,
  nothing is reported, the flag stays true.
* Nothing interrupts an IMU process that blocks in `mq_send` once its estimator is gone.
* `marginalize_slam` treats ids up to 4 times `max_aruco_features` as aruco
  corners, the updaters ids up to `max_aruco_features`.

## 4. Proofs

Every theorem is of the form `Spec => []P`, for every value of the constants that
the named assumptions admit, except where an action property is named. Each
module defines its inductive invariant in the first section of each subject (that of
`SlidingWindow` stands in the module itself); TLC found the conjuncts it can evaluate
to hold on the instance of the run. Every safety property of the passing runs,
invariant or action property, is stated by a theorem; only liveness stays with TLC.

Induction over data. The induction theorems of the library take an operator and
cannot be used. Where the code adds up or appends in a loop, the model uses a recursive
function; that such a function exists and satisfies its equation is proved from the
least element of a set of naturals (`Induction` of `Subsequences_proofs`: a set of
naturals with 0 and every successor holds them all; `ColumnsOneByOne`,
`CamerasOneByOne`, `StartOneByOne`, `SumOneByOne`). From there the argument goes by an
invariant of one step (`Insert`, one more summand).

### CamRing_proofs (`BufferSizeAssumption`, `FramesAssumption`, `NeverAssumption`)
`RingInv` is `TypeOK`, what the producer has in hand, and, until the first race,
`Clean`. `IndexInv` counts packets instead of slots: `read_idx` is `Lag` places behind
`write_idx`, and `Lag` is what was published less what was received or dropped.
`SlotsInv` says which packet is in the slot so many places behind, `ReaderInv` what the
reader that loaded an index a while ago may still rely on, and that tokens and
packets in the ring match. `Next1Value` replaces the modulus by a case distinction,
after which all is linear arithmetic. The invariant is needed because none of the
properties mentions where the packets are.

* `TypeCorrect`, whatever races occur.
* `EveryLossIsADrop` (`DropsAccounted`).
* `NothingStuck`: producer and reader never rest with a packet in the ring, the
  safety half of `Drains`.
* `StreamUntilRace`: `Spec => ImplementsStream`; up to the first race a publication is
  the stream's send, a push its receive, and every other step a stutter.

### VinsMain_proofs (`VinsMainAssumption`, `ConfigAssumption`, `ProblemAssumption`)
* `TypeCorrect`: the type needs `PairTaken`, that only popped pairs are worked on.
* `ImuArrivesInOrder` (`ImuStreamIntact`): the property is inductive once it is stated
  queue by queue (`InLine`), as a sample moves from one queue into the next.
* `FramesArriveInOrder` (`FramesInOrder`): what `LossyStream` delivers is rising
  (`Rising`), the pair in hand is the last one taken (`Taken`), and those handed on were
  taken before it (`HandedOn`). Two packets of one moment are then neighbours, left before
  right. It is the link between `StreamUntilRace`, what the ring delivers, and the
  order of images that `InOrderSpec` of `SlidingWindow` assumes.
* `RigIsShared` (`ConfigSpec => []OneRig`) and `FlagIsExact` (`ConfigSpec =>
  []MissingIsReported`), for faults in any number and combination and any number of
  cameras. The invariant: the sections passed have loaded exactly what the file says,
  each rig equals what the file says of the cameras, and the flag is true only if
  everything required so far was assigned, false only if something asked for was not.

Of the initial problem, for any finite databases:

* `SystemFilled` (`SystemIsFull`), for any gap of poses and thresholds. Not inductive:
  that a measurement dropped for lack of a pose never gets one later needs poses that stay at least a gap apart (`Spaced`), and every
  measurement to be counted, at hand, or too near a pose (`Complete`). The numbers then
  are cardinalities of one set.
* `ChainStartsAtOldest` (`OldestIsFirst`), from the same invariant and the least element
  of a set of naturals: the two assertions of the code.
* `NothingFloats` (`GraphIsWhole`): which parameters each residual names is computed
  factor by factor (`ElementsOf...`); that no camera floats needs that a camera is in
  the problem only with a measurement (`CamerasInv`), the chain of poses that every
  pose but the oldest has a next older one (`Neighbours`).
* `FactorsStayFit` (`FactorsFitGraph`). The lists of a factor have fixed length, but the
  offsets are sums over them: `PriorFitsByTotals` reduces each prior to the running
  totals of its sizes (`WrittenWith`), the IMU factor's ten parameters and the columns
  its residuals depend on are listed one by one (`ImuFactorsFit`), and so are the
  preintegrated values (`PreintegrationStaysFit`). The rank of the covariance holds for
  any finite set of cameras (`CalibrationColumns`: the constant columns are pairs
  of a camera and one of its columns); that the set is finite is `CamerasInv`, each has
  a measurement in a finite database.

### Startup_proofs (`StartupAssumption`)
For any number of launches; producers of crashed ones may be anywhere. `StartupInv`:

* `Past`: nothing carries the number of a launch still to come. `OneToken`: a readiness
  token is in its semaphore or in the hands of one producer relaying it, and does
  not exist before this launch's `sem_post`.
* `SetUp` says what is bound after each step of an estimator that lives, and that its
  ring is reset; `NoStrays` that only crashes leave producers behind, so that whoever
  is left cannot belong to an orderly launch of the past.
* `Timely`: producers that start after the post hold nothing but their launch's objects;
  `InHand`: they hold something.

From it `TypeCorrect`, `NoStaleObject` (`AttachedToThisLaunch`) and `TokenReachesBoth`
(`NobodyLeftOut`), the safety half of `AllStream`. The last adds `TokenThere`, that a
posted token of the running launch is in the semaphore or with a producer relaying it,
whichever launch that producer is of, and `NoneFails`, that no open of an orderly
launch's producer fails.

### SlidingWindow_proofs (`TimesAssumption`, `OptionsAssumption`)
For finite or infinite sets of times and features. Times are positive,
`max_clone_size` is at least 1.

* `TypeCorrect`, one case per action.
* `WindowBounded`, images in any order, zero velocity updates behind the clones
  included. The bound is inductive because it also says which phases may have
  the extra clone; the oldest clone, which goes, exists
  because a nonempty set of naturals has a least element (`LeastExists`).
* `OnlyZuptGoesBack`: `Spec => BackOnlyByZupt`, images in any order: whatever moves the
  state back is a zero velocity update that the options allow at that point.
* `TimeForward`: `InOrderSpec => TimeNeverBackwards`. It needs the images in order and,
  from `OrderInv`, that no image being handled is older than the state.
* `StateTimeHasClone`: `InOrderSpec => []CloneAtStateTime`, with it that no clone is
  newer than the state and none is made twice. Not inductive: a zero
  velocity update moves the state without a clone. `OrderInv` relates the image's
  time to the state's in each phase and says that such a time is still covered by
  the stored decision (`TimeIsCovered`), which is what a repeated image relies on.
* `RetriangulationFindsClone`: `InOrderSpec => []RetriangulationHasClone`, from the same
  invariant. Under `Spec`, images in any order, the run `SlidingWindow_repeat` violates
  it: this is the assumption the assertion in the code needs.
* `AnchorsStayLive`: `InOrderSpec => []AnchorsLive`. `AnchorInv` adds that between
  `change_anchors` and `marginalize_old_clone` no landmark hangs on the oldest
  clone; this needs that the newest clone is not the oldest one
  (`MargTimeNotNewest`), hence `max_clone_size >= 1`.
* `MeasurementsCountOnce`: `InOrderSpec => []NoMeasurementReused`, for landmarks of any
  representation but the single depth (remarks of section 3). The argument goes
  through all lists (`OnceInv`): a consumed measurement that is still stored belongs
  to a flagged feature (`StoredInv`), and the flags are those of the lists handled so
  far (`FlagsInv`); a feature in two lists has nothing left for the second
  (`ListsInv`); a landmark keeps no measurement at a clone between images
  (`LandmarksInv`), although an image absorbed by a zero velocity update
  (`AbsorbedInv`) or without enough clones (`EnoughInv`) ends before the clean-up.
* `LandmarksInBudget` (`SlamBudget`), in any order of images: the landmarks to come
  count as well while they are under way (`BudgetInv`).

### VioInit_proofs (`VioInitAssumption`)
`VioInv` in parts: `Threads` ties the two locations to the flags and the lock; `Images`
and `Queue` say what has arrived and in which order; `Pose` where the attempt's time
lies; `Buffers` that both IMU buffers are gapless; `Anchor` that a sample survives
cleaning at or before the next interval's start.

* `TypeCorrect`; `OneOwner` (`StateHasOneOwner`) is a consequence of `Threads`.
* `PoseAndTimeTogether` (`PoseMatchesTime`), `ReplayGoesForward` (`ImagesGoForward`).
* `NoReadingIsMissing` (`ImuCoversInterval`). While half a window at most was fed since
  the initial time was determined, cleaning stops before the anchor; afterwards it
  stops `Margin` before the oldest clone. `SelectIsWanted` then proves of
  `select_imu_readings` that on a gapless buffer with such an anchor it returns exactly
  the reference `Wanted`.

### Layout_proofs (`LayoutAssumption`)
For every set of image times and features, both sizes of landmarks, any number of
cameras and every combination of options.

* `RowsStayPartitioned`: the blocks of the variables partition the rows. Its two
  halves are proved together (`Layout`): that blocks do not overlap
  (`BlocksDisjoint`) follows from rows naming their variable, and it is what makes
  removing one block shift the others exactly (`MarginalizeMoves`, `MovedIndex`).
* `MapsAgree`: the maps of clones and landmarks name the variables. It needs the
  clones to be no newer than the state, so that no time is cloned twice.
* `NeverExits`: `BaseInv` says that the variables of the constructor stay in front
  and are chained: each ends where the next one asked for begins. Nothing that is
  marginalised lies before them, so the chain never moves, and `PhiOrder` follows it
  for each combination of options (`PhiOrderContiguous`).
* `TypeCorrect` and `OrderKept`, from the same inductive invariant `IInv`.
* `UpdatesRefineLayout`: `UpdatesSpec` implements `StateLayout`'s `Spec`, action by
  action, so that (`LayoutHoldsDuringUpdates`) partition, maps and absence of exits hold
  through every update, initialisation and anchor change.
* `TransitionStaysMatched` (`TransitionMatchesState`). The chain `BaseInv` gives the ids of
  the propagated variables; the local ids are compared with their differences.

The Jacobians of the updates:

* `JacobiansStayMatched` (`UpdatesSpec => []JacobianMatchesState`). `Fits` says what
  holds of columns however they have grown: the variables follow each other without
  gap or overlap, each once (`InsertFits`, `ColumnsFits`); so a reader that adds up sizes
  finds each (`StartIsPosition`). `UInv` is, relative to the layout's `IInv`: the
  system is `Sound` (its columns fit, what was placed is placed there, nothing is
  lost), its variables are in the state (`InState`; no operation that removes one runs
  meanwhile), `RoomMade` (the width reserved is that of the covariance, less the
  landmarks in an MSCKF update, which brings in none), and `AnchorsHeld` (a landmark's
  anchor is a clone of the state, so its columns exist; this needs that anchors change
  before the oldest clone goes). Columns that fit and are in the state are no wider
  than the covariance, as each takes up a block of it (`ColumnsFitState`). That no
  contribution is lost is proved measurement by measurement: camera, intrinsics, clone
  and anchor have columns (`FeatureColumnsFit`), and the assignments for one variable
  do not overwrite those of another. The window is finite because `max_clone_size` is
  (`FiniteWindow`).

The blocks of the transition:

* `TransitionStaysTrue` (`TransitionFollowsSensors`): a case for each column; the chains
  are put together by length (`Joined12`, ...), the gyroscope's terms follow from the
  sensor model (`GyroTermsAre`), and row by row both versions of the transition equal
  `Expected`, under every option, but for the block of the remark in section 3.

### Tracks_proofs (`CamsAreTwo`, `Options`, `Counts`)
For every number of images, ids and points, both trackers and any interleaving of the
camera threads: `TypeCorrect`, `IdsStayUnique`, `PointsKeepTheirIds` and
`IdsNeverReturn`. The invariant says that ids above the counter were drawn for nobody
(`Undrawn`), that each list holds ids drawn for its camera once (`Lists`), and that a
thread's new ids are in no list yet (`News`).

About the database `DbInv` is proved on top of that:

* `OncePerImage` (`MeasuredOnce`): a list of times is increasing and not ahead of the
  image (`Measured`), and what a thread has still to store its camera has not stored at
  this time (`Unseen`, `Unstored`, `Waiting`); the clean-ups keep subsequences, and an
  increasing sequence's subsequence is increasing (`SubsequenceFacts`).
* `LostForGood` (`LostMeansUntracked`): a point in the last list of any camera, or
  stored already by a thread that is still storing, was seen now unless the database
  has forgotten it (`Followed`), whoever deletes meanwhile (`CleanKeeps`). What a thread
  draws is its camera's alone, unless one thread handles the pair (`Alone`), so no
  thread can bring back a point that another one follows without having seen it now.

### What is only model-checked
Liveness, which is out of the prover's reach: `Drains` beyond `NothingStuck`,
`AllStream` beyond `TokenReachesBoth`, `ShutsDown`, `NobodyStarves` and
`NeitherThreadWaits`. The violated properties of the four findings are counterexamples of
TLC.

Proved and not checked by a run of its own: `TimeNeverBackwards`, `BackOnlyByZupt`, `OrderIsKept`,
`OldestIsFirst`, `MissingIsReported`, `RestsEmpty`, `FramesInOrder`, `NobodyLeftOut`.

## 5. Plan

Done: every module of section 2, and a proof of every safety property. Next:

1. `SlidingWindow` together with `Updates`: one state whose clones and landmarks
   are the sets of the one and the blocks of the other, as a refinement.
2. `retriangulate_active_tracks` and what it publishes about active tracks.

Not modelled, and why: values (filter arithmetic, camera models, triangulation,
pre-integration, what Ceres computes) are real numbers, only their structure is
modelled; `TrackAruco` is compiled only with OpenCV's aruco module and draws no ids of
its own, `TrackSIM` and `initialize_with_gt` are the simulator's; `change_feat_id`,
`fast_state_propagate` and its cache are called by nothing in this repository; the ROS
overrides of the parser are not built. Data races that only exist on the
first image (`TrackKLT`'s maps of cameras, grown by two threads) or on the IMU vector
of the initialiser (written without a lock) have no defined outcome the model could
choose from. The queues between reader threads and main loop are unbounded and
stay so in `VinsMain` only up to the number of frames. That `mq_send` blocks
for ever once the estimator has stopped is left as it is in the code: nothing interrupts
the IMU process, and `VinsMain` ends with it blocked. Simulators, test
drivers, plotting, logging and loading of data sets keep no state the system
depends on.
