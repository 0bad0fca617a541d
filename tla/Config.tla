------------------------------- MODULE Config -------------------------------
(***************************************************************************)
(* How the estimator gets its options: YamlParser on the main file and on  *)
(* the two files it names, the functions that read the parameters, one     *)
(* after the other, and the constructor of VioManager that hands them to   *)
(* its parts.  The initialiser reads its own copy of what the filter also  *)
(* reads: number of cameras, down-sampling, calibration, gravity, noises.  *)
(*                                                                         *)
(* A parameter is <<source, number, name>>, its source the main file, the  *)
(* IMU or a camera.  A value is where it comes from: the file, what OpenCV *)
(* makes of text, or the default.  There is no ROS (ROS_AVAILABLE is 0 in  *)
(* this build).                                                            *)
(***************************************************************************)
EXTENDS Integers

(* Contents of the files: records with the fields                          *)
(*   unreadable   sources whose file is not named or cannot be opened      *)
(*   no_sensor    <<source, number>> that has no entry in its file         *)
(*   missing      parameters that are not there                            *)
(*   malformed    OpenCV throws on converting them, or no Boolean          *)
(*   sentinel     text where a number belongs: OpenCV does not throw but   *)
(*                yields the largest number of the type                    *)
(*   short        lists and matrices with too few elements                 *)
(*   refused      values one of the tests below rejects                    *)
(*   max_cameras, downsample_cameras, calibrated, do_calib, init_dyn_use,  *)
(*   use_mask, masks_fit   what reading them yields                        *)
CONSTANT Files

Config(names) == {"config"} \X {0} \X names
Imu(names)    == {"imu"} \X {0} \X names
Cam(i, names) == {"cam"} \X {i} \X names

MaxCamerasKey == <<"config", 0, "max_cameras">>
DownsampleKey == <<"config", 0, "downsample_cameras">>
DynUseKey     == <<"config", 0, "init_dyn_use">>
UseMaskKey    == <<"config", 0, "use_mask">>
GravityKey    == <<"config", 0, "gravity_mag">>

ASSUME ConfigAssumption ==
  \A f \in Files : f.max_cameras \in Nat \ {0} /\ f.downsample_cameras \in BOOLEAN

VARIABLES
  file,        \* what the files hold
  loading,     \* the function that comes next
  successful,  \* all_params_found_successfully
  loaded,      \* members that got their value from the file: <<owner, parameter>>
  rigs,        \* camera_intrinsics and camera_extrinsics of either owner
  parts        \* what the parts of VioManager were given

configVars == <<file, loading, successful, loaded, rigs, parts>>

-----------------------------------------------------------------------------
(* The functions and the parameters they ask for *)

After_StateFirst ==
  [open |-> "main", main |-> "state_options", state_options |-> "initializer", initializer |-> "init_noise",
   init_noise |-> "init_state", init_state |-> "estimator",
   estimator |-> "noise", noise |-> "state", state |-> "trackers", trackers |-> "construct"]
(* print_and_load of the options, with print_and_load of the initialiser's *)
(* inside print_and_load_estimator.                                        *)
After ==
  [open |-> "main", main |-> "state_options", state_options |-> "initializer", initializer |-> "init_noise",
   init_noise |-> "init_state", init_state |-> "estimator",
   estimator |-> "trackers", trackers |-> "noise", noise |-> "state", state |-> "construct"]

Owner(s) == IF s \in {"initializer", "init_noise", "init_state"} THEN "init" ELSE "vio"

Bools == Config(
  {"use_fej", "calib_cam_extrinsics", "calib_cam_intrinsics", "calib_cam_timeoffset", "calib_imu_intrinsics",
   "calib_imu_g_sensitivity", "init_dyn_use", "init_dyn_mle_opt_calib", "use_stereo", "downsample_cameras",
   "try_zupt", "zupt_only_at_beginning", "record_timing_information", "use_klt", "use_aruco", "downsize_aruco",
   "multi_threading_pubs", "multi_threading_subs", "fi_triangulate_1d", "fi_refine_features", "use_mask"})
NoiseDensities == Imu({"gyroscope_noise_density", "gyroscope_random_walk", "accelerometer_noise_density", "accelerometer_random_walk"})

StateOptionParams ==
  Config({"use_fej", "integration", "calib_cam_extrinsics", "calib_cam_intrinsics", "calib_cam_timeoffset",
          "calib_imu_intrinsics", "calib_imu_g_sensitivity", "max_clones", "max_slam", "max_slam_in_update",
          "max_msckf_in_update", "num_aruco", "max_cameras", "feat_rep_msckf", "feat_rep_slam", "feat_rep_aruco"})
    \cup Imu({"model"})
InitializerParams ==
  Config({"init_window_time", "init_imu_thresh", "init_max_disparity", "init_max_features", "init_dyn_use",
          "init_dyn_mle_opt_calib", "init_dyn_mle_max_iter", "init_dyn_mle_max_threads", "init_dyn_mle_max_time",
          "init_dyn_num_pose", "init_dyn_min_deg", "init_dyn_inflation_ori", "init_dyn_inflation_vel",
          "init_dyn_inflation_bg", "init_dyn_inflation_ba", "init_dyn_min_rec_cond", "init_dyn_bias_g", "init_dyn_bias_a"})
InitNoiseParams == NoiseDensities \cup Config({"up_slam_sigma_px"})
InitStateParams == Config({"gravity_mag", "max_cameras", "use_stereo", "downsample_cameras"})
EstimatorParams ==
  Config({"dt_slam_delay", "try_zupt", "zupt_max_velocity", "zupt_noise_multiplier", "zupt_max_disparity",
          "zupt_only_at_beginning", "record_timing_information", "record_timing_filepath"})
TrackerParams ==
  Config({"use_stereo", "use_klt", "use_aruco", "downsize_aruco", "downsample_cameras", "num_opencv_threads", "num_pts",
          "fast_threshold", "grid_x", "grid_y", "min_px_dist", "histogram_method", "knn_ratio", "track_frequency"})
NoiseParams ==
  NoiseDensities \cup Config({"up_msckf_sigma_px", "up_msckf_chi2_multipler", "up_slam_sigma_px", "up_slam_chi2_multipler",
                      "up_aruco_sigma_px", "up_aruco_chi2_multipler", "zupt_chi2_multipler"})
StateParameters == {GravityKey, UseMaskKey} \cup Imu({"Tw", "Ta", "R_IMUtoACC", "R_IMUtoGYRO", "Tg"})

(* Required by a function, whatever the number of cameras.                 *)
Fixed(s) ==
  CASE s = "main" -> Config({"verbosity"})
    [] s = "state_options" -> StateOptionParams [] s = "initializer" -> InitializerParams
    [] s = "init_noise" -> InitNoiseParams      [] s = "init_state" -> InitStateParams
    [] s = "estimator" -> EstimatorParams       [] s = "trackers" -> TrackerParams
    [] s = "noise" -> NoiseParams               [] s = "state" -> StateParameters

(* Both print_and_load_state ask for these of every camera.                *)
CameraParams == {"distortion_model", "intrinsics", "distortion_coeffs", "resolution", "T_imu_cam"}
PerCamera(s, n) == IF s \in {"init_state", "state"} THEN UNION {Cam(i, CameraParams) : i \in 0 .. n - 1} ELSE {}

TrackerOptionals ==
  Config({"multi_threading_pubs", "multi_threading_subs", "fi_triangulate_1d", "fi_refine_features", "fi_max_runs",
          "fi_init_lamda", "fi_max_lamda", "fi_min_dx", "fi_min_dcost", "fi_lam_mult", "fi_min_dist", "fi_max_dist",
          "fi_max_baseline", "fi_max_cond_number"})
Optional(s) ==
  CASE s \in {"init_state", "state"} -> Cam(0, {"timeshift_cam_imu"})
    [] s = "trackers" -> TrackerOptionals
    [] OTHER -> {}

-----------------------------------------------------------------------------
(* YamlParser *)

Flipped(p) == <<p[1], p[2], "T_cam_imu">>
(* node_found; the inverse transform does as well.                         *)
Found(p) ==
  /\ <<p[1], p[2]>> \notin file.no_sensor
  /\ p \in file.missing => p[3] = "T_imu_cam" /\ Flipped(p) \notin file.missing

(* The member is assigned.  Rows a matrix has too few of are those of the  *)
(* identity, text read as a number is a sentinel: neither is reported, for *)
(* only what throws is.                                                    *)
Stored(p) == Found(p) /\ p \notin file.malformed

Reported_Found(p, required) ==
  \/ ~Found(p) /\ required /\ <<p[1], p[2]>> \notin file.no_sensor
  \/ Found(p) /\ p \in file.malformed /\ (required \/ p \in Bools)
(* all_params_found_successfully is cleared: a missing sensor and an       *)
(* invalid Boolean are reported whether the parameter is required or not.  *)
Reported(p, required) ==
  \/ <<p[1], p[2]>> \in file.no_sensor
  \/ ~Found(p) /\ required
  \/ Found(p) /\ p \in file.malformed /\ (required \/ p \in Bools)

(* What a function has after its reads; max_cameras is one of them before  *)
(* the cameras are.                                                        *)
Fetched(o, P) == {<<o, p>> : p \in {p \in P : Stored(p)}}
num_cameras(o, L) == IF <<o, MaxCamerasKey>> \in L THEN file.max_cameras ELSE 1
Needed(s) == Fixed(s) \cup PerCamera(s, num_cameras(Owner(s), loaded \cup Fetched(Owner(s), Fixed(s))))
Loaded(s) == loaded \cup Fetched(Owner(s), Needed(s) \cup Optional(s))

Complains(s) ==
  \/ \E p \in Needed(s) : Reported(p, TRUE)
  \/ \E p \in Optional(s) : Reported(p, FALSE)

Exit ==
  /\ loading' = "exited"
  /\ UNCHANGED <<file, successful, loaded, rigs, parts>>

Open ==
  /\ loading = "open"
  /\ IF "config" \in file.unreadable THEN Exit
     ELSE loading' = After["open"] /\ UNCHANGED <<file, successful, loaded, rigs, parts>>

-----------------------------------------------------------------------------
(* The tests that end the process *)

Given(o, p) == <<o, p>> \in Loaded(loading)
Refused(p)  == Given(Owner(loading), p) /\ p \in file.refused
Short(P)    == \E p \in P : Given(Owner(loading), p) /\ p \in file.short
OneOf(names) == \E p \in Config(names) : Refused(p)

do_calib_imu == file.do_calib /\ \E p \in Config({"calib_imu_intrinsics", "calib_imu_g_sensitivity"}) : Given("vio", p)
init_dyn_use == file.init_dyn_use /\ Given("init", DynUseKey)

StateOptionsEnd ==
  \/ OneOf({"integration"}) \/ Refused(<<"imu", 0, "model">>)
  \/ Given("vio", <<"imu", 0, "model">>) /\ file.calibrated /\ do_calib_imu
InitializerEnds ==
  \/ Short(Config({"init_dyn_bias_g", "init_dyn_bias_a"}))   \* std::vector::at throws
  \/ OneOf({"init_max_features", "init_dyn_num_pose"})
  \/ ~init_dyn_use /\ OneOf({"init_imu_thresh", "init_max_disparity"})
CamerasEnd ==
  Short({p \in Needed(loading) : p[1] = "cam" /\ p[3] \in {"intrinsics", "distortion_coeffs", "resolution"}})
StateEnds ==
  \/ CamerasEnd
  \/ file.use_mask /\ Given("vio", UseMaskKey) /\ ~file.masks_fit
  \/ \E p \in Imu({"Tw", "Ta"}) : Refused(p)

(* A parameter of an external file whose file is not there.                *)
Unreachable == \E p \in Needed(loading) : p[1] \in file.unreadable

Ends ==
  \/ Unreachable
  \/ loading = "state_options" /\ StateOptionsEnd
  \/ loading = "initializer" /\ InitializerEnds
  \/ loading = "init_state" /\ CamerasEnd
  \/ loading = "trackers" /\ OneOf({"histogram_method"})
  \/ loading = "state" /\ StateEnds

-----------------------------------------------------------------------------
(* One of the functions *)

Value(p) == IF p \in file.sentinel THEN "sentinel" ELSE "file"
Source(o, p, L) == IF <<o, p>> \in L THEN Value(p) ELSE "default"
downsample(o, L) == file.downsample_cameras /\ <<o, DownsampleKey>> \in L

(* Every camera gets its model; focal length, centre and size are halved.  *)
Rig(o, L) ==
  [i \in 0 .. num_cameras(o, L) - 1 |->
    [values |-> [name \in CameraParams |-> Source(o, <<"cam", i, name>>, L)], halved |-> downsample(o, L)]]

Load ==
  /\ loading \in DOMAIN After \ {"open"}
  /\ IF Ends THEN Exit
     ELSE /\ loading' = After[loading]
          /\ loaded' = Loaded(loading)
          /\ successful' = (successful /\ ~Complains(loading))
          /\ rigs' = IF loading \in {"init_state", "state"}
                     THEN [rigs EXCEPT ![Owner(loading)] = Rig(Owner(loading), loaded')] ELSE rigs
          /\ UNCHANGED <<file, parts>>

Sigmas(o) == [p \in NoiseDensities |-> Source(o, p, loaded)]
GravityOf(o) == Source(o, GravityKey, loaded)
Pixels(o) == Source(o, <<"config", 0, "up_slam_sigma_px">>, loaded)
Timeshift(o) == Source(o, <<"cam", 0, "timeshift_cam_imu">>, loaded)

(* The constructor of VioManager.  Propagator and zero velocity updater    *)
(* square the noises they are given; the initialiser takes its pixel noise *)
(* from that of landmarks.  All options are printed again, without parser, *)
(* and their tests made.                                                   *)
ConstructManager ==
  /\ loading = "construct"
  /\ IF \E o \in {"init", "vio"} : DOMAIN rigs[o] # 0 .. num_cameras(o, loaded) - 1 THEN Exit
     ELSE /\ parts' =
               [state       |-> [cameras |-> rigs["vio"], dt |-> Timeshift("vio")],
                tracker     |-> [cameras |-> rigs["vio"]],
                propagator  |-> [sigmas |-> Sigmas("vio"), squares |-> Sigmas("vio"), gravity |-> GravityOf("vio")],
                zupt        |-> [sigmas |-> Sigmas("vio"), squares |-> Sigmas("vio"), gravity |-> GravityOf("vio")],
                slam        |-> [pixels |-> Pixels("vio")],
                initializer |-> [cameras |-> rigs["init"], dt |-> Timeshift("init"), sigmas |-> Sigmas("init"),
                                 pixels |-> Pixels("init"), gravity |-> GravityOf("init")]]
          /\ loading' = "constructed"
          /\ UNCHANGED <<file, successful, loaded, rigs>>

NoRig == [i \in {} |-> {}]
ConfigInit ==
  /\ file \in Files
  /\ loading = "open" /\ successful = TRUE /\ loaded = {}
  /\ rigs = [o \in {"init", "vio"} |-> NoRig]
  /\ parts = NoRig

ConfigNext == Open \/ Load \/ ConstructManager
ConfigSpec == ConfigInit /\ [][ConfigNext]_configVars

-----------------------------------------------------------------------------
(* Properties *)

(* There is one sensor rig.  The filter, its trackers and updaters and the *)
(* initialiser are given the same cameras, noises and gravity, though they *)
(* are read twice, by different functions at different times, and halved   *)
(* by an option that is read twice as well.                                *)
OneRig ==
  loading = "constructed" =>
    /\ \A p, q \in DOMAIN parts : \A x \in DOMAIN parts[p] \cap DOMAIN parts[q] : parts[p][x] = parts[q][x]
    /\ DOMAIN parts["state"].cameras = 0 .. num_cameras("vio", loaded) - 1

RequiredBy(o) ==
  UNION {Fixed(s) \cup PerCamera(s, num_cameras(o, loaded)) : s \in {s \in DOMAIN After \ {"open"} : Owner(s) = o}}
OptionalOf(o) == UNION {Optional(s) : s \in {s \in DOMAIN After \ {"open"} : Owner(s) = o}}

(* successful() tells whether what was asked for was assigned: with it     *)
(* every required parameter was, of every camera that is used; without it  *)
(* something was left at its default, or is no value of a Boolean.  That   *)
(* text was taken for a number it does not tell.                           *)
MissingIsReported ==
  loading = "constructed" =>
    /\ successful => \A o \in {"init", "vio"} : {o} \X RequiredBy(o) \subseteq loaded
    /\ ~successful => \E o \in {"init", "vio"} : ~({o} \X (RequiredBy(o) \cup OptionalOf(o)) \subseteq loaded)
=============================================================================
