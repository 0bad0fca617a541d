---------------------------- MODULE MCStateLayout ----------------------------
(* Instance of Config, Updates, Transition, StateLayout and InitialProblem *)
(* for TLC, in the order the estimator comes to them: the options are      *)
(* loaded, the state is constructed, the initialiser runs, and its         *)
(* covariance is the one the filter starts from.                           *)
EXTENDS Updates, InitialProblem, Config, TLC

(* Two cameras, a window of one clone. Nothing is calibrated; the cameras; *)
(* a sensitivity asked for without the intrinsics it belongs to; the IMU   *)
(* in the model of rpng with the time offset, and in that of Kalibr.       *)
ImuOptions(calib, sens, kalibr) ==
  [do_calib_imu_intrinsics |-> calib, do_calib_imu_g_sensitivity |-> sens, kalibr |-> kalibr]
Options(imu, dt, pose, intrinsics) ==
  imu @@ [do_calib_camera_timeoffset |-> dt, do_calib_camera_pose |-> pose,
          do_calib_camera_intrinsics |-> intrinsics, num_cameras |-> 2, max_clone_size |-> 1]
NoCalibration == Options(ImuOptions(FALSE, FALSE, FALSE), FALSE, FALSE, FALSE)

MCOptionSets ==
  {NoCalibration,
   Options(ImuOptions(FALSE, TRUE, FALSE), FALSE, TRUE, TRUE),
   Options(ImuOptions(TRUE, FALSE, FALSE), TRUE, FALSE, FALSE),
   Options(ImuOptions(TRUE, TRUE, TRUE), FALSE, FALSE, FALSE)}
MCLandmarkSize == [f \in Features |-> IF f \in Arucos THEN 3 ELSE 1]

(* Tracks a feature may have, as the times each camera saw it at: stereo   *)
(* at poses or between those of another, cameras not synchronised, one     *)
(* camera alone beyond NewestTime, short.                                  *)
Histories == {<<{2, 5, 8}, {2, 5}>>, <<{3, 6, 8}, {3, 6}>>, <<{1, 3, 5, 8}, {2, 4, 6}>>, <<{}, {4, 7, 9}>>, <<{8}, {}>>}
Track(f, h) == [feat : {f}, cam : {0}, time : h[1], uv : {"both"}] \cup [feat : {f}, cam : {1}, time : h[2], uv : {"both"}]
Tracked == {Track(1, h) \cup Track(2, k) \cup Track(3, <<{}, {4, 7, 9}>>) : h \in Histories, k \in Histories}
(* An image is appended to the second feature while it is copied. *)
Last(M, m) == \A n \in M : n.feat = m.feat /\ n.cam = m.cam => n.time <= m.time
Torn(M, uv) == {IF m.feat = 2 /\ Last(M, m) THEN [m EXCEPT !.uv = uv] ELSE m : m \in M}
MCDatabases == Tracked \cup {Torn(M, uv) : M \in Tracked, uv \in {"norm", "none"}}

(* A complete configuration, and one fault at a time.                      *)
GoodFile ==
  [unreadable |-> {}, no_sensor |-> {}, malformed |-> {}, sentinel |-> {}, short |-> {}, refused |-> {},
   missing |-> {<<"cam", 0, "T_cam_imu">>, <<"cam", 1, "T_cam_imu">>, <<"cam", 0, "timeshift_cam_imu">>},
   max_cameras |-> 2, downsample_cameras |-> TRUE, calibrated |-> FALSE, do_calib |-> TRUE,
   init_dyn_use |-> TRUE, use_mask |-> FALSE, masks_fit |-> TRUE]
Parameters == UNION {Fixed(s) \cup PerCamera(s, 2) \cup Optional(s) : s \in DOMAIN After \ {"open"}}
MCFiles ==
  {GoodFile, [GoodFile EXCEPT !.missing = {<<"cam", 0, "T_imu_cam">>, <<"cam", 1, "T_imu_cam">>}]}
    \cup {[GoodFile EXCEPT !.missing = @ \cup {p}] : p \in Parameters}
    \cup {[GoodFile EXCEPT !.malformed = {p}] : p \in Bools \cup NoiseDensities \cup Cam(1, {"intrinsics", "T_imu_cam"})}
    \cup {[GoodFile EXCEPT !.sentinel = {p}] : p \in NoiseDensities \cup {GravityKey}}
    \cup {[GoodFile EXCEPT !.no_sensor = {s}, !.max_cameras = n] : s \in {<<"cam", 0>>, <<"cam", 1>>, <<"imu", 0>>}, n \in {1, 2}}
    \cup {[GoodFile EXCEPT !.unreadable = {f}] : f \in {"config", "imu", "cam"}}
    \cup {[GoodFile EXCEPT !.short = Cam(1, {name})] : name \in {"intrinsics", "T_imu_cam"}}
    \cup {[GoodFile EXCEPT !.refused = {p}, !.init_dyn_use = dyn, !.downsample_cameras = dyn] : dyn \in BOOLEAN,
            p \in Config({"integration", "init_max_features", "init_imu_thresh", "histogram_method"}) \cup Imu({"model", "Tw"})}
    \cup {[GoodFile EXCEPT !.calibrated = TRUE, !.do_calib = calib] : calib \in BOOLEAN}
    \cup {[GoodFile EXCEPT !.use_mask = TRUE, !.masks_fit = fit] : fit \in BOOLEAN}

(* The faulty configurations are followed to the end of the constructor,   *)
(* the initialiser, which none of these options concerns, with one of them.*)
MCInit ==
  /\ ConfigInit /\ UpdatesInit /\ ProblemInit
  /\ file = GoodFile \/ options = NoCalibration

(* What was read is in the parts by then: dropping it keeps states small.  *)
Started ==
  /\ loading = "constructed" /\ file = GoodFile
  /\ loading' = "running"
  /\ loaded' = {} /\ rigs' = [o \in DOMAIN rigs |-> NoRig] /\ parts' = NoRig
  /\ UNCHANGED <<file, successful, allVars, problemVars>>

MCNext ==
  \/ ConfigNext /\ UNCHANGED <<allVars, problemVars>>
  \/ Started
  \/ /\ loading = "running" /\ at = AtEnd /\ timestamp = 0 /\ options = NoCalibration
     /\ ProblemNext
     /\ UNCHANGED <<allVars, configVars>>
  \/ /\ loading = "running"
     /\ at < AtEnd \/ phase = "returned" \/ options # NoCalibration
     /\ UpdatesNext
     /\ UNCHANGED <<problemVars, configVars>>

MCSpec == MCInit /\ [][MCNext]_<<allVars, problemVars, configVars>>
=============================================================================
