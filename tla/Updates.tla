------------------------------- MODULE Updates -------------------------------
(***************************************************************************)
(* The linear systems that UpdaterMSCKF, UpdaterSLAM and the anchor change *)
(* hand to StateHelper, on top of the operations of StateLayout: for every *)
(* feature the order of its variables and the columns its Jacobian is      *)
(* written to, how the features of an update are stacked, and what the     *)
(* filter multiplies the columns with.  Values are left out; the tests of  *)
(* triangulation, refinement and chi-square go either way.                 *)
(*                                                                         *)
(* A feature is [cams, seen]: the cameras in the order the hash map of its *)
(* measurements yields them and the clones each of them has seen it at,    *)
(* after clean_old_measurements, which may leave a camera with none.       *)
(***************************************************************************)
EXTENDS Transition, Subsequences

CONSTANTS
  Relative,   \* features that become landmarks relative to an anchor
  MaxStacked  \* bound on the features of one update

ASSUME UpdatesAssumption ==
  /\ Relative \subseteq Features
  /\ \A f \in Features : LandmarkSize[f] = 1 => f \in Relative
  /\ MaxStacked \in Nat \ {0}

VARIABLES
  anchor,  \* per landmark: [cam, time] of _anchor_cam_id, _anchor_clone_timestamp
  system   \* the linear system being built

allVars == <<vars, anchor, system>>

Cameras == 0 .. options.num_cameras - 1
Pose(cam)       == <<"base", 8 + 2 * cam>>
Intrinsics(cam) == <<"base", 9 + 2 * cam>>
NoAnchor == [cam |-> -1, time |-> 0]

-----------------------------------------------------------------------------
(* Columns: map_hx, Hx_mapping and Phi_id_map all grow in the same way. *)

Empty == [order |-> <<>>, at |-> <<>>, size |-> 0]

(* A variable that has no columns yet gets the next ones. *)
Insert(L, v) ==
  IF v \in DOMAIN L.at THEN L
  ELSE [order |-> Append(L.order, v),
        at    |-> [w \in DOMAIN L.at \cup {v} |-> IF w = v THEN L.size ELSE L.at[w]],
        size  |-> L.size + Size(v)]

Columns(L, vs) ==
  LET cols[n \in 0 .. Len(vs)] == IF n = 0 THEN L ELSE Insert(cols[n - 1], vs[n])
  IN cols[Len(vs)]

(* Where a reader that adds up the sizes of the order (ct_hx, H_id,        *)
(* Phi_id, get_marginal_covariance) takes the i-th variable to start.      *)
Start(order, i) ==
  LET sum[n \in 0 .. Len(order)] == IF n = 0 THEN 0 ELSE sum[n - 1] + Size(order[n])
  IN sum[i - 1]

-----------------------------------------------------------------------------
(* UpdaterHelper *)

If(condition, v) == IF condition THEN <<v>> ELSE <<>>

(* get_feature_jacobian_representation: what the position depends on.      *)
AnchorOrder(a) == <<Clone(a.time)>> \o If(options.do_calib_camera_pose, Pose(a.cam))

CameraOrder(feat, cam) ==
  If(options.do_calib_camera_pose, Pose(cam))
    \o If(options.do_calib_camera_intrinsics, Intrinsics(cam))
    \o [i \in 1 .. Cardinality(feat.seen[cam]) |-> Clone(Nth(feat.seen[cam], i))]

(* The columns of the cameras that have seen it, one after the other.      *)
CameraColumns(feat) ==
  LET cols[n \in 0 .. Len(feat.cams)] ==
        IF n = 0 THEN Empty ELSE Columns(cols[n - 1], CameraOrder(feat, feat.cams[n]))
  IN cols[Len(feat.cams)]

FeatureColumns_NoAnchor(feat, a) == CameraColumns(feat)

(* map_hx and x_order of get_feature_jacobian_full.                        *)
FeatureColumns(feat, a) ==
  IF a = NoAnchor THEN CameraColumns(feat) ELSE Columns(CameraColumns(feat), AnchorOrder(a))

(* What one measurement adds to the columns of each variable, in the order *)
(* of the assignments: the clone is set, the anchor's part is added since  *)
(* the clone may be the anchor, the camera's is added, intrinsics are set. *)
MeasurementRow(L, cam, t, a) ==
  LET zero   == [v \in DOMAIN L.at |-> {}]
      clone  == [zero EXCEPT ![Clone(t)] = {"clone"}]
      anch   == [v \in DOMAIN L.at |-> IF a # NoAnchor /\ \E i \in DOMAIN AnchorOrder(a) : AnchorOrder(a)[i] = v
                                       THEN clone[v] \cup {"anchor"} ELSE clone[v]]
      camera == [v \in DOMAIN L.at |-> IF options.do_calib_camera_pose /\ v = Pose(cam)
                                       THEN anch[v] \cup {"camera"} ELSE anch[v]]
  IN [v \in DOMAIN L.at |-> IF options.do_calib_camera_intrinsics /\ v = Intrinsics(cam)
                            THEN {"distortion"} ELSE camera[v]]

Measurements(feat) == UNION {{cam} \X feat.seen[cam] : cam \in DOMAIN feat.seen}
Count(feat) == Cardinality(Measurements(feat))

(* single_triangulation: the last measurement of the camera with most.     *)
Anchor(feat, cam) == [cam |-> cam, time |-> CHOOSE t \in feat.seen[cam] : \A u \in feat.seen[cam] : u <= t]
AnchorCamera(feat) ==
  LET most == {cam \in DOMAIN feat.seen : \A c \in DOMAIN feat.seen :
                 Cardinality(feat.seen[c]) <= Cardinality(feat.seen[cam])}
  IN feat.cams[CHOOSE i \in DOMAIN feat.cams :
       feat.cams[i] \in most /\ \A j \in 1 .. i - 1 : feat.cams[j] \notin most]

(* The features the updates may see, with the cameras in either order.     *)
Orders(C) == {cams \in [1 .. Cardinality(C) -> C] : \A i, j \in DOMAIN cams : cams[i] = cams[j] => i = j}
Feats(least) ==
  {feat \in UNION {[cams : Orders(C), seen : [C -> SUBSET clones]] : C \in (SUBSET Cameras) \ {{}}} :
     Count(feat) >= least}

-----------------------------------------------------------------------------
(* The system under construction.  placed: which variable's Jacobian went  *)
(* to which columns; lost: a contribution that is missing or of another.   *)

Idle == [kind |-> "none", cols |-> Empty, placed |-> {}, rows |-> 0, max_meas |-> 0,
         room |-> 0, features |-> 0, lost |-> FALSE]

(* What a measurement contributes, and to which variable. *)
Contributions(m, a) ==
  {<<"clone", Clone(m[2])>>}
    \cup (IF a = NoAnchor THEN {} ELSE {<<"anchor", AnchorOrder(a)[i]>> : i \in DOMAIN AnchorOrder(a)})
    \cup (IF options.do_calib_camera_pose THEN {<<"camera", Pose(m[1])>>} ELSE {})
    \cup (IF options.do_calib_camera_intrinsics THEN {<<"distortion", Intrinsics(m[1])>>} ELSE {})

LosesSomething(L, feat, a) ==
  \E m \in Measurements(feat) :
    UNION {MeasurementRow(L, m[1], m[2], a)[v] \X {v} : v \in DOMAIN L.at} # Contributions(m, a)

(* The variable whose Jacobian a feature's columns from c on hold.         *)
Written(L, c) == {v \in DOMAIN L.at : L.at[v] = c}

(* "Append to our large H vector": each variable of the feature is read    *)
(* from the columns the order puts it at and copied to those of Hx_big.    *)
Stack(L, rws) ==
  LET cols == Columns(system.cols, L.order)
  IN [system EXCEPT
        !.cols = cols,
        !.placed = @ \cup UNION {Written(L, Start(L.order, i)) \X {cols.at[L.order[i]]} : i \in DOMAIN L.order},
        !.rows = @ + rws]

(* A feature whose chi-square test is passed or not; its measurements were *)
(* counted in max_meas_size either way.                                    *)
Add(feat, a, L, rws) ==
  \/ system' = [system EXCEPT !.max_meas = @ + 2 * Count(feat), !.features = @ + 1]
  \/ system' = [Stack(L, rws) EXCEPT !.max_meas = @ + 2 * Count(feat), !.features = @ + 1,
                                     !.lost = @ \/ LosesSomething(L, feat, a) \/ rws < 1]

(* The sum of their sizes: each f stands LandmarkSize[f] times.            *)
SizeOfLandmarks == Cardinality(UNION {{f} \X (1 .. LandmarkSize[f]) : f \in landmarks})

-----------------------------------------------------------------------------
(* The updates run while there is a clone of the state's time. *)
Updating == Running /\ timestamp \in clones

Begin ==
  /\ Updating /\ system = Idle
  /\ \E relative \in BOOLEAN :
       system' = [Idle EXCEPT !.kind = IF relative THEN "msckf anchored" ELSE "msckf",
                              !.room = cov_rows - SizeOfLandmarks]
  /\ UNCHANGED <<vars, anchor>>

BeginSlam ==
  /\ Updating /\ system = Idle /\ landmarks # {}
  /\ system' = [Idle EXCEPT !.kind = "slam", !.room = cov_rows]
  /\ UNCHANGED <<vars, anchor>>

(* UpdaterMSCKF::update: three of a feature's rows go with its position.   *)
MsckfFeature ==
  /\ system.kind \in {"msckf", "msckf anchored"} /\ system.features < MaxStacked
  /\ \E feat \in Feats(2) :
       LET a == IF system.kind = "msckf" THEN NoAnchor ELSE Anchor(feat, AnchorCamera(feat))
       IN Add(feat, a, FeatureColumns(feat, a), 2 * Count(feat) - 3)
  /\ UNCHANGED <<vars, anchor>>

(* UpdaterSLAM::update: the landmark's own columns follow the feature's; a *)
(* landmark of depth alone has its bearing projected away.                 *)
SlamFeature ==
  /\ system.kind = "slam" /\ system.features < MaxStacked
  /\ \E f \in landmarks :
       \E feat \in Feats(IF LandmarkSize[f] = 1 THEN 2 ELSE 1) :
         /\ Landmark(f) \notin DOMAIN system.cols.at
         /\ Add(feat, anchor[f], Insert(FeatureColumns(feat, anchor[f]), Landmark(f)),
                2 * Count(feat) - (IF LandmarkSize[f] = 1 THEN 2 ELSE 0))
  /\ UNCHANGED <<vars, anchor>>

(* EKFUpdate, or nothing if no feature was accepted.                       *)
Finish ==
  /\ system # Idle
  /\ system' = Idle
  /\ UNCHANGED <<vars, anchor>>

(* UpdaterSLAM::delayed_init of one feature that was triangulated: the     *)
(* system is handed to StateHelper::initialize, which may refuse it.  The  *)
(* anchor belongs to the landmark, which is dropped with a refusal.        *)
InitializeFrom(f) ==
  /\ Updating /\ system = Idle /\ Initialize(f)
  /\ \E feat \in Feats(2) :
       LET a == IF f \in Relative THEN Anchor(feat, AnchorCamera(feat)) ELSE NoAnchor
           L == FeatureColumns(feat, a)
           rws == 2 * Count(feat) - (IF LandmarkSize[f] = 1 THEN 2 ELSE 0)
       IN /\ anchor' = IF f \in landmarks' THEN [anchor EXCEPT ![f] = a] ELSE anchor
          /\ system' = [Stack(L, rws) EXCEPT !.kind = "initialize", !.room = cov_rows,
                          !.max_meas = 2 * Count(feat),
                          !.lost = LosesSomething(L, feat, a) \/ rws < LandmarkSize[f]]

AtOldest(f) == /\ Cardinality(clones) > options.max_clone_size
               /\ anchor[f] # NoAnchor /\ \A c \in clones : anchor[f].time <= c

(* Phi_id_map of perform_anchor_change. *)
AnchorColumns(f, new) ==
  Insert(Columns(Empty, AnchorOrder(anchor[f]) \o AnchorOrder(new)), Landmark(f))

(* change_anchors, one landmark: the anchor moves to the newest clone, in  *)
(* the same camera.                                                        *)
ChangeAnchor(f) ==
  /\ Updating /\ system = Idle /\ f \in landmarks /\ AtOldest(f)
  /\ LET new == [anchor[f] EXCEPT !.time = timestamp]
     IN /\ anchor' = [anchor EXCEPT ![f] = new]
        /\ system' = [Stack(AnchorColumns(f, new), LandmarkSize[f]) EXCEPT
                        !.kind = "anchor", !.room = cov_rows, !.max_meas = LandmarkSize[f]]
  /\ UNCHANGED vars

(* marginalize_old_clone comes after change_anchors.                       *)
MarginalizeClone ==
  /\ system = Idle /\ ~\E f \in landmarks : AtOldest(f)
  /\ MarginalizeOldClone
  /\ UNCHANGED <<anchor, system>>

(* The window is cut before the next image.                                *)
Rest ==
  /\ system = Idle
  /\ \/ Construct \/ SetInitialCovariance
     \/ /\ Cardinality(clones) <= options.max_clone_size
        /\ \E t \in ImageTimes : PropagateAndClone(t) \/ ZeroVelocity(t)
  /\ UNCHANGED <<anchor, system>>

DropLandmark(f) ==
  /\ system = Idle
  /\ MarginalizeSlam(f)
  /\ anchor' = [anchor EXCEPT ![f] = NoAnchor]
  /\ UNCHANGED system

UpdatesInit == Init /\ anchor = [f \in Features |-> NoAnchor] /\ system = Idle

UpdatesNext ==
  \/ Rest \/ MarginalizeClone \/ Begin \/ BeginSlam \/ MsckfFeature \/ SlamFeature \/ Finish
  \/ \E f \in Features : InitializeFrom(f) \/ ChangeAnchor(f) \/ DropLandmark(f)

UpdatesSpec == UpdatesInit /\ [][UpdatesNext]_allVars

-----------------------------------------------------------------------------
(* Properties *)

(* Whatever the order in which features, cameras and anchors bring their   *)
(* variables in, the columns that hold the Jacobian by a variable are the  *)
(* ones the filter multiplies with that variable's block of the covariance *)
(* (EKFUpdate, initialize, EKFPropagation); every variable is in the state *)
(* and has its columns once; no contribution of a measurement is lost,     *)
(* also when it was made from the anchor, or the anchor's camera made it,  *)
(* or the anchor did not see the feature since; and the system fits the    *)
(* matrices that were allocated before the first feature.                  *)
JacobianMatchesState ==
  LET order == system.cols.order
  IN /\ system.placed = {<<order[i], Start(order, i)>> : i \in DOMAIN order}
     /\ \A i \in DOMAIN order : order[i] \in variables
     /\ Cardinality(system.placed) = Len(order)
     /\ ~system.lost
     /\ system.cols.size <= system.room /\ system.rows <= system.max_meas
=============================================================================
