---------------------------- MODULE SlidingWindow ----------------------------
(***************************************************************************)
(* The estimator core of ov_msckf after initialisation: what one stereo    *)
(* image does to the state.  VioManager::track_image_and_update and        *)
(* do_feature_propagate_update, with the pieces of StateHelper,            *)
(* UpdaterZeroVelocity, UpdaterMSCKF, UpdaterSLAM and FeatureDatabase they *)
(* call, in the order they call them.                                      *)
(*                                                                         *)
(* Numbers of the filter (means, covariances, residuals) are abstracted:   *)
(* whether a zero-velocity test, a triangulation or a chi-square test      *)
(* passes is a free choice.  What is kept is which clones, landmarks and   *)
(* feature measurements exist, and which of them every step uses.          *)
(*                                                                         *)
(* Both cameras are in every message, as apps/vins/main.cpp sends them.    *)
(* Image times are positive numbers; 0 stands for "no time".               *)
(***************************************************************************)
EXTENDS Naturals, FiniteSets

CONSTANTS
  Times,           \* timestamps of the images and of the initial state
  Tracks,          \* ids of trackFEATS features
  Arucos,          \* ids of trackARUCO features, <= 4 * max_aruco_features
  MaxClones,       \* StateOptions::max_clone_size
  EnoughClones,    \* the literal 5 of do_feature_propagate_update
  MaxSlam,         \* StateOptions::max_slam_features
  MaxMsckf,        \* StateOptions::max_msckf_in_update
  SlamDelay,       \* params.dt_slam_delay
  TryZupt,         \* params.try_zupt
  OnlyAtBeginning, \* params.zupt_only_at_beginning
  Anchored,        \* the landmark representation is relative to a clone
  SingleDepth      \* it is ANCHORED_INVERSE_DEPTH_SINGLE

ASSUME TimesAssumption    == Times \subseteq Nat \ {0}
ASSUME FeaturesAssumption == /\ Tracks \cap Arucos = {}
                             /\ IsFiniteSet(Tracks) /\ IsFiniteSet(Arucos)
ASSUME OptionsAssumption ==
  /\ MaxClones \in Nat \ {0} /\ EnoughClones \in Nat \ {0}
  /\ MaxSlam \in Nat /\ MaxMsckf \in Nat /\ SlamDelay \in Nat
  /\ TryZupt \in BOOLEAN /\ OnlyAtBeginning \in BOOLEAN /\ Anchored \in BOOLEAN
  /\ SingleDepth \in BOOLEAN

Features == Tracks \cup Arucos

VARIABLES
  ts, startup,           \* State::_timestamp, VioManager::startup_time
  clones,                \* keys of State::_clones_IMU
  slam,                  \* keys of State::_features_SLAM
  anchor, fails,         \* per landmark: anchor clone, update_fail_count
  db,                    \* per feature: measurement times, {} if not stored
  del,                   \* features whose to_delete flag is set
  phase, msg,            \* progress of the handler and the image's time
  msckf, slamUp, slamNew,\* the feature lists of this update
  didZupt, zuptTs, zuptCount, moved,
  used, reused           \* history: measurements the filter has consumed

stateVars == <<ts, startup, clones, slam, anchor, fails>>
listVars  == <<msckf, slamUp, slamNew>>
zuptVars  == <<didZupt, zuptTs, zuptCount, moved>>
histVars  == <<used, reused>>
vars == <<stateVars, db, del, phase, msg, listVars, zuptVars, histVars>>

-----------------------------------------------------------------------------
(* Reading the state *)

(* State::margtimestep: the oldest clone.                                  *)
MargTime == CHOOSE c \in clones : \A d \in clones : c <= d

OverFull_Late == Cardinality(clones) > MaxClones + 1
(* The window holds a clone more than it may keep.                         *)
OverFull == Cardinality(clones) > MaxClones

(* The oldest features are looked at before the window is full.            *)
WindowReady == OverFull \/ Cardinality(clones) > EnoughClones

Fewest(a, b) == IF a < b THEN a ELSE b

SlamAllowed == msg - startup >= SlamDelay /\ msg >= startup

CurrAruco_CountsAll == Cardinality(slam)
(* Landmarks of aruco corners do not count against max_slam_features.      *)
CurrAruco == Cardinality(slam \cap Arucos)

(* Measurements of f that the updaters keep (clean_old_measurements).      *)
Usable(f) == db[f] \cap clones

Lost_BothDatabases == {f \in Features : db[f] # {} /\ \A t \in db[f] : t < ts}
(* The feature lists do_feature_propagate_update starts from.              *)
Lost      == {f \in Tracks : db[f] # {} /\ \A t \in db[f] : t < ts}
Marg      == IF WindowReady THEN {f \in Tracks : MargTime \in db[f]} ELSE {}
ArucoMarg == IF WindowReady /\ SlamAllowed
               THEN {f \in Arucos : MargTime \in db[f]} ELSE {}
MaxTracks == {f \in Marg : Cardinality(db[f]) > MaxClones}

(* How many of the longest tracks may become landmarks.                    *)
Room == IF SlamAllowed /\ Cardinality(slam) < MaxSlam + CurrAruco
          THEN MaxSlam + CurrAruco - Cardinality(slam) ELSE 0

(* Landmarks to drop: no longer tracked, or failed twice; never an aruco.  *)
Dropped == {f \in slam \cap Tracks : db[f] = {} \/ fails[f] > 1}

-----------------------------------------------------------------------------
(* track_image_and_update *)

(* The trackers append the new measurements of the features they see, also *)
(* when a time comes twice.                                                *)
Track(m, seen) ==
  /\ phase = "idle"
  /\ msg' = m
  /\ db' = [f \in Features |-> IF f \in seen THEN db[f] \cup {m} ELSE db[f]]
  /\ used' = used \ (seen \X {m})
  /\ phase' = "zupt"
  /\ UNCHANGED <<stateVars, del, listVars, zuptVars, reused>>

ZuptGate == TryZupt /\ (OnlyAtBeginning => ~moved)

ZuptSkip ==
  /\ phase = "zupt"
  /\ ~ZuptGate
  /\ phase' = "propagate"
  /\ UNCHANGED <<stateVars, db, del, msg, listVars, zuptVars, histVars>>

ZuptRepeat_Forgets ==
  /\ phase = "zupt"
  /\ ZuptGate /\ ts = msg
  /\ phase' = "propagate"
  /\ UNCHANGED <<stateVars, db, del, msg, listVars, zuptVars, histVars>>

(* State already at this time: the decision of the last image stands.      *)
ZuptRepeat ==
  /\ phase = "zupt"
  /\ ZuptGate /\ ts = msg
  /\ phase' = IF didZupt THEN "idle" ELSE "propagate"
  /\ UNCHANGED <<stateVars, db, del, msg, listVars, zuptVars, histVars>>

(* try_update returns false: early, or after the tests (count reset).      *)
ZuptReject ==
  /\ phase = "zupt"
  /\ ZuptGate /\ ts # msg
  /\ didZupt' = FALSE
  /\ zuptTs' = 0
  /\ zuptCount' \in {zuptCount, 0}
  /\ phase' = "propagate"
  /\ UNCHANGED <<stateVars, db, del, msg, listVars, moved, histVars>>

(* The state moves to the image's time without a clone, also to an older   *)
(* one: select_imu_readings finds two readings for a reversed interval too.*)
(* The updater's database is the one of trackFEATS.                        *)
ZuptAccept ==
  /\ phase = "zupt"
  /\ ZuptGate /\ ts # msg
  /\ db' = [f \in Features |-> IF f \in Tracks /\ zuptCount >= 2 THEN db[f] \ {zuptTs} ELSE db[f]]
  /\ ts' = msg
  /\ didZupt' = TRUE
  /\ zuptTs' = msg
  /\ zuptCount' = Fewest(zuptCount + 1, 2)
  /\ phase' = "idle"
  /\ UNCHANGED <<startup, clones, slam, anchor, fails, del, msg, listVars, moved, histVars>>

-----------------------------------------------------------------------------
(* do_feature_propagate_update *)

OutOfOrder ==
  /\ phase = "propagate"
  /\ ts > msg
  /\ phase' = "idle"
  /\ UNCHANGED <<stateVars, db, del, msg, listVars, zuptVars, histVars>>

(* propagate_and_clone, unless the state is there already; with too few    *)
(* clones the handler ends here.                                           *)
Propagate ==
  /\ phase = "propagate"
  /\ ts = msg \/ (ts < msg /\ msg \notin clones)
  /\ ts' = msg
  /\ clones' = IF msg = ts THEN clones ELSE clones \cup {msg}
  /\ LET enough == Cardinality(clones') >= Fewest(MaxClones, EnoughClones)
     IN /\ phase' = IF enough THEN "select" ELSE "idle"
        /\ moved' = (moved \/ enough)
  /\ UNCHANGED <<startup, slam, anchor, fails, db, del, msg, listVars, didZupt, zuptTs, zuptCount, histVars>>

(* augment_clone ends the process if that time has a clone already.        *)
DoubleClone ==
  /\ phase = "propagate"
  /\ ts < msg /\ msg \in clones
  /\ phase' = "exit"
  /\ UNCHANGED <<stateVars, db, del, msg, listVars, zuptVars, histVars>>

(* The chosen long tracks leave the MSCKF list, the rest of it is cut to   *)
(* the MaxMsckf features with most measurements.  A feature has one or two *)
(* measurements, of one or both cameras, at each of its times.             *)
MsckfLists_KeepChosen(chosen) ==
  LET all == Lost \cup Marg
  IN {cut \in SUBSET all :
        /\ Cardinality(cut) = Fewest(Cardinality(all), MaxMsckf)
        /\ \A f \in cut, g \in all \ cut : Cardinality(db[g]) <= 2 * Cardinality(db[f])}

MsckfLists(chosen) ==
  LET all == (Lost \cup Marg) \ chosen
  IN {cut \in SUBSET all :
        /\ Cardinality(cut) = Fewest(Cardinality(all), MaxMsckf)
        /\ \A f \in cut, g \in all \ cut : Cardinality(db[g]) <= 2 * Cardinality(db[f])}

(* Choose the features of the three updates; marginalize_slam in between.  *)
(* Which of MaxTracks were seen that long by one camera is left open.  A   *)
(* landmark that is also chosen is in the list, and counts, twice.  One    *)
(* that is dropped takes its anchor and count along.                       *)
Select ==
  /\ phase = "select"
  /\ \E chosen \in SUBSET MaxTracks :
       /\ Cardinality(chosen) <= Room
       /\ LET feats_slam == ArucoMarg \cup chosen \cup {f \in slam : db[f] # {}}
          IN /\ slam' = slam \ Dropped
             /\ anchor' = [f \in Features |-> IF f \in Dropped THEN 0 ELSE anchor[f]]
             /\ fails' = [f \in Features |-> IF f \in Dropped THEN 0 ELSE fails[f]]
             /\ slamUp' = feats_slam \cap slam'
             /\ slamNew' = feats_slam \ slam'
       /\ msckf' \in MsckfLists(chosen)
       /\ reused' = (reused \/ (ArucoMarg \cup chosen) \cap slam # {})
  /\ phase' = "msckf"
  /\ UNCHANGED <<ts, startup, clones, db, del, msg, zuptVars, used>>

(* The measurements an update consumes; a measurement may count only once. *)
Consume(feats) ==
  LET now == UNION {{<<f, t>> : t \in Usable(f)} : f \in feats}
  IN /\ used' = {u \in used \cup now : u[2] \in clones}
     /\ reused' = (reused \/ used \cap now # {})

(* UpdaterMSCKF::update; every feature given to it is flagged for deletion.*)
MsckfUpdate ==
  /\ phase = "msckf"
  /\ Consume(msckf)
  /\ del' = del \cup msckf
  /\ phase' = "slam"
  /\ UNCHANGED <<stateVars, db, msg, listVars, zuptVars>>

(* A single depth needs two measurements.  A landmark measured at one time *)
(* may have been seen by one camera only.                                  *)
TooFew == {f \in slamUp : SingleDepth /\ Cardinality(Usable(f)) = 1}

(* UpdaterSLAM::update in batches; features without a measurement at a     *)
(* clone are dropped, a failed chi-square test is counted.  A feature with *)
(* too few measurements leaves the list neither used nor flagged, without  *)
(* those that have no clone.                                               *)
SlamUpdate ==
  /\ phase = "slam"
  /\ \E left \in SUBSET TooFew :
       /\ \E rejected \in SUBSET {f \in slamUp \ left : Usable(f) # {}} :
            fails' = [f \in Features |-> IF f \in rejected THEN Fewest(fails[f] + 1, 2) ELSE fails[f]]
       /\ Consume(slamUp \ left)
       /\ del' = del \cup (slamUp \ left)
       /\ db' = [f \in Features |-> IF f \in left THEN Usable(f) ELSE db[f]]
  /\ phase' = "delayed"
  /\ UNCHANGED <<ts, startup, clones, slam, anchor, msg, listVars, zuptVars>>

(* UpdaterSLAM::delayed_init: triangulate, anchor at the last measurement  *)
(* of one camera, initialise unless a test fails.                          *)
DelayedInit ==
  /\ phase = "delayed"
  /\ \E added \in SUBSET {f \in slamNew : Usable(f) # {}} :
       /\ slam' = slam \cup added
       /\ fails' = [f \in Features |-> IF f \in added THEN 0 ELSE fails[f]]
       /\ \E a \in [added -> clones] :
            /\ \A f \in added : a[f] \in Usable(f)
            /\ anchor' = [f \in Features |-> IF f \in added THEN a[f] ELSE anchor[f]]
       /\ Consume(added)
  /\ del' = del \cup slamNew
  /\ phase' = "cleanup"
  /\ UNCHANGED <<ts, startup, clones, db, msg, listVars, zuptVars>>

(* FeatureDatabase::cleanup of both databases.                             *)
Cleanup ==
  /\ phase = "cleanup"
  /\ db' = [f \in Features |-> IF f \in del THEN {} ELSE db[f]]
  /\ del' = {}
  /\ phase' = "anchors"
  /\ UNCHANGED <<stateVars, msg, listVars, zuptVars, histVars>>

MovesAnchor_TracksOnly(f) == OverFull /\ Anchored /\ f \in slam \cap Tracks /\ anchor[f] = MargTime
(* A landmark anchored at the clone that is about to go.                   *)
MovesAnchor(f) == OverFull /\ Anchored /\ f \in slam /\ anchor[f] = MargTime

(* UpdaterSLAM::change_anchors: such a landmark is anchored at _timestamp. *)
ChangeAnchors ==
  /\ phase = "anchors"
  /\ anchor' = [f \in Features |-> IF MovesAnchor(f) THEN ts ELSE anchor[f]]
  /\ phase' = "marg"
  /\ UNCHANGED <<ts, startup, clones, slam, fails, db, del, msg, listVars, zuptVars, histVars>>

(* cleanup_measurements and marginalize_old_clone.                         *)
MarginalizeOldClone ==
  /\ phase = "marg"
  /\ IF OverFull
       THEN /\ clones' = clones \ {MargTime}
            /\ db' = [f \in Features |-> {t \in db[f] : t > MargTime}]
       ELSE UNCHANGED <<clones, db>>
  /\ msckf' = {} /\ slamUp' = {} /\ slamNew' = {}
  /\ phase' = "idle"
  /\ UNCHANGED <<ts, startup, slam, anchor, fails, del, msg, zuptVars, histVars>>

-----------------------------------------------------------------------------
(* After initialisation the state is at the time of the first solution or  *)
(* of the last image replayed; the images replayed, not all that were      *)
(* tracked meanwhile, have clones.  What trackFEATS measured since the     *)
(* first solution is kept; trackARUCO has not been fed yet.  msg is the    *)
(* last image tracked, or the state's time if that is newer.               *)
Init ==
  /\ startup \in Times
  /\ clones \in {C \in SUBSET {t \in Times : t > startup} : Cardinality(C) <= MaxClones}
  /\ ts \in Times
  /\ \/ ts = startup /\ clones = {}
     \/ ts \in clones /\ \A c \in clones : c <= ts
  /\ slam = {}
  /\ anchor = [f \in Features |-> 0] /\ fails = [f \in Features |-> 0]
  /\ msg \in {t \in Times : t >= ts}
  /\ db \in [Features -> SUBSET {t \in Times : startup < t /\ t <= msg}]
  /\ \A f \in Arucos : db[f] = {}
  /\ del = {} /\ phase = "idle"
  /\ msckf = {} /\ slamUp = {} /\ slamNew = {}
  /\ didZupt = FALSE /\ zuptTs = 0 /\ zuptCount = 0 /\ moved \in BOOLEAN
  /\ used = {} /\ reused = FALSE

TrackImage == \E m \in Times, seen \in SUBSET Features : Track(m, seen)

Next == \/ TrackImage
        \/ ZuptSkip \/ ZuptRepeat \/ ZuptReject \/ ZuptAccept
        \/ OutOfOrder \/ Propagate \/ DoubleClone \/ Select \/ MsckfUpdate \/ SlamUpdate
        \/ DelayedInit \/ Cleanup \/ ChangeAnchors \/ MarginalizeOldClone

Spec == Init /\ [][Next]_vars

(* Images arrive in time order, none older than the initial state; a time  *)
(* may come twice.                                                         *)
InOrderSpec == Init /\ [][Next /\ msg' >= msg]_vars

-----------------------------------------------------------------------------
(* Properties *)

Phases == {"idle", "zupt", "propagate", "select", "msckf", "slam", "delayed",
           "cleanup", "anchors", "marg", "exit"}

(* The shape of the state; clones and landmarks are among the known times  *)
(* and features.                                                           *)
TypeOK ==
  /\ ts \in Times /\ startup \in Times /\ msg \in Times
  /\ clones \subseteq Times
  /\ slam \subseteq Features
  /\ anchor \in [Features -> Times \cup {0}]
  /\ fails \in [Features -> 0..2]
  /\ db \in [Features -> SUBSET Times]
  /\ del \subseteq Features
  /\ phase \in Phases
  /\ msckf \subseteq Tracks /\ slamUp \subseteq Features /\ slamNew \subseteq Features
  /\ didZupt \in BOOLEAN /\ moved \in BOOLEAN
  /\ zuptTs \in Times \cup {0} /\ zuptCount \in 0..2
  /\ used \subseteq Features \X Times /\ reused \in BOOLEAN

(* Every landmark with a relative representation hangs on a clone that is  *)
(* still in the state: UpdaterSLAM reads it with _clones_IMU.at(), which   *)
(* throws for a marginalised one, and so does change_anchors.              *)
AnchorsLive == Anchored => \A f \in slam : anchor[f] \in clones

(* Between images the window holds at most max_clone_size clones and only  *)
(* while one is being handled one more, also when zero velocity updates    *)
(* move the state back behind its clones.                                  *)
(* The covariance grows with every clone that is not marginalised.         *)
WindowBound ==
  /\ IsFiniteSet(clones)
  /\ Cardinality(clones) <= MaxClones + 1
  /\ phase \in {"idle", "zupt", "propagate"} => Cardinality(clones) <= MaxClones

(* With images in order the updates that follow propagation find a clone   *)
(* at the state's time: change_anchors reads _clones_IMU.at(_timestamp);   *)
(* no clone is newer than the state; and propagation never clones a time   *)
(* twice, on which augment_clone exits the process.                        *)
CloneAtStateTime ==
  /\ phase \notin {"idle", "zupt", "propagate"} => ts \in clones
  /\ \A c \in clones : c <= ts
  /\ phase # "exit"

(* The assertion of retriangulate_active_tracks, which runs between the    *)
(* delayed initialisations and the cleanup: the image has a clone.  With   *)
(* images in any order an out-of-order image between two images of one     *)
(* time overwrites the decision that the second of them relies on.         *)
RetriangulationHasClone == phase = "cleanup" => msg \in clones

(* max_slam_features bounds the landmarks that are not aruco corners, also *)
(* when landmarks are dropped and others added in the same image.          *)
SlamBudget == Cardinality(slam \cap Tracks) <= MaxSlam

(* With images in order no measurement enters the filter twice, whether    *)
(* through an MSCKF update, a landmark update or a delayed initialisation. *)
(* Counting one twice makes the covariance overconfident.  The single      *)
(* depth is left out: what its update left over may be used by two lists   *)
(* of a later image.                                                       *)
NoMeasurementReused == SingleDepth \/ ~reused

(* With images in order the state's time never goes back.                  *)
TimeNeverBackwards == [][ts' >= ts]_ts

(* Whatever the order of the images, only a zero velocity update moves the *)
(* state back: never when they are off, nor after the first motion if they *)
(* are meant for the beginning.                                            *)
BackOnlyByZupt == [][ts' < ts => ZuptGate /\ didZupt']_vars

-----------------------------------------------------------------------------
(* Inductive strengthenings, proved in SlidingWindow_proofs; OnceInv and   *)
(* what it consists of for landmarks that are not a single depth           *)

(* A state time without a clone is the time of a zero velocity update that *)
(* a repeated image would still be absorbed by.                            *)
TimeIsCovered == ts \in clones \/ clones = {} \/ (didZupt /\ ZuptGate)

(* Where the times of image and clones stand to the state's, by phase.     *)
OrderInv ==
  /\ phase # "exit" /\ \A c \in clones : c <= ts
  /\ phase \in {"idle", "zupt", "propagate"} => msg >= ts
  /\ phase = "idle" /\ msg = ts => TimeIsCovered
  /\ phase = "zupt" /\ msg = ts => TimeIsCovered
  /\ phase = "propagate" /\ msg = ts => ts \in clones \/ clones = {}
  /\ phase \notin {"idle", "zupt", "propagate"} => ts \in clones /\ msg = ts

(* Before the oldest clone goes no landmark hangs on it.                   *)
AnchorInv ==
  /\ AnchorsLive
  /\ phase = "marg" /\ OverFull /\ Anchored => \A f \in slam : anchor[f] # MargTime

(* The features each update has flagged so far.                            *)
FlagsInv ==
  del = CASE phase = "slam"    -> msckf
          [] phase = "delayed" -> msckf \cup slamUp
          [] phase = "cleanup" -> msckf \cup slamUp \cup slamNew
          [] OTHER             -> {}

(* A consumed measurement that is still stored belongs to a flagged feature. *)
StoredInv ==
  \A f \in Features : \A t \in db[f] : t <= msg /\ (<<f, t>> \in used => f \in del)

(* A feature in two lists has no measurement at a clone.                   *)
ListsInv ==
  phase \in {"msckf", "slam", "delayed"} =>
    /\ slamUp \cap slamNew = {}
    /\ \A f \in msckf \cap (slamUp \cup slamNew) : Usable(f) = {}

(* Between images a landmark has no measurement left at a clone, while one *)
(* is handled only those of this image.                                    *)
LandmarksInv ==
  \A f \in slam :
    /\ phase \in {"idle", "anchors", "marg"} => Usable(f) = {}
    /\ phase \in {"zupt", "propagate", "select"} => Usable(f) \subseteq {msg}
    /\ phase \in {"msckf", "slam", "delayed", "cleanup"} =>
         db[f] = {} \/ f \in slamUp \cup slamNew

(* An image absorbed by a zero velocity update has no clone at its time.   *)
AbsorbedInv ==
  didZupt /\ ZuptGate => phase \in {"idle", "zupt"} /\ ts \notin clones

(* Once there are landmarks every propagation goes on to the updates.      *)
EnoughInv ==
  slam # {} \/ phase \notin {"idle", "zupt", "propagate"} =>
    Cardinality(clones) >= Fewest(MaxClones, EnoughClones)

OnceInv == FlagsInv /\ StoredInv /\ ListsInv /\ LandmarksInv /\ AbsorbedInv /\ EnoughInv

(* The landmarks to come are within the budget as well.                    *)
BudgetInv ==
  Cardinality((IF phase \in {"msckf", "slam", "delayed"} THEN slam \cup slamNew ELSE slam)
                \cap Tracks) <= MaxSlam
=============================================================================
