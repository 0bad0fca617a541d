----------------------------- MODULE FeatureDb -----------------------------
(* ov_core::FeatureDatabase: the measurements of every feature, kept under *)
(* the identifier the tracker gave it. A database is a function from       *)
(* identifiers to the times, camera by camera, at which the feature was    *)
(* seen, in the order they were appended; pixels are left out. A camera    *)
(* the feature was never seen by has no times. Every operator is the body  *)
(* of one critical section of the database's mutex.                        *)
EXTENDS Integers, Sequences, Subsequences

CONSTANT Cams   \* the cameras

(* The times of feature id, none when the database does not have it. *)
Times(db, id) == IF id \in DOMAIN db THEN db[id] ELSE [c \in Cams |-> << >>]

(* update_feature: append a measurement, to a new feature if there is none *)
(* of that identifier.                                                     *)
update_feature(db, id, time, cam) ==
  [i \in DOMAIN db \cup {id} |->
     IF i = id THEN [Times(db, id) EXCEPT ![cam] = Append(@, time)] ELSE db[i]]

(* A camera's last measurement of the feature is at the time or after it. *)
SeenSince(times, time) ==
  \E c \in Cams : times[c] # << >> /\ times[c][Len(times[c])] >= time

(* features_not_containing_newer: the features no camera has seen since. *)
features_not_containing_newer(db, time) ==
  {i \in DOMAIN db : ~SeenSince(db[i], time)}

(* cleanup: erase the features an updater has set to_delete on. *)
cleanup(db, to_delete) == [i \in DOMAIN db \ to_delete |-> db[i]]

(* The times of a list that are not to go, in their order. *)
Staying(list, gone) == Subsequence(list, {k \in 1 .. Len(list) : list[k] \notin gone})

(* Both clean-ups of measurements: forget what was seen at these times,    *)
(* and erase the features that are left without any measurement.           *)
Pruned(db, gone) ==
  [i \in {j \in DOMAIN db : \E c \in Cams : Staying(db[j][c], gone) # << >>} |->
     [c \in Cams |-> Staying(db[i][c], gone)]]

(* cleanup_measurements: forget everything up to a time, that time included. *)
cleanup_measurements(db, time) == Pruned(db, 0 .. time)

(* cleanup_measurements_exact: forget what was seen at one time. *)
cleanup_measurements_exact(db, time) == Pruned(db, {time})
=============================================================================
