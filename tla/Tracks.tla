------------------------------ MODULE Tracks ------------------------------
(* The bookkeeping of the feature trackers, TrackKLT and TrackDescriptor,  *)
(* with one camera thread per image (monocular) or one thread for the pair *)
(* (stereo): which identifier is handed to which point, which points are   *)
(* in the lists kept from the last image, and which measurements reach the *)
(* feature database, while the initialisation thread and later the filter  *)
(* delete from that database.                                              *)
(*                                                                         *)
(* What the image processing finds is a free choice: the points detection  *)
(* removes or adds, and the fate of every point it follows. A list of the  *)
(* code (pts_last and ids_last of a camera, index by index) is a bag of    *)
(* identifiers: no decision of the code depends on the order of a list.    *)
EXTENDS FeatureDb, Bags

CONSTANTS
  Left, Right,      \* the two cameras of a stereo pair
  Kinds,            \* the trackers considered, among "klt" and "desc"
  Stereos,          \* the values of use_stereo considered
  InitFeatures,     \* num_features until initialised: init_max_features
  NumFeatures,      \* num_features afterwards: num_pts, per camera
  MinMatch,         \* fewer points cannot be matched: 10 in the code
  MaxNew,           \* bound: points one detection finds in an image
  FirstId,          \* currid before the first point: 4 * max_aruco + 1
  MaxId, MaxTime    \* bounds: identifiers drawn, images

ASSUME CamsAreTwo == Left # Right /\ Cams = {Left, Right}
ASSUME Options == Kinds \subseteq {"klt", "desc"} /\ Stereos \subseteq BOOLEAN
ASSUME Counts == /\ {InitFeatures, NumFeatures, MinMatch, MaxNew} \subseteq Nat
                 /\ {FirstId, MaxId, MaxTime} \subseteq Nat /\ FirstId <= MaxId

VARIABLES
  kind, stereo,     \* the tracker that runs, and whether it matches the pair
  initialized,      \* the filter runs: the initialisation thread has ended
  currid,           \* the last identifier drawn, by either camera's thread
  ids,              \* ids_last: the points followed from the last image
  db,               \* the feature database
  now,              \* time of the image in hand, or of the last one
  pc,               \* where each camera's thread is in feed_new_camera
  pts,              \* its working list: good points of the image in hand
  todo,             \* those of them still to be stored in the database
  fresh,            \* identifiers its detection has drawn in this image
  owner             \* history: the cameras an identifier was drawn for

trackVars == <<currid, ids, pc, pts, todo, fresh, owner>>
vars == <<kind, stereo, initialized, db, now, trackVars>>

Ids == (FirstId + 1)..MaxId
Idle == \A c \in Cams : pc[c] = "idle"
Nothing == [c \in Cams |-> EmptyBag]

(* The part of a list whose identifiers are in K. *)
Kept(list, K) == [i \in K \cap DOMAIN list |-> list[i]]
---------------------------------------------------------------------------
(* Detection. *)

Wanted == IF initialized THEN NumFeatures ELSE InitFeatures

Missing(list) == Wanted - BagCardinality(list)

(* Half of the wanted points, and never more than 20. *)
Enough == IF Wanted \div 2 < 20 THEN Wanted \div 2 ELSE 20

(* The identifiers ++currid may return: the counter is atomic, so that two *)
(* camera threads never draw the same one.                                 *)
DrawnIds_PostIncrement == {IF currid = FirstId THEN currid ELSE currid + 1}
DrawnIds_Raced == {currid, currid + 1} \cap Ids
DrawnIds == {currid + 1} \cap Ids

(* feed_monocular begins: the KLT tracker drops the points of the last     *)
(* image that are at its edge, masked or too close to another one, the     *)
(* descriptor tracker starts from an empty list.                           *)
BeginMono(c) ==
  /\ ~stereo
  /\ pc[c] = "feed"
  /\ \E K \in SUBSET DOMAIN ids[c] :
       /\ kind = "desc" => K = {}
       /\ pts' = [pts EXCEPT ![c] = Kept(ids[c], K)]
  /\ pc' = [pc EXCEPT ![c] = "detect"]
  /\ UNCHANGED <<kind, stereo, initialized, db, now, currid, ids, todo, fresh, owner>>

(* perform_detection_monocular finds one more point. The KLT tracker only  *)
(* looks for points when it lacks enough of them.                          *)
Draw(c) ==
  /\ ~stereo
  /\ pc[c] = "detect"
  /\ Cardinality(fresh[c]) < MaxNew
  /\ kind = "klt" => Missing(Kept(pts[c], DOMAIN pts[c] \ fresh[c])) >= Enough
  /\ \E id \in DrawnIds :
       /\ currid' = id
       /\ pts' = [pts EXCEPT ![c] = @ (+) SetToBag({id})]
       /\ fresh' = [fresh EXCEPT ![c] = @ \cup {id}]
       /\ owner' = [owner EXCEPT ![id] = {c}]
  /\ UNCHANGED <<kind, stereo, initialized, db, now, ids, pc, todo>>

(* The next n identifiers, drawn by one thread. *)
NewIds(n) == (currid + 1)..(currid + n)

(* perform_detection_stereo of the KLT tracker. Points of the left list    *)
(* are removed, then new ones found if it lacks more than enough: those KLT *)
(* finds again in the right image (pair) are put in both lists under one   *)
(* identifier. The right list goes through the same, its new points are    *)
(* the right camera's alone.                                               *)
KltDetectStereo ==
  /\ kind = "klt" /\ stereo
  /\ \A c \in Cams : pc[c] = "feed"
  /\ \E KL \in SUBSET DOMAIN ids[Left], nl, nr \in 0..MaxNew :
     LET left0 == Kept(ids[Left], KL)
         left  == left0 (+) SetToBag(NewIds(nl))
     IN  /\ nl > 0 => Missing(left0) > Enough
         /\ currid + nl + nr <= MaxId
         /\ \E pair \in SUBSET NewIds(nl) :
            LET right0 == ids[Right] (+) SetToBag(pair) IN
            \E KR \in SUBSET DOMAIN right0 :
            LET right1 == Kept(right0, KR)
                mono   == (currid + nl + 1)..(currid + nl + nr)
            IN  /\ nr > 0 => Missing(right1) > Enough
                /\ pts' = [c \in Cams |-> IF c = Left THEN left ELSE right1 (+) SetToBag(mono)]
                /\ owner' = [i \in Ids |-> IF i \in pair THEN Cams
                                           ELSE IF i \in NewIds(nl) THEN {Left}
                                           ELSE IF i \in mono THEN {Right} ELSE owner[i]]
         /\ currid' = currid + nl + nr
         /\ fresh' = [c \in Cams |-> NewIds(nl + nr)]
  /\ pc' = [c \in Cams |-> "detect"]
  /\ UNCHANGED <<kind, stereo, initialized, db, now, ids, todo>>

(* perform_detection_stereo of the descriptor tracker: every point kept is *)
(* one that was matched between the two images.                            *)
DescDetectStereo ==
  /\ kind = "desc" /\ stereo
  /\ \A c \in Cams : pc[c] = "feed"
  /\ \E n \in 0..MaxNew :
       /\ currid + n <= MaxId
       /\ pts' = [c \in Cams |-> SetToBag(NewIds(n))]
       /\ fresh' = [c \in Cams |-> NewIds(n)]
       /\ owner' = [i \in Ids |-> IF i \in NewIds(n) THEN Cams ELSE owner[i]]
       /\ currid' = currid + n
  /\ pc' = [c \in Cams |-> "detect"]
  /\ UNCHANGED <<kind, stereo, initialized, db, now, ids, todo>>
---------------------------------------------------------------------------
(* Following the points of the last image into this one. *)

(* The last images of these cameras left too few points to follow: what    *)
(* was detected is only saved. The descriptor tracker starts again as soon *)
(* as one list of the pair is empty, the KLT tracker when both are.        *)
StartsAgain(C) ==
  IF kind = "klt" THEN \A c \in C : ids[c] = EmptyBag ELSE \E c \in C : ids[c] = EmptyBag

(* Move forward in time: these lists are the ones to follow next, and the  *)
(* thread of these cameras is done.                                        *)
Done(C, lists) ==
  /\ ids' = [c \in Cams |-> IF c \in C THEN lists[c] ELSE ids[c]]
  /\ pts' = [c \in Cams |-> IF c \in C THEN EmptyBag ELSE pts[c]]
  /\ fresh' = [c \in Cams |-> IF c \in C THEN {} ELSE fresh[c]]
  /\ pc' = [c \in Cams |-> IF c \in C THEN "idle" ELSE pc[c]]
  /\ UNCHANGED <<kind, stereo, initialized, db, now, currid, todo, owner>>

SaveDetected(C) ==
  /\ \A c \in C : pc[c] = "detect"
  /\ StartsAgain(C)
  /\ Done(C, pts)

(* Not a point left to match: the lists are cleared. *)
Reset(C) ==
  /\ kind = "klt"
  /\ \A c \in C : pc[c] = "detect" /\ pts[c] = EmptyBag
  /\ ~StartsAgain(C)
  /\ Done(C, Nothing)

(* The good points go to the database next. *)
Matched(C, good) ==
  /\ pts' = [c \in Cams |-> IF c \in C THEN good[c] ELSE pts[c]]
  /\ todo' = [c \in Cams |-> IF c \in C THEN good[c] ELSE todo[c]]
  /\ pc' = [c \in Cams |-> IF c \in C THEN "store" ELSE pc[c]]
  /\ UNCHANGED <<kind, stereo, initialized, db, now, currid, ids, fresh, owner>>

(* What perform_matching and the bounds of the image can say of the points *)
(* of a list: with fewer than MinMatch of them all are lost. Whether a left *)
(* point is lost or has left its image makes no difference, a right one     *)
(* that is outside takes its left point with it.                            *)
Fates(list, outcomes) ==
  [DOMAIN list -> IF BagCardinality(list) < MinMatch THEN {"lost"} ELSE outcomes]

KltMatchMono(c) ==
  /\ kind = "klt" /\ ~stereo
  /\ pc[c] = "detect" /\ ~StartsAgain({c}) /\ pts[c] # EmptyBag
  /\ \E fate \in Fates(pts[c], {"lost", "good"}) :
       Matched({c}, [d \in {c} |-> Kept(pts[d], {i \in DOMAIN fate : fate[i] = "good"})])

(* feed_stereo of the KLT tracker: a point followed in both images stays a *)
(* pair, one followed in one of them goes on there alone; one that left    *)
(* the right image is dropped from both.                                   *)
GoodPairs(fl, fr) == {i \in DOMAIN fl \cap DOMAIN fr : fl[i] = "good" /\ fr[i] = "good"}
GoodLeft(fl, fr) ==
  {i \in DOMAIN fl : fl[i] = "good" /\ ~(i \in DOMAIN fr /\ fr[i] = "outside")}
(* added_already keeps the right point of a pair from being added twice. *)
GoodRight_Twice(list, fl, fr) ==
  Kept(list, GoodPairs(fl, fr)) (+) Kept(list, {i \in DOMAIN fr : fr[i] = "good"})
GoodRight(list, fl, fr) ==
  Kept(list, GoodPairs(fl, fr))
    (+) Kept(list, {i \in DOMAIN fr : fr[i] = "good" /\ i \notin GoodPairs(fl, fr)})

KltMatchStereo ==
  /\ kind = "klt" /\ stereo
  /\ \A c \in Cams : pc[c] = "detect"
  /\ ~StartsAgain(Cams) /\ \E c \in Cams : pts[c] # EmptyBag
  /\ \E fl \in Fates(pts[Left], {"lost", "good"}),
        fr \in Fates(pts[Right], {"lost", "outside", "good"}) :
       Matched(Cams, [c \in Cams |-> IF c = Left THEN Kept(pts[Left], GoodLeft(fl, fr))
                                     ELSE GoodRight(pts[Right], fl, fr)])

(* robust_match between the last points and the new ones: a partial map    *)
(* from new to old, one to one because of the symmetry test, with at least *)
(* MinMatch pairs before outliers are rejected.                            *)
OneToOne_Untested(m) == TRUE
OneToOne(m) == \A i, j \in DOMAIN m : m[i] = m[j] => i = j
Matches(new, old) ==
  {m \in UNION {[D -> old] : D \in SUBSET new} :
     OneToOne(m) /\ (Cardinality(new) < MinMatch \/ Cardinality(old) < MinMatch => DOMAIN m = {})}

(* Every new point, under its old identifier if it has been matched. *)
Renamed(new, m) ==
  LET Name(i) == IF i \in DOMAIN m THEN m[i] ELSE i
  IN  [id \in {Name(i) : i \in new} |-> Cardinality({i \in new : Name(i) = id})]

DescMatchMono(c) ==
  /\ kind = "desc" /\ ~stereo
  /\ pc[c] = "detect" /\ ~StartsAgain({c})
  /\ \E m \in Matches(fresh[c], DOMAIN ids[c]) :
       Matched({c}, [d \in {c} |-> Renamed(fresh[d], m)])

(* feed_stereo of the descriptor tracker: a pair keeps its old identifier  *)
(* only when both of its points were matched to the same old pair.         *)
SamePast_Unchecked(ml, mr) == DOMAIN ml \cap DOMAIN mr
SamePast(ml, mr) == {i \in DOMAIN ml \cap DOMAIN mr : ml[i] = mr[i]}
DescMatchStereo ==
  /\ kind = "desc" /\ stereo
  /\ \A c \in Cams : pc[c] = "detect"
  /\ ~StartsAgain(Cams)
  /\ \E ml \in Matches(fresh[Left], DOMAIN ids[Left]), mr \in Matches(fresh[Right], DOMAIN ids[Right]) :
       LET old(m) == [i \in SamePast(ml, mr) |-> m[i]]
       IN  Matched(Cams, [c \in Cams |-> Renamed(fresh[c], old(IF c = Left THEN ml ELSE mr))])

(* One call of update_feature. A single thread stores the points of a pair *)
(* of images, the left ones first; within a list the order of the calls    *)
(* shows in nothing, and is that of the identifiers.                       *)
Store(c) ==
  /\ pc[c] = "store" /\ todo[c] # EmptyBag
  /\ stereo /\ c = Right => todo[Left] = EmptyBag
  /\ \E id \in DOMAIN todo[c] :
       /\ \A other \in DOMAIN todo[c] : id <= other
       /\ db' = update_feature(db, id, now, c)
       /\ todo' = [todo EXCEPT ![c] = @ (-) SetToBag({id})]
  /\ UNCHANGED <<kind, stereo, initialized, now, currid, ids, pc, pts, fresh, owner>>

(* All good points are stored. *)
Save(C) ==
  /\ \A c \in C : pc[c] = "store" /\ todo[c] = EmptyBag
  /\ Done(C, pts)
---------------------------------------------------------------------------
(* The thread that feeds images, and the others that use the database. *)

(* feed_new_camera is called with the images of one time, once the threads *)
(* of the call before have ended.                                          *)
FeedNewCamera ==
  /\ Idle /\ now < MaxTime
  /\ now' = now + 1
  /\ pc' = [c \in Cams |-> "feed"]
  /\ UNCHANGED <<kind, stereo, initialized, db, currid, ids, pts, todo, fresh, owner>>

(* The initialisation thread deletes measurements of the past, at any time *)
(* and between any two calls of the tracker; once it has succeeded it      *)
(* deletes up to the time of the initial state.                            *)
InitializerCleans ==
  /\ ~initialized
  /\ \E time \in 1..MaxTime : db' = cleanup_measurements(db, time)
  /\ initialized' \in BOOLEAN
  /\ UNCHANGED <<kind, stereo, now, trackVars>>

(* After an update the filter deletes the features it has used and all     *)
(* measurements up to the clone that leaves the window.                    *)
FilterCleans ==
  /\ initialized /\ Idle
  /\ \E used \in SUBSET DOMAIN db, time \in 0..(now - 1) :
       db' = cleanup_measurements(cleanup(db, used), time)
  /\ UNCHANGED <<kind, stereo, initialized, now, trackVars>>

(* A zero velocity update deletes those of the image before. *)
ZeroVelocityTime_Now == 1..now
ZeroVelocityTime == 1..(now - 1)
ZeroVelocityCleans ==
  /\ initialized /\ Idle
  /\ \E time \in ZeroVelocityTime : db' = cleanup_measurements_exact(db, time)
  /\ UNCHANGED <<kind, stereo, initialized, now, trackVars>>

(* The groups of cameras one thread handles. *)
Threads == IF stereo THEN {Cams} ELSE {{c} : c \in Cams}

Init ==
  /\ kind \in Kinds /\ stereo \in Stereos
  /\ initialized = FALSE
  /\ currid = FirstId
  /\ ids = Nothing /\ pts = Nothing /\ todo = Nothing
  /\ db = [i \in {} |-> {}]
  /\ now = 0
  /\ pc = [c \in Cams |-> "idle"]
  /\ fresh = [c \in Cams |-> {}]
  /\ owner = [i \in Ids |-> {}]

Track ==
  \/ \E c \in Cams : BeginMono(c) \/ Draw(c) \/ KltMatchMono(c) \/ DescMatchMono(c) \/ Store(c)
  \/ KltDetectStereo \/ DescDetectStereo \/ KltMatchStereo \/ DescMatchStereo
  \/ \E C \in Threads : SaveDetected(C) \/ Reset(C) \/ Save(C)
  \/ FeedNewCamera

Clean == InitializerCleans \/ FilterCleans \/ ZeroVelocityCleans

Spec == Init /\ [][Track \/ Clean]_vars
---------------------------------------------------------------------------
(* Properties. *)

TypeOK ==
  /\ kind \in Kinds /\ stereo \in Stereos /\ initialized \in BOOLEAN
  /\ currid \in FirstId..MaxId
  /\ now \in 0..MaxTime
  /\ pc \in [Cams -> {"idle", "feed", "detect", "store"}]
  /\ \A c \in Cams : DOMAIN ids[c] \cup DOMAIN pts[c] \cup DOMAIN todo[c] \cup fresh[c] \subseteq Ids
  /\ DOMAIN db \subseteq Ids
  /\ owner \in [Ids -> SUBSET Cams]

(* No camera's list holds an identifier twice, whichever points were        *)
(* removed, followed or renamed since: a point is followed once.            *)
IdsUnique == \A c \in Cams : \A i \in DOMAIN ids[c] : ids[c][i] = 1

(* An identifier stands for one point: a camera follows only identifiers    *)
(* that were drawn for its own images, and one that both cameras follow was *)
(* drawn for a point seen by both. The descriptor tracker keeps the lists   *)
(* of a stereo pair equal, which its assertions rely on.                    *)
OneIdOnePoint ==
  /\ \A c \in Cams : \A i \in DOMAIN ids[c] : c \in owner[i]
  /\ kind = "desc" /\ stereo /\ Idle => ids[Left] = ids[Right]

(* A point that left a camera's list never comes back under its identifier: *)
(* what is new in a list was drawn while this very image was handled, and   *)
(* no identifier is ever drawn again.                                       *)
NoIdReturns ==
  [][/\ \A c \in Cams : DOMAIN ids'[c] \subseteq DOMAIN ids[c] \cup fresh[c]
     /\ \A i \in Ids : owner[i] # {} => owner'[i] = owner[i]]_vars

(* Between images a feature without a measurement of the last image, which  *)
(* the filter takes to be lost, uses up and deletes, is in no camera's list. *)
LostMeansUntracked ==
  Idle => \A i \in features_not_containing_newer(db, now), c \in Cams : i \notin DOMAIN ids[c]

(* A feature is measured at most once in an image and only by a camera its  *)
(* identifier was drawn for: the times a camera has seen it at increase,    *)
(* whatever the other threads delete in between.                            *)
MeasuredOnce ==
  \A i \in DOMAIN db, c \in Cams :
    /\ db[i][c] # << >> => c \in owner[i]
    /\ \A j, k \in DOMAIN db[i][c] : j < k => db[i][c][j] < db[i][c][k]
=============================================================================
