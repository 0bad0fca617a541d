--------------------------- MODULE Tracks_proofs ---------------------------
(* Proofs about the feature trackers of module Tracks, for every number of *)
(* images, identifiers and points.                                         *)
EXTENDS Tracks, Subsequences_proofs

(* A list of camera c: identifiers drawn for it, each held once. *)
Proper(c, list) == \A i \in DOMAIN list : i \in Ids /\ c \in owner[i] /\ list[i] = 1

Types ==
  /\ kind \in Kinds /\ stereo \in Stereos /\ initialized \in BOOLEAN
  /\ currid \in FirstId..MaxId
  /\ now \in 0..MaxTime
  /\ pc \in [Cams -> {"idle", "feed", "detect", "store"}]
  /\ owner \in [Ids -> SUBSET Cams]
  /\ fresh \in [Cams -> SUBSET Ids]

Shapes ==
  /\ ids = [c \in Cams |-> ids[c]]
  /\ pts = [c \in Cams |-> pts[c]]
  /\ todo = [c \in Cams |-> todo[c]]

(* What the counter has not reached yet has been drawn for no camera. *)
Undrawn == \A i \in Ids : i > currid => owner[i] = {}

Lists == \A c \in Cams : Proper(c, ids[c]) /\ Proper(c, pts[c])

(* The working list has old points of the camera and newly drawn ones, and *)
(* these are in no list yet.                                               *)
News ==
  \A c \in Cams :
    /\ DOMAIN pts[c] \subseteq DOMAIN ids[c] \cup fresh[c]
    /\ \A i \in fresh[c] : i \notin DOMAIN ids[c] /\ owner[i] # {}
    /\ kind = "desc" => \A i \in fresh[c] : c \in owner[i]

Stored == DOMAIN db \subseteq Ids /\ \A c \in Cams : DOMAIN todo[c] \subseteq Ids

Pairs ==
  kind = "desc" /\ stereo =>
    ids[Left] = ids[Right] /\ pts[Left] = pts[Right] /\ fresh[Left] = fresh[Right]

Inv == Types /\ Shapes /\ Undrawn /\ Lists /\ News /\ Stored /\ Pairs

(* The database: of identifiers that were drawn, each seen by the cameras  *)
(* it was drawn for, at times that increase up to now.                     *)
Measured ==
  \A i \in DOMAIN db :
    /\ owner[i] # {} /\ DOMAIN db[i] = Cams
    /\ \A c \in Cams : /\ db[i][c] \in Seq(Nat) /\ Increasing(db[i][c])
                       /\ db[i][c] # << >> => c \in owner[i]
                       /\ \A j \in 1 .. Len(db[i][c]) : db[i][c][j] <= now

(* What a camera's thread has still to store was not seen now by it. *)
Unseen ==
  \A i \in DOMAIN db, c \in Cams :
    pc[c] \in {"feed", "detect"} \/ (pc[c] = "store" /\ i \in DOMAIN todo[c]) =>
      \A j \in 1 .. Len(db[i][c]) : db[i][c][j] < now

Waiting == \A c \in Cams : Proper(c, todo[c])

(* A detected point is in the database only after it has been matched. *)
Unstored ==
  \A c \in Cams :
    /\ pc[c] \in {"idle", "feed"} => fresh[c] = {}
    /\ pc[c] = "detect" => fresh[c] \cap DOMAIN db = {}
    /\ pc[c] = "detect" /\ kind = "desc" => DOMAIN pts[c] \subseteq fresh[c]

(* One thread for the pair, or points that are each camera's own. *)
Alone ==
  /\ stereo => \A c, d \in Cams : pc[c] = pc[d]
  /\ ~stereo => \A c \in Cams : \A i \in fresh[c] : owner[i] = {c}

(* What camera c follows, as far as its points have been stored, was seen  *)
(* now by some camera, unless the database has forgotten it.               *)
Settled(c) == IF pc[c] = "idle" THEN DOMAIN ids[c]
              ELSE IF pc[c] = "store" THEN DOMAIN pts[c] \ DOMAIN todo[c] ELSE {}
Followed ==
  \A c \in Cams : \A i \in Settled(c) : i \in DOMAIN db => SeenSince(db[i], now)

DbInv == Measured /\ Unseen /\ Waiting /\ Unstored /\ Alone /\ Followed

(* What NoIdReturns says of a step. *)
Forward ==
  /\ \A c \in Cams : DOMAIN ids'[c] \subseteq DOMAIN ids[c] \cup fresh[c]
  /\ \A i \in Ids : owner[i] # {} => owner'[i] = owner[i]
---------------------------------------------------------------------------
(* Bags. *)

LEMMA KeptBag ==
  ASSUME NEW list, NEW K
  PROVE  /\ DOMAIN Kept(list, K) = K \cap DOMAIN list
         /\ \A i \in DOMAIN Kept(list, K) : Kept(list, K)[i] = list[i]
  BY DEF Kept

LEMMA AddedSet ==
  ASSUME NEW list, NEW S, \A i \in DOMAIN list : list[i] = 1, S \cap DOMAIN list = {}
  PROVE  /\ DOMAIN (list (+) SetToBag(S)) = DOMAIN list \cup S
         /\ \A i \in DOMAIN list \cup S : (list (+) SetToBag(S))[i] = 1
  BY DEF (+), SetToBag

LEMMA EmptyDomain == DOMAIN EmptyBag = {}
  BY DEF EmptyBag, SetToBag

(* Renaming new points to old ones, one to one, keeps every point single. *)
LEMMA RenamedBag ==
  ASSUME NEW new, NEW m, NEW old,
         \A i \in DOMAIN m : m[i] \in old,
         DOMAIN m \subseteq new,
         \A i, j \in DOMAIN m : m[i] = m[j] => i = j,
         new \cap old = {}
  PROVE  /\ DOMAIN Renamed(new, m) \subseteq old \cup new
         /\ \A i \in DOMAIN Renamed(new, m) : Renamed(new, m)[i] = 1
<1> DEFINE Name(i) == IF i \in DOMAIN m THEN m[i] ELSE i
           B == [id \in {Name(i) : i \in new} |-> Cardinality({i \in new : Name(i) = id})]
<1>1. Renamed(new, m) = B
  BY DEF Renamed
<1>2. \A i \in new : Name(i) \in old \cup new
  OBVIOUS
<1>3. \A i, j \in new : Name(i) = Name(j) => i = j
  OBVIOUS
<1>4. ASSUME NEW k \in new
      PROVE  Cardinality({i \in new : Name(i) = Name(k)}) = 1
  <2>1. {i \in new : Name(i) = Name(k)} = {k}
    BY <1>3
  <2> QED
    BY <2>1, FS_Singleton
<1> HIDE DEF Name
<1>5. \A id \in DOMAIN B : B[id] = 1
  BY <1>4
<1>6. DOMAIN B \subseteq old \cup new
  BY <1>2
<1> QED
  BY <1>1, <1>5, <1>6

LEMMA DbDomains ==
  ASSUME NEW d, NEW time
  PROVE  /\ \A id, c : DOMAIN update_feature(d, id, time, c) = DOMAIN d \cup {id}
         /\ \A used : DOMAIN cleanup(d, used) \subseteq DOMAIN d
         /\ DOMAIN cleanup_measurements(d, time) \subseteq DOMAIN d
         /\ DOMAIN cleanup_measurements_exact(d, time) \subseteq DOMAIN d
<1>1. \A id, c : DOMAIN update_feature(d, id, time, c) = DOMAIN d \cup {id}
  BY DEF update_feature
<1>2. \A used : DOMAIN cleanup(d, used) \subseteq DOMAIN d
  BY DEF cleanup
<1>3. DOMAIN cleanup_measurements(d, time) \subseteq DOMAIN d
  BY DEF cleanup_measurements, Pruned
<1>4. DOMAIN cleanup_measurements_exact(d, time) \subseteq DOMAIN d
  BY DEF cleanup_measurements_exact, Pruned
<1> QED
  BY <1>1, <1>2, <1>3, <1>4
---------------------------------------------------------------------------
(* The initial state and the steps that move no list. *)

LEMMA InitInv == Init => Inv
<1> SUFFICES ASSUME Init PROVE Inv
  OBVIOUS
<1> USE DEF Init
<1>1. Types
  <2>1. currid \in FirstId..MaxId /\ now \in 0..MaxTime
    BY Counts
  <2>2. initialized \in BOOLEAN
    OBVIOUS
  <2>3. /\ pc \in [Cams -> {"idle", "feed", "detect", "store"}]
        /\ owner \in [Ids -> SUBSET Cams]
        /\ fresh \in [Cams -> SUBSET Ids]
    OBVIOUS
  <2> QED
    BY <2>1, <2>2, <2>3 DEF Types
<1>2. Shapes
  BY DEF Shapes, Nothing
<1>3. Lists /\ News /\ Stored
  BY EmptyDomain DEF Lists, News, Stored, Proper, Nothing
<1>4. Undrawn
  BY DEF Undrawn
<1>5. Pairs
  BY CamsAreTwo DEF Pairs, Nothing
<1> QED
  BY <1>1, <1>2, <1>3, <1>4, <1>5 DEF Inv

LEMMA FeedStep ==
  ASSUME Inv, FeedNewCamera
  PROVE  Inv' /\ Forward
<1> USE DEF Inv, FeedNewCamera
<1>1. Types'
  <2>1. now' \in 0..MaxTime
    BY Counts DEF Types
  <2> QED
    BY <2>1 DEF Types, Ids
<1>2. Shapes' /\ Lists' /\ News' /\ Stored' /\ Undrawn' /\ Pairs'
  BY DEF Shapes, Lists, News, Stored, Undrawn, Pairs, Proper, Ids
<1>3. Forward
  BY DEF Forward
<1> QED
  BY <1>1, <1>2, <1>3

LEMMA CleanStep ==
  ASSUME Inv, Clean
  PROVE  Inv' /\ Forward
<1> USE DEF Inv
<1>1. DOMAIN db' \subseteq DOMAIN db
  BY DbDomains DEF Clean, InitializerCleans, FilterCleans, ZeroVelocityCleans
<1>2. UNCHANGED <<kind, stereo, now, trackVars>> /\ initialized' \in BOOLEAN
  BY DEF Clean, InitializerCleans, FilterCleans, ZeroVelocityCleans, Types
<1>3. Types'
  BY <1>2 DEF Types, trackVars, Ids
<1>4. Shapes' /\ Lists' /\ News' /\ Stored' /\ Undrawn' /\ Pairs'
  BY <1>1, <1>2 DEF Shapes, Lists, News, Stored, Undrawn, Pairs, Proper, Ids, trackVars
<1>5. Forward
  BY <1>2 DEF Forward, trackVars
<1> QED
  BY <1>3, <1>4, <1>5

LEMMA StoreStep ==
  ASSUME Inv, NEW c \in Cams, Store(c)
  PROVE  Inv' /\ Forward
<1> USE DEF Inv
<1>1. PICK id \in DOMAIN todo[c] :
        /\ db' = update_feature(db, id, now, c)
        /\ todo' = [todo EXCEPT ![c] = @ (-) SetToBag({id})]
  BY DEF Store
<1>2. UNCHANGED <<kind, stereo, initialized, now, currid, ids, pc, pts, fresh, owner>>
  BY DEF Store
<1>3. DOMAIN (todo[c] (-) SetToBag({id})) \subseteq DOMAIN todo[c]
  BY DEF (-)
<1>4. Stored'
  <2>1. DOMAIN db' \subseteq Ids
    <3>1. DOMAIN db' = DOMAIN db \cup {id}
      BY <1>1 DEF update_feature
    <3> QED
      BY <3>1, <1>1 DEF Stored
  <2>2. \A d \in Cams : DOMAIN todo'[d] \subseteq DOMAIN todo[d]
    BY <1>1, <1>3 DEF Shapes
  <2> QED
    BY <2>1, <2>2 DEF Stored, Ids
<1>5. Shapes'
  BY <1>1, <1>2 DEF Shapes
<1>6. Types' /\ Lists' /\ News' /\ Undrawn' /\ Pairs'
  BY <1>2 DEF Types, Lists, News, Undrawn, Pairs, Proper, Ids
<1>7. Forward
  BY <1>2 DEF Forward
<1> QED
  BY <1>4, <1>5, <1>6, <1>7
---------------------------------------------------------------------------
(* Detection. *)

LEMMA BeginStep ==
  ASSUME Inv, NEW c \in Cams, BeginMono(c)
  PROVE  Inv' /\ Forward
<1> USE DEF Inv
<1>1. PICK K : pts' = [pts EXCEPT ![c] = Kept(ids[c], K)]
  BY DEF BeginMono
<1>2. UNCHANGED <<kind, stereo, initialized, db, now, currid, ids, todo, fresh, owner>> /\ ~stereo
  BY DEF BeginMono
<1>3. pc' \in [Cams -> {"idle", "feed", "detect", "store"}]
  BY DEF BeginMono, Types
<1>4. \A d \in Cams : pts'[d] = IF d = c THEN Kept(ids[c], K) ELSE pts[d]
  BY <1>1 DEF Shapes
<1>5. Types'
  BY <1>2, <1>3 DEF Types, Ids
<1>6. Shapes'
  BY <1>1, <1>2 DEF Shapes
<1>7. DOMAIN Kept(ids[c], K) \subseteq DOMAIN ids[c]
  BY DEF Kept
<1>8. Lists' /\ News'
  <2>1. \A i \in DOMAIN Kept(ids[c], K) : Kept(ids[c], K)[i] = ids[c][i]
    BY KeptBag
  <2>2. ASSUME NEW d \in Cams
        PROVE  /\ \A i \in DOMAIN pts'[d] : i \in Ids /\ d \in owner[i] /\ pts'[d][i] = 1
               /\ DOMAIN pts'[d] \subseteq DOMAIN ids[d] \cup fresh[d]
    <3>1. CASE d = c
      BY <3>1, <2>1, <1>4, <1>7 DEF Lists, Proper
    <3>2. CASE d # c
      BY <3>2, <1>4 DEF Lists, Proper, News
    <3> QED
      BY <3>1, <3>2
  <2> QED
    BY <2>2, <1>2 DEF Lists, Proper, News, Ids
<1>9. Stored' /\ Undrawn' /\ Pairs'
  BY <1>2 DEF Stored, Undrawn, Pairs, Ids
<1>10. Forward
  BY <1>2 DEF Forward
<1> QED
  BY <1>5, <1>6, <1>8, <1>9, <1>10

LEMMA DrawStep ==
  ASSUME Inv, NEW c \in Cams, Draw(c)
  PROVE  Inv' /\ Forward
<1> USE DEF Inv
<1>1. PICK id \in DrawnIds :
        /\ currid' = id
        /\ pts' = [pts EXCEPT ![c] = @ (+) SetToBag({id})]
        /\ fresh' = [fresh EXCEPT ![c] = @ \cup {id}]
        /\ owner' = [owner EXCEPT ![id] = {c}]
  BY DEF Draw
<1>2. UNCHANGED <<kind, stereo, initialized, db, now, ids, pc, todo>> /\ ~stereo
  BY DEF Draw
<1>3. id \in Ids /\ id = currid + 1 /\ id > currid
  BY Counts DEF DrawnIds, Types
<1>4. owner[id] = {}
  BY <1>3 DEF Undrawn
<1>5. \A d \in Cams : id \notin DOMAIN ids[d] /\ id \notin DOMAIN pts[d] /\ id \notin fresh[d]
  BY <1>4 DEF Lists, Proper, News
<1>6. \A i \in Ids : owner'[i] = IF i = id THEN {c} ELSE owner[i]
  BY <1>1 DEF Types
<1>7. \A d \in Cams : /\ pts'[d] = IF d = c THEN pts[c] (+) SetToBag({id}) ELSE pts[d]
                      /\ fresh'[d] = IF d = c THEN fresh[c] \cup {id} ELSE fresh[d]
  BY <1>1 DEF Shapes, Types
<1>8. /\ DOMAIN pts'[c] = DOMAIN pts[c] \cup {id}
      /\ \A i \in DOMAIN pts[c] \cup {id} : pts'[c][i] = 1
  <2>1. (\A i \in DOMAIN pts[c] : pts[c][i] = 1) /\ {id} \cap DOMAIN pts[c] = {}
    BY <1>5 DEF Lists, Proper
  <2>2. pts'[c] = pts[c] (+) SetToBag({id})
    BY <1>7
  <2> DEFINE S == {id}
  <2>3. /\ DOMAIN (pts[c] (+) SetToBag(S)) = DOMAIN pts[c] \cup S
        /\ \A i \in DOMAIN pts[c] \cup S : (pts[c] (+) SetToBag(S))[i] = 1
    BY <2>1, AddedSet
  <2> QED
    BY <2>2, <2>3
<1>9. Types'
  <2>1. currid' \in FirstId..MaxId
    BY <1>1, <1>3, Counts DEF Types, Ids
  <2>2. owner' \in [Ids -> SUBSET Cams] /\ fresh' \in [Cams -> SUBSET Ids]
    BY <1>1, <1>3 DEF Types
  <2> QED
    BY <2>1, <2>2, <1>2 DEF Types, Ids
<1>10. Shapes'
  BY <1>1, <1>2 DEF Shapes
<1>11. Undrawn'
  BY <1>1, <1>3, <1>6, Counts DEF Undrawn, Types, Ids
<1>12. Lists'
  <2>1. \A d \in Cams : \A i \in Ids : d \in owner[i] => d \in owner'[i]
    BY <1>4, <1>6
  <2>2. c \in owner'[id]
    BY <1>3, <1>6
  <2>3. ASSUME NEW d \in Cams
        PROVE  /\ \A i \in DOMAIN ids[d] : i \in Ids /\ d \in owner'[i] /\ ids[d][i] = 1
               /\ \A i \in DOMAIN pts'[d] : i \in Ids /\ d \in owner'[i] /\ pts'[d][i] = 1
    <3>1. \A i \in DOMAIN ids[d] : i \in Ids /\ d \in owner'[i] /\ ids[d][i] = 1
      BY <2>1 DEF Lists, Proper
    <3>2. CASE d = c
      BY <3>1, <3>2, <1>3, <1>8, <2>1, <2>2 DEF Lists, Proper
    <3>3. CASE d # c
      BY <3>1, <3>3, <1>7, <2>1 DEF Lists, Proper
    <3> QED
      BY <3>2, <3>3
  <2> QED
    BY <2>3, <1>2 DEF Lists, Proper, Ids
<1>13. News'
  <2>1. ASSUME NEW d \in Cams
        PROVE  /\ DOMAIN pts'[d] \subseteq DOMAIN ids[d] \cup fresh'[d]
               /\ \A i \in fresh'[d] : i \notin DOMAIN ids[d] /\ owner'[i] # {}
               /\ kind = "desc" => \A i \in fresh'[d] : d \in owner'[i]
    <3>1. fresh[d] \subseteq Ids
      BY DEF Types
    <3>2. CASE d = c
      <4>1. fresh'[c] = fresh[c] \cup {id}
        BY <1>7
      <4>2. DOMAIN pts'[c] \subseteq DOMAIN ids[c] \cup fresh'[c]
        <5>1. DOMAIN pts'[c] = DOMAIN pts[c] \cup {id}
          BY <1>8
        <5>2. DOMAIN pts[c] \subseteq DOMAIN ids[c] \cup fresh[c]
          BY DEF News
        <5> QED
          BY <4>1, <5>1, <5>2
      <4>3. owner'[id] = {c}
        BY <1>3, <1>6
      <4>4. \A i \in fresh[c] : owner'[i] = owner[i] /\ i \in Ids
        BY <3>1, <3>2, <1>5, <1>6
      <4> QED
        BY <3>2, <4>1, <4>2, <4>3, <4>4, <1>5 DEF News
    <3>3. CASE d # c
      BY <3>1, <3>3, <1>4, <1>6, <1>7 DEF News
    <3> QED
      BY <3>2, <3>3
  <2> QED
    BY <2>1, <1>2 DEF News
<1>14. Stored' /\ Pairs'
  BY <1>2 DEF Stored, Pairs, Ids
<1>15. Forward
  BY <1>2, <1>4, <1>6 DEF Forward
<1> QED
  BY <1>9, <1>10, <1>11, <1>12, <1>13, <1>14, <1>15

LEMMA DescDetectStep ==
  ASSUME Inv, DescDetectStereo
  PROVE  Inv' /\ Forward
<1> USE DEF Inv
<1>1. PICK n \in 0..MaxNew :
        /\ currid + n <= MaxId
        /\ pts' = [c \in Cams |-> SetToBag(NewIds(n))]
        /\ fresh' = [c \in Cams |-> NewIds(n)]
        /\ owner' = [i \in Ids |-> IF i \in NewIds(n) THEN Cams ELSE owner[i]]
        /\ currid' = currid + n
  BY DEF DescDetectStereo
<1>2. UNCHANGED <<kind, stereo, initialized, db, now, ids, todo>> /\ pc' = [c \in Cams |-> "detect"]
  BY DEF DescDetectStereo
<1>3. n \in Nat /\ currid \in FirstId..MaxId
  BY Counts DEF Types
<1>4. NewIds(n) \subseteq Ids /\ \A i \in NewIds(n) : owner[i] = {}
  <2>1. \A i \in NewIds(n) : i \in Ids /\ i > currid
    BY <1>1, <1>3, Counts DEF NewIds, Ids
  <2> QED
    BY <2>1 DEF Undrawn
<1>5. \A c \in Cams : \A i \in NewIds(n) : i \notin DOMAIN ids[c]
  BY <1>4 DEF Lists, Proper
<1>6. DOMAIN SetToBag(NewIds(n)) = NewIds(n) /\ \A i \in NewIds(n) : SetToBag(NewIds(n))[i] = 1
  BY DEF SetToBag
<1>7. \A i \in Ids : owner'[i] = IF i \in NewIds(n) THEN Cams ELSE owner[i]
  BY <1>1
<1>8. Types'
  <2>1. currid' \in FirstId..MaxId
    BY <1>1, <1>3, Counts
  <2>2. owner' \in [Ids -> SUBSET Cams] /\ fresh' \in [Cams -> SUBSET Ids]
    BY <1>1, <1>4 DEF Types
  <2> QED
    BY <2>1, <2>2, <1>2 DEF Types, Ids
<1>9. Shapes'
  BY <1>1, <1>2 DEF Shapes
<1>10. Undrawn'
  <2>1. \A i \in Ids : i > currid' => i > currid /\ i \notin NewIds(n)
    BY <1>1, <1>3, Counts DEF NewIds, Ids
  <2> QED
    BY <2>1, <1>7 DEF Undrawn, Ids
<1>11. ASSUME NEW c \in Cams
       PROVE  /\ \A i \in DOMAIN ids[c] : i \in Ids /\ c \in owner'[i] /\ ids[c][i] = 1
              /\ \A i \in DOMAIN pts'[c] : i \in Ids /\ c \in owner'[i] /\ pts'[c][i] = 1
  <2>1. \A i \in DOMAIN ids[c] : i \in Ids /\ c \in owner'[i] /\ ids[c][i] = 1
    BY <1>4, <1>7 DEF Lists, Proper
  <2>2. pts'[c] = SetToBag(NewIds(n))
    BY <1>1
  <2> QED
    BY <2>1, <2>2, <1>4, <1>6, <1>7
<1>12. Lists'
  BY <1>11, <1>2 DEF Lists, Proper, Ids
<1>13. News'
  <2>1. \A c \in Cams : DOMAIN pts'[c] = NewIds(n) /\ fresh'[c] = NewIds(n)
    BY <1>1, <1>6
  <2>2. \A c \in Cams : \A i \in NewIds(n) : c \in owner'[i]
    BY <1>4, <1>7
  <2> QED
    BY <2>1, <2>2, <1>2, <1>5 DEF News
<1>14. Stored' /\ Pairs'
  BY <1>1, <1>2, CamsAreTwo DEF Stored, Pairs, Ids
<1>15. Forward
  BY <1>2, <1>4, <1>7 DEF Forward
<1> QED
  BY <1>8, <1>9, <1>10, <1>12, <1>13, <1>14, <1>15

LEMMA KltDetectStep ==
  ASSUME Inv, KltDetectStereo
  PROVE  Inv' /\ Forward
<1> USE DEF Inv
<1> DEFINE Mono(nl, nr) == (currid + nl + 1)..(currid + nl + nr)
           LeftList(KL, nl) == Kept(ids[Left], KL) (+) SetToBag(NewIds(nl))
           RightOld(pair, KR) == Kept(ids[Right] (+) SetToBag(pair), KR)
<1>1. PICK KL \in SUBSET DOMAIN ids[Left], nl \in 0..MaxNew, nr \in 0..MaxNew :
        \E pair \in SUBSET NewIds(nl) : \E KR \in SUBSET DOMAIN (ids[Right] (+) SetToBag(pair)) :
            /\ currid + nl + nr <= MaxId
            /\ pts' = [c \in Cams |-> IF c = Left THEN LeftList(KL, nl)
                                      ELSE RightOld(pair, KR) (+) SetToBag(Mono(nl, nr))]
            /\ owner' = [i \in Ids |-> IF i \in pair THEN Cams
                                       ELSE IF i \in NewIds(nl) THEN {Left}
                                       ELSE IF i \in Mono(nl, nr) THEN {Right} ELSE owner[i]]
            /\ currid' = currid + nl + nr
            /\ fresh' = [c \in Cams |-> NewIds(nl + nr)]
  BY DEF KltDetectStereo
<1>1a. PICK pair \in SUBSET NewIds(nl) :
        \E KR \in SUBSET DOMAIN (ids[Right] (+) SetToBag(pair)) :
            /\ currid + nl + nr <= MaxId
            /\ pts' = [c \in Cams |-> IF c = Left THEN LeftList(KL, nl)
                                      ELSE RightOld(pair, KR) (+) SetToBag(Mono(nl, nr))]
            /\ owner' = [i \in Ids |-> IF i \in pair THEN Cams
                                       ELSE IF i \in NewIds(nl) THEN {Left}
                                       ELSE IF i \in Mono(nl, nr) THEN {Right} ELSE owner[i]]
            /\ currid' = currid + nl + nr
            /\ fresh' = [c \in Cams |-> NewIds(nl + nr)]
  BY <1>1
<1>2. PICK KR :
            /\ currid + nl + nr <= MaxId
            /\ pts' = [c \in Cams |-> IF c = Left THEN LeftList(KL, nl)
                                      ELSE RightOld(pair, KR) (+) SetToBag(Mono(nl, nr))]
            /\ owner' = [i \in Ids |-> IF i \in pair THEN Cams
                                       ELSE IF i \in NewIds(nl) THEN {Left}
                                       ELSE IF i \in Mono(nl, nr) THEN {Right} ELSE owner[i]]
            /\ currid' = currid + nl + nr
            /\ fresh' = [c \in Cams |-> NewIds(nl + nr)]
  BY <1>1a
<1>3. UNCHANGED <<kind, stereo, initialized, db, now, ids, todo>> /\ pc' = [c \in Cams |-> "detect"]
      /\ kind = "klt"
  BY DEF KltDetectStereo
<1> DEFINE L == NewIds(nl)
           M == Mono(nl, nr)
           F == NewIds(nl + nr)
<1>4. nl \in Nat /\ nr \in Nat /\ currid \in FirstId..MaxId
  BY Counts DEF Types
<1>5. /\ L \subseteq Ids /\ M \subseteq Ids /\ F = L \cup M /\ L \cap M = {}
      /\ \A i \in F : i > currid
      /\ \A i \in Ids : i > currid + nl + nr => i > currid /\ i \notin F
  <2>1. \A i \in L : i \in Ids /\ i > currid /\ i \in F /\ i \notin M
    BY <1>2, <1>4, Counts DEF NewIds, Ids
  <2>2. \A i \in M : i \in Ids /\ i > currid /\ i \in F
    BY <1>2, <1>4, Counts DEF NewIds, Ids
  <2>3. \A i \in F : i > currid /\ (i \in L \/ i \in M)
    BY <1>4, Counts DEF NewIds
  <2>4. \A i \in Ids : i > currid + nl + nr => i > currid /\ i \notin F
    BY <1>4, Counts DEF NewIds, Ids
  <2> QED
    BY <2>1, <2>2, <2>3, <2>4
<1>6. pair \subseteq L
  OBVIOUS
<1>7. \A i \in Ids : owner'[i] = IF i \in pair THEN Cams
                                 ELSE IF i \in L THEN {Left}
                                 ELSE IF i \in M THEN {Right} ELSE owner[i]
  BY <1>2
<1> HIDE DEF L, M, F
<1>8. \A i \in F : owner[i] = {}
  BY <1>5 DEF Undrawn
<1>9. \A c \in Cams : \A i \in F : i \notin DOMAIN ids[c]
  BY <1>8 DEF Lists, Proper
<1>10. /\ \A i \in Ids : owner[i] # {} => owner'[i] = owner[i]
       /\ \A i \in F : owner'[i] # {}
       /\ \A i \in L : Left \in owner'[i]
       /\ \A i \in pair \cup M : Right \in owner'[i]
  BY <1>5, <1>6, <1>7, <1>8, CamsAreTwo
<1>11. Types'
  <2>1. currid' \in FirstId..MaxId
    BY <1>2, <1>4, Counts
  <2>2. fresh' \in [Cams -> SUBSET Ids]
    BY <1>2, <1>5 DEF F
  <2>3. owner' \in [Ids -> SUBSET Cams]
    BY <1>2, CamsAreTwo DEF Types
  <2> QED
    BY <2>1, <2>2, <2>3, <1>3 DEF Types, Ids
<1>12. Shapes'
  BY <1>2, <1>3 DEF Shapes
<1>13. Undrawn'
  BY <1>2, <1>5, <1>6, <1>7 DEF Undrawn, Ids
<1>14. /\ DOMAIN pts'[Left] \subseteq DOMAIN ids[Left] \cup L
       /\ \A i \in DOMAIN pts'[Left] : pts'[Left][i] = 1
  <2>1. pts'[Left] = Kept(ids[Left], KL) (+) SetToBag(L)
    BY <1>2, CamsAreTwo DEF L
  <2> DEFINE old == Kept(ids[Left], KL)
  <2>2. DOMAIN old \subseteq DOMAIN ids[Left] /\ \A i \in DOMAIN old : old[i] = 1
    BY CamsAreTwo DEF Kept, Lists, Proper
  <2>3. L \cap DOMAIN old = {}
    BY <2>2, <1>5, <1>9, CamsAreTwo
  <2> HIDE DEF old
  <2>4. /\ DOMAIN (old (+) SetToBag(L)) = DOMAIN old \cup L
        /\ \A i \in DOMAIN old \cup L : (old (+) SetToBag(L))[i] = 1
    BY <2>2, <2>3, AddedSet
  <2>5. pts'[Left] = old (+) SetToBag(L)
    BY <2>1 DEF old
  <2> QED
    BY <2>2, <2>4, <2>5
<1>15. /\ DOMAIN pts'[Right] \subseteq DOMAIN ids[Right] \cup pair \cup M
       /\ \A i \in DOMAIN pts'[Right] : pts'[Right][i] = 1
  <2> DEFINE before == ids[Right] (+) SetToBag(pair)
             old == Kept(before, KR)
  <2>1. pts'[Right] = old (+) SetToBag(M)
    BY <1>2, CamsAreTwo DEF M
  <2>2. \A i \in DOMAIN ids[Right] : ids[Right][i] = 1
    BY CamsAreTwo DEF Lists, Proper
  <2>3. pair \cap DOMAIN ids[Right] = {}
    BY <1>5, <1>6, <1>9, CamsAreTwo
  <2>4. DOMAIN before = DOMAIN ids[Right] \cup pair /\ \A i \in DOMAIN before : before[i] = 1
    <3> DEFINE list == ids[Right]
    <3>1. \A i \in DOMAIN list : list[i] = 1
      BY <2>2
    <3>2. pair \cap DOMAIN list = {}
      BY <2>3
    <3>3. before = list (+) SetToBag(pair)
      OBVIOUS
    <3> HIDE DEF list, before
    <3>4. /\ DOMAIN (list (+) SetToBag(pair)) = DOMAIN list \cup pair
          /\ \A i \in DOMAIN list \cup pair : (list (+) SetToBag(pair))[i] = 1
      BY <3>1, <3>2, AddedSet
    <3> QED
      BY <3>3, <3>4 DEF list
  <2> HIDE DEF before
  <2>5. DOMAIN old \subseteq DOMAIN before /\ \A i \in DOMAIN old : old[i] = 1
    BY <2>4 DEF Kept
  <2> HIDE DEF old
  <2>6. M \cap DOMAIN old = {}
    BY <2>4, <2>5, <1>5, <1>6, <1>9, CamsAreTwo
  <2>7. /\ DOMAIN (old (+) SetToBag(M)) = DOMAIN old \cup M
        /\ \A i \in DOMAIN old \cup M : (old (+) SetToBag(M))[i] = 1
    BY <2>5, <2>6, AddedSet
  <2> QED
    BY <2>1, <2>4, <2>5, <2>7
<1>16. Lists'
  <2>1. ASSUME NEW c \in Cams
        PROVE  /\ \A i \in DOMAIN ids[c] : i \in Ids /\ c \in owner'[i] /\ ids[c][i] = 1
               /\ \A i \in DOMAIN pts'[c] : i \in Ids /\ c \in owner'[i] /\ pts'[c][i] = 1
    <3>1. \A i \in DOMAIN ids[c] : i \in Ids /\ c \in owner'[i] /\ ids[c][i] = 1
      BY <1>10 DEF Lists, Proper
    <3>2. CASE c = Left
      BY <3>1, <3>2, <1>5, <1>10, <1>14
    <3>3. CASE c = Right
      BY <3>1, <3>3, <1>5, <1>6, <1>10, <1>15
    <3> QED
      BY <3>2, <3>3, CamsAreTwo
  <2> QED
    BY <2>1, <1>3 DEF Lists, Proper, Ids
<1>17. News'
  <2>1. \A c \in Cams : fresh'[c] = F
    BY <1>2 DEF F
  <2>2. \A c \in Cams : DOMAIN pts'[c] \subseteq DOMAIN ids[c] \cup F
    BY <1>5, <1>6, <1>14, <1>15, CamsAreTwo
  <2> QED
    BY <2>1, <2>2, <1>3, <1>9, <1>10 DEF News
<1>18. Stored' /\ Pairs'
  BY <1>3 DEF Stored, Pairs, Ids
<1>19. Forward
  BY <1>3, <1>10 DEF Forward
<1> QED
  BY <1>11, <1>12, <1>13, <1>16, <1>17, <1>18, <1>19
---------------------------------------------------------------------------
(* Following the points, and keeping the lists for the next image. *)

(* Whatever is matched, the good points are among those that were there. *)
Follow ==
  \E C \in SUBSET Cams : \E good :
    /\ Matched(C, good)
    /\ \A c \in C : /\ pc[c] = "detect" /\ Proper(c, good[c])
                    /\ DOMAIN good[c] \subseteq DOMAIN ids[c] \cup fresh[c]
    /\ stereo => C = Cams
    /\ kind = "desc" /\ stereo => good[Left] = good[Right]

LEMMA MatchedStep ==
  ASSUME Inv, Follow
  PROVE  Inv' /\ Forward
<1>0. PICK C, good :
        /\ C \in SUBSET Cams
        /\ Matched(C, good)
        /\ \A c \in C : Proper(c, good[c]) /\ DOMAIN good[c] \subseteq DOMAIN ids[c] \cup fresh[c]
        /\ kind = "desc" /\ stereo => C = Cams /\ good[Left] = good[Right]
  BY DEF Follow
<1> USE DEF Inv
<1>1. /\ pts' = [c \in Cams |-> IF c \in C THEN good[c] ELSE pts[c]]
      /\ todo' = [c \in Cams |-> IF c \in C THEN good[c] ELSE todo[c]]
      /\ pc' = [c \in Cams |-> IF c \in C THEN "store" ELSE pc[c]]
      /\ UNCHANGED <<kind, stereo, initialized, db, now, currid, ids, fresh, owner>>
  BY <1>0 DEF Matched
<1>2. Types'
  BY <1>1 DEF Types, Ids
<1>3. Shapes'
  BY <1>1 DEF Shapes
<1>4. Lists'
  BY <1>0, <1>1 DEF Lists, Proper, Ids
<1>5. News'
  BY <1>0, <1>1 DEF News
<1>6. Stored'
  BY <1>0, <1>1 DEF Stored, Proper, Ids
<1>7. Undrawn'
  BY <1>1 DEF Undrawn, Ids
<1>8. Pairs'
  BY <1>0, <1>1, CamsAreTwo DEF Pairs
<1>9. Forward
  BY <1>1 DEF Forward
<1> QED
  BY <1>2, <1>3, <1>4, <1>5, <1>6, <1>7, <1>8, <1>9

LEMMA KltMatchMonoFollows ==
  ASSUME Inv, NEW c \in Cams, KltMatchMono(c)
  PROVE  Follow
<1>1. PICK K : Matched({c}, [d \in {c} |-> Kept(pts[d], K)])
  BY DEF KltMatchMono
<1>2. kind = "klt" /\ ~stereo /\ pc[c] = "detect"
  BY DEF KltMatchMono
<1> DEFINE good == [d \in {c} |-> Kept(pts[d], K)]
<1>3. \A d \in {c} : Proper(d, good[d]) /\ DOMAIN good[d] \subseteq DOMAIN ids[d] \cup fresh[d]
  BY DEF Inv, Lists, News, Proper, Kept
<1> HIDE DEF good
<1>4. Matched({c}, good)
  BY <1>1 DEF good
<1> QED
  BY <1>2, <1>3, <1>4 DEF Follow

LEMMA KltMatchStereoFollows ==
  ASSUME Inv, KltMatchStereo
  PROVE  Follow
<1>1. PICK fl \in Fates(pts[Left], {"lost", "good"}), fr \in Fates(pts[Right], {"lost", "outside", "good"}) :
        Matched(Cams, [c \in Cams |-> IF c = Left THEN Kept(pts[Left], GoodLeft(fl, fr))
                                      ELSE GoodRight(pts[Right], fl, fr)])
  BY DEF KltMatchStereo
<1>2. kind = "klt" /\ stereo /\ \A c \in Cams : pc[c] = "detect"
  BY DEF KltMatchStereo
<1> DEFINE good == [c \in Cams |-> IF c = Left THEN Kept(pts[Left], GoodLeft(fl, fr))
                                   ELSE GoodRight(pts[Right], fl, fr)]
<1>3. \A c \in Cams : Proper(c, pts[c]) /\ DOMAIN pts[c] \subseteq DOMAIN ids[c] \cup fresh[c]
  BY DEF Inv, Lists, News
<1>4. Proper(Left, Kept(pts[Left], GoodLeft(fl, fr)))
      /\ DOMAIN Kept(pts[Left], GoodLeft(fl, fr)) \subseteq DOMAIN pts[Left]
  BY <1>3, CamsAreTwo DEF Proper, Kept
<1>5. Proper(Right, GoodRight(pts[Right], fl, fr))
      /\ DOMAIN GoodRight(pts[Right], fl, fr) \subseteq DOMAIN pts[Right]
  BY <1>3, CamsAreTwo DEF Proper, Kept, GoodRight, (+)
<1>6. \A c \in Cams : Proper(c, good[c]) /\ DOMAIN good[c] \subseteq DOMAIN ids[c] \cup fresh[c]
  BY <1>3, <1>4, <1>5, CamsAreTwo
<1> HIDE DEF good
<1>7. Matched(Cams, good)
  BY <1>1 DEF good
<1> QED
  BY <1>2, <1>6, <1>7 DEF Follow

(* A matching found by the descriptor tracker leaves every list proper. *)
LEMMA RenamedProper ==
  ASSUME Inv, kind = "desc", NEW c \in Cams, NEW m,
         DOMAIN m \subseteq fresh[c], \A i \in DOMAIN m : m[i] \in DOMAIN ids[c], OneToOne(m)
  PROVE  /\ Proper(c, Renamed(fresh[c], m))
         /\ DOMAIN Renamed(fresh[c], m) \subseteq DOMAIN ids[c] \cup fresh[c]
<1>1. fresh[c] \cap DOMAIN ids[c] = {}
  BY DEF Inv, News
<1>2. \A i \in DOMAIN ids[c] \cup fresh[c] : i \in Ids /\ c \in owner[i]
  BY DEF Inv, News, Lists, Proper, Types
<1> DEFINE old == DOMAIN ids[c]
           new == fresh[c]
<1>3. /\ \A i \in DOMAIN m : m[i] \in old
      /\ DOMAIN m \subseteq new
      /\ \A i, j \in DOMAIN m : m[i] = m[j] => i = j
      /\ new \cap old = {}
  BY <1>1 DEF OneToOne
<1> HIDE DEF old, new
<1>4. /\ DOMAIN Renamed(new, m) \subseteq old \cup new
      /\ \A i \in DOMAIN Renamed(new, m) : Renamed(new, m)[i] = 1
  BY <1>3, RenamedBag
<1> QED
  BY <1>2, <1>4 DEF Proper, old, new

LEMMA MatchesFacts ==
  ASSUME NEW new, NEW old, NEW m \in Matches(new, old)
  PROVE  DOMAIN m \subseteq new /\ (\A i \in DOMAIN m : m[i] \in old) /\ OneToOne(m)
<1>1. PICK D \in SUBSET new : m \in [D -> old]
  BY DEF Matches
<1>2. OneToOne(m)
  BY DEF Matches
<1> QED
  BY <1>1, <1>2

LEMMA DescMatchMonoFollows ==
  ASSUME Inv, NEW c \in Cams, DescMatchMono(c)
  PROVE  Follow
<1>1. PICK m \in Matches(fresh[c], DOMAIN ids[c]) : Matched({c}, [d \in {c} |-> Renamed(fresh[d], m)])
  BY DEF DescMatchMono
<1>2. kind = "desc" /\ ~stereo /\ pc[c] = "detect"
  BY DEF DescMatchMono
<1> DEFINE good == [d \in {c} |-> Renamed(fresh[d], m)]
<1>3. Proper(c, Renamed(fresh[c], m)) /\ DOMAIN Renamed(fresh[c], m) \subseteq DOMAIN ids[c] \cup fresh[c]
  BY <1>2, MatchesFacts, RenamedProper
<1>4. \A d \in {c} : Proper(d, good[d]) /\ DOMAIN good[d] \subseteq DOMAIN ids[d] \cup fresh[d]
  BY <1>3
<1> HIDE DEF good
<1>5. Matched({c}, good)
  BY <1>1 DEF good
<1> QED
  BY <1>2, <1>4, <1>5 DEF Follow

LEMMA DescMatchStereoFollows ==
  ASSUME Inv, DescMatchStereo
  PROVE  Follow
<1> DEFINE Old(m, ml, mr) == [i \in SamePast(ml, mr) |-> m[i]]
<1>1. PICK ml \in Matches(fresh[Left], DOMAIN ids[Left]), mr \in Matches(fresh[Right], DOMAIN ids[Right]) :
        Matched(Cams, [c \in Cams |-> Renamed(fresh[c], Old(IF c = Left THEN ml ELSE mr, ml, mr))])
  BY DEF DescMatchStereo
<1>2. kind = "desc" /\ stereo /\ \A c \in Cams : pc[c] = "detect"
  BY DEF DescMatchStereo
<1> DEFINE ol == [i \in SamePast(ml, mr) |-> ml[i]]
           or == [i \in SamePast(ml, mr) |-> mr[i]]
           good == [c \in Cams |-> Renamed(fresh[c], Old(IF c = Left THEN ml ELSE mr, ml, mr))]
<1>3. ol = or
  BY DEF SamePast
<1>4. /\ DOMAIN ml \subseteq fresh[Left] /\ (\A i \in DOMAIN ml : ml[i] \in DOMAIN ids[Left]) /\ OneToOne(ml)
      /\ DOMAIN mr \subseteq fresh[Right] /\ (\A i \in DOMAIN mr : mr[i] \in DOMAIN ids[Right]) /\ OneToOne(mr)
  BY MatchesFacts
<1>5. /\ DOMAIN ol \subseteq fresh[Left] /\ (\A i \in DOMAIN ol : ol[i] \in DOMAIN ids[Left]) /\ OneToOne(ol)
      /\ DOMAIN or \subseteq fresh[Right] /\ (\A i \in DOMAIN or : or[i] \in DOMAIN ids[Right]) /\ OneToOne(or)
  BY <1>4 DEF SamePast, OneToOne
<1>6. good[Left] = Renamed(fresh[Left], ol) /\ good[Right] = Renamed(fresh[Right], or)
  BY CamsAreTwo
<1>7. fresh[Left] = fresh[Right]
  BY <1>2 DEF Inv, Pairs
<1>8. Matched(Cams, good)
  BY <1>1
<1> HIDE DEF ol, or, good
<1>9. Left \in Cams /\ Right \in Cams /\ \A c \in Cams : c = Left \/ c = Right
  BY CamsAreTwo
<1>10. /\ Proper(Left, good[Left]) /\ DOMAIN good[Left] \subseteq DOMAIN ids[Left] \cup fresh[Left]
       /\ Proper(Right, good[Right]) /\ DOMAIN good[Right] \subseteq DOMAIN ids[Right] \cup fresh[Right]
  BY <1>2, <1>5, <1>6, <1>9, RenamedProper
<1>11. good[Left] = good[Right]
  BY <1>3, <1>6, <1>7
<1>12. \A c \in Cams : Proper(c, good[c]) /\ DOMAIN good[c] \subseteq DOMAIN ids[c] \cup fresh[c]
  BY <1>9, <1>10
<1> QED
  BY <1>2, <1>8, <1>11, <1>12 DEF Follow

(* A list is saved as it is, or emptied. *)
LEMMA DoneStep ==
  ASSUME Inv, NEW C \in SUBSET Cams, NEW lists, Done(C, lists),
         \A c \in C : lists[c] \in {pts[c], EmptyBag},
         kind = "desc" /\ stereo => C = Cams /\ lists = pts
  PROVE  Inv' /\ Forward
<1> USE DEF Inv
<1>1. /\ ids' = [c \in Cams |-> IF c \in C THEN lists[c] ELSE ids[c]]
      /\ pts' = [c \in Cams |-> IF c \in C THEN EmptyBag ELSE pts[c]]
      /\ fresh' = [c \in Cams |-> IF c \in C THEN {} ELSE fresh[c]]
      /\ pc' = [c \in Cams |-> IF c \in C THEN "idle" ELSE pc[c]]
      /\ UNCHANGED <<kind, stereo, initialized, db, now, currid, todo, owner>>
  BY DEF Done
<1>2. Types'
  BY <1>1 DEF Types, Ids
<1>3. Shapes'
  BY <1>1 DEF Shapes
<1>4. \A c \in C : Proper(c, lists[c]) /\ DOMAIN lists[c] \subseteq DOMAIN pts[c]
  <2>1. \A c \in Cams : Proper(c, EmptyBag) /\ Proper(c, pts[c])
    BY EmptyDomain DEF Proper, Lists
  <2> QED
    BY <2>1, EmptyDomain
<1>5. Lists'
  BY <1>1, <1>4, EmptyDomain DEF Lists, Proper, Ids
<1>6. News'
  BY <1>1, EmptyDomain DEF News
<1>7. Stored'
  BY <1>1 DEF Stored, Ids
<1>8. Undrawn'
  BY <1>1 DEF Undrawn, Ids
<1>9. Pairs'
  BY <1>1, CamsAreTwo DEF Pairs
<1>10. Forward
  BY <1>1, <1>4 DEF Forward, News
<1> QED
  BY <1>2, <1>3, <1>5, <1>6, <1>7, <1>8, <1>9, <1>10

LEMMA SaveStep ==
  ASSUME Inv, NEW C \in Threads, SaveDetected(C) \/ Reset(C) \/ Save(C)
  PROVE  Inv' /\ Forward
<1>1. C \in SUBSET Cams /\ (stereo => C = Cams)
  BY DEF Threads
<1>2. CASE Reset(C)
  <2>1. Done(C, Nothing) /\ kind = "klt"
    BY <1>2 DEF Reset
  <2>2. \A c \in C : Nothing[c] \in {pts[c], EmptyBag}
    BY <1>1 DEF Nothing
  <2> QED
    BY <1>1, <2>1, <2>2, DoneStep
<1>3. CASE SaveDetected(C) \/ Save(C)
  <2>1. Done(C, pts)
    BY <1>3 DEF SaveDetected, Save
  <2> QED
    BY <1>1, <2>1, DoneStep
<1> QED
  BY <1>2, <1>3
---------------------------------------------------------------------------
(* The database. *)

(* What stays of a camera's times keeps its order, and its end unless that *)
(* goes.                                                                   *)
LEMMA StayingFacts ==
  ASSUME NEW q \in Seq(Nat), Increasing(q), NEW gone
  PROVE  /\ Staying(q, gone) \in Seq(Nat) /\ Increasing(Staying(q, gone))
         /\ \A j \in 1 .. Len(Staying(q, gone)) :
              \E k \in 1 .. Len(q) : Staying(q, gone)[j] = q[k] /\ q[k] \notin gone
         /\ q # << >> /\ q[Len(q)] \notin gone =>
              /\ Staying(q, gone) # << >>
              /\ Staying(q, gone)[Len(Staying(q, gone))] = q[Len(q)]
<1> DEFINE P == {k \in 1 .. Len(q) : q[k] \notin gone}
           s == Subsequence(q, P)
<1>1. P \subseteq 1 .. Len(q) /\ s = Staying(q, gone)
  BY DEF Staying
<1>2. \A k \in P : k \in 1 .. Len(q) /\ q[k] \notin gone
  OBVIOUS
<1>3. q # << >> /\ q[Len(q)] \notin gone => Len(q) \in P
  <2>1. q # << >> => Len(q) \in 1 .. Len(q)
    BY LenProperties, EmptySeq
  <2> QED
    BY <2>1
<1> HIDE DEF P
<1>4. s \in Seq(Nat) /\ Increasing(s) /\ Drawn(s, q, P)
  <2>1. Nat \subseteq Int
    OBVIOUS
  <2> QED
    BY <1>1, <2>1, SubsequenceFacts
<1>5. Len(q) \in P => s # << >> /\ s[Len(s)] = q[Len(q)]
  BY <1>1, SubsequenceLast
<1> HIDE DEF s
<1> QED
  BY <1>1, <1>2, <1>3, <1>4, <1>5 DEF Drawn

(* A later time at the end. *)
LEMMA AppendIncreases ==
  ASSUME NEW q \in Seq(Nat), Increasing(q), NEW t \in Nat, \A j \in 1 .. Len(q) : q[j] < t
  PROVE  /\ Append(q, t) \in Seq(Nat) /\ Increasing(Append(q, t))
         /\ \A j \in 1 .. Len(Append(q, t)) : Append(q, t)[j] <= t
         /\ Append(q, t) # << >> /\ Append(q, t)[Len(Append(q, t))] = t
<1> DEFINE s == Append(q, t)
<1>1. /\ s \in Seq(Nat) /\ Len(s) = Len(q) + 1 /\ Len(q) \in Nat
      /\ \A j \in 1 .. Len(q) : s[j] = q[j] /\ q[j] \in Nat
      /\ s[Len(q) + 1] = t
  BY AppendProperties, LenProperties, ElementOfSeq
<1> HIDE DEF s
<1>2. \A j \in 1 .. Len(s) : j \in 1 .. Len(q) \/ j = Len(q) + 1
  BY <1>1
<1>3. ASSUME NEW j \in 1 .. Len(s)
      PROVE  s[j] <= t
  <2>1. CASE j \in 1 .. Len(q)
    <3>1. s[j] = q[j] /\ q[j] \in Nat /\ q[j] < t
      BY <1>1, <2>1
    <3> QED
      BY <3>1
  <2>2. CASE j = Len(q) + 1
    BY <1>1, <2>2
  <2> QED
    BY <1>2, <2>1, <2>2
<1>4. Increasing(s)
  <2> SUFFICES ASSUME NEW i \in 1 .. Len(s), NEW j \in 1 .. Len(s), i < j PROVE s[i] < s[j]
    BY DEF Increasing
  <2>1. i \in 1 .. Len(q)
    BY <1>1
  <2>2. CASE j \in 1 .. Len(q)
    BY <1>1, <2>1, <2>2 DEF Increasing
  <2>3. CASE j = Len(q) + 1
    BY <1>1, <2>1, <2>3
  <2> QED
    BY <1>2, <2>2, <2>3
<1>5. s # << >> /\ s[Len(s)] = t
  BY <1>1
<1> QED
  BY <1>1, <1>3, <1>4, <1>5 DEF s

(* Measurements have been deleted, but none of a feature seen now that the *)
(* database keeps.                                                         *)
Thinned(d) ==
  /\ DOMAIN d \subseteq DOMAIN db
  /\ \A i \in DOMAIN d :
       /\ DOMAIN d[i] = Cams
       /\ \A c \in Cams :
            /\ d[i][c] \in Seq(Nat) /\ Increasing(d[i][c])
            /\ \A j \in 1 .. Len(d[i][c]) : \E k \in 1 .. Len(db[i][c]) : d[i][c][j] = db[i][c][k]
       /\ SeenSince(db[i], now) => SeenSince(d[i], now)

LEMMA PrunedThins ==
  ASSUME Types, Measured, NEW part, DOMAIN part \subseteq DOMAIN db, \A i \in DOMAIN part : part[i] = db[i],
         NEW gone, now \notin gone \/ 0 .. now \subseteq gone
  PROVE  Thinned(Pruned(part, gone))
<1> DEFINE d == Pruned(part, gone)
<1>1. DOMAIN d \subseteq DOMAIN db
  BY DEF Pruned
<1>2. \A i \in DOMAIN d : DOMAIN d[i] = Cams
  BY DEF Pruned
<1>3. \A i \in DOMAIN d : \A c \in Cams : d[i][c] = Staying(db[i][c], gone)
  BY DEF Pruned
<1>4. \A i \in DOMAIN d : \E c \in Cams : d[i][c] # << >>
  BY DEF Pruned
<1> HIDE DEF d
<1>5. ASSUME NEW i \in DOMAIN d, NEW c \in Cams
      PROVE  /\ d[i][c] \in Seq(Nat) /\ Increasing(d[i][c])
             /\ \A j \in 1 .. Len(d[i][c]) : \E k \in 1 .. Len(db[i][c]) : d[i][c][j] = db[i][c][k] /\ db[i][c][k] \notin gone
             /\ db[i][c] # << >> /\ db[i][c][Len(db[i][c])] \notin gone =>
                  d[i][c] # << >> /\ d[i][c][Len(d[i][c])] = db[i][c][Len(db[i][c])]
  <2> DEFINE q == db[i][c]
  <2>1. q \in Seq(Nat) /\ Increasing(q)
    BY <1>1 DEF Measured
  <2>2. d[i][c] = Staying(q, gone)
    BY <1>3
  <2> HIDE DEF q
  <2>3. /\ Staying(q, gone) \in Seq(Nat) /\ Increasing(Staying(q, gone))
        /\ \A j \in 1 .. Len(Staying(q, gone)) :
             \E k \in 1 .. Len(q) : Staying(q, gone)[j] = q[k] /\ q[k] \notin gone
        /\ q # << >> /\ q[Len(q)] \notin gone =>
             /\ Staying(q, gone) # << >>
             /\ Staying(q, gone)[Len(Staying(q, gone))] = q[Len(q)]
    BY <2>1, StayingFacts
  <2> QED
    BY <2>2, <2>3 DEF q
<1>6. ASSUME NEW i \in DOMAIN d, SeenSince(db[i], now)
      PROVE  SeenSince(d[i], now)
  <2>1. now \notin gone
    <3> SUFFICES ASSUME 0 .. now \subseteq gone PROVE FALSE
      OBVIOUS
    <3>1. PICK c \in Cams : d[i][c] # << >>
      BY <1>4
    <3>2. d[i][c] \in Seq(Nat)
      BY <1>5
    <3>3. 1 \in 1 .. Len(d[i][c])
      BY <3>1, <3>2, LenProperties, EmptySeq
    <3>4. PICK k \in 1 .. Len(db[i][c]) : db[i][c][k] \notin gone
      BY <1>5, <3>3
    <3>5. db[i][c] \in Seq(Nat) /\ db[i][c][k] <= now /\ now \in Nat
      BY <1>1 DEF Measured, Types
    <3>6. db[i][c][k] \in Nat
      BY <3>5, ElementOfSeq
    <3> QED
      BY <3>4, <3>5, <3>6
  <2>2. PICK c \in Cams : db[i][c] # << >> /\ db[i][c][Len(db[i][c])] >= now
    BY <1>6 DEF SeenSince
  <2>3. db[i][c] \in Seq(Nat) /\ now \in Nat /\ \A j \in 1 .. Len(db[i][c]) : db[i][c][j] <= now
    BY <1>1 DEF Measured, Types
  <2>4. Len(db[i][c]) \in 1 .. Len(db[i][c]) /\ db[i][c][Len(db[i][c])] \in Nat
    BY <2>2, <2>3, LenProperties, EmptySeq, ElementOfSeq
  <2>5. db[i][c][Len(db[i][c])] = now
    BY <2>2, <2>3, <2>4
  <2>6. d[i][c] # << >> /\ d[i][c][Len(d[i][c])] = now
    BY <1>5, <2>1, <2>2, <2>5
  <2> QED
    BY <2>3, <2>6 DEF SeenSince
<1> QED
  BY <1>1, <1>2, <1>5, <1>6 DEF Thinned, d

(* Neither thread that cleans the database deletes a measurement of now    *)
(* but for the initialiser, and then all of the feature.                   *)
LEMMA CleanThins ==
  ASSUME Types, Measured, Clean
  PROVE  Thinned(db') /\ UNCHANGED <<kind, stereo, now, trackVars>>
<1>1. now \in Nat
  BY DEF Types
<1>2. CASE InitializerCleans
  <2>1. PICK time \in 1 .. MaxTime : db' = Pruned(db, 0 .. time)
    BY <1>2 DEF InitializerCleans, cleanup_measurements
  <2>2. now \notin 0 .. time \/ 0 .. now \subseteq 0 .. time
    BY <1>1, Counts
  <2> QED
    BY <1>2, <2>1, <2>2, PrunedThins DEF InitializerCleans
<1>3. CASE FilterCleans
  <2>1. PICK used \in SUBSET DOMAIN db, time \in 0 .. (now - 1) : db' = Pruned(cleanup(db, used), 0 .. time)
    BY <1>3 DEF FilterCleans, cleanup_measurements
  <2>2. now \notin 0 .. time
    BY <1>1
  <2> DEFINE part == cleanup(db, used)
  <2>3. DOMAIN part \subseteq DOMAIN db /\ \A i \in DOMAIN part : part[i] = db[i]
    BY DEF cleanup
  <2>4. db' = Pruned(part, 0 .. time)
    BY <2>1
  <2> HIDE DEF part
  <2> QED
    BY <1>3, <2>2, <2>3, <2>4, PrunedThins DEF FilterCleans
<1>4. CASE ZeroVelocityCleans
  <2>1. PICK time \in 1 .. (now - 1) : db' = Pruned(db, {time})
    BY <1>4 DEF ZeroVelocityCleans, ZeroVelocityTime, cleanup_measurements_exact
  <2>2. now \notin {time}
    BY <1>1
  <2> QED
    BY <1>4, <2>1, <2>2, PrunedThins DEF ZeroVelocityCleans
<1> QED
  BY <1>2, <1>3, <1>4 DEF Clean

LEMMA CleanKeeps ==
  ASSUME Types, DbInv, Clean
  PROVE  DbInv'
<1> USE DEF DbInv
<1>1. Thinned(db') /\ UNCHANGED <<kind, stereo, now, trackVars>>
  BY CleanThins
<1>2. UNCHANGED <<kind, stereo, now, currid, ids, pc, pts, todo, fresh, owner>>
  BY <1>1 DEF trackVars
<1>3. ASSUME NEW i \in DOMAIN db', NEW c \in Cams
      PROVE  /\ i \in DOMAIN db
             /\ db'[i][c] \in Seq(Nat) /\ Increasing(db'[i][c])
             /\ \A j \in 1 .. Len(db'[i][c]) : \E k \in 1 .. Len(db[i][c]) : db'[i][c][j] = db[i][c][k]
  BY <1>1 DEF Thinned
<1>4. ASSUME NEW i \in DOMAIN db', NEW c \in Cams, db'[i][c] # << >>
      PROVE  db[i][c] # << >>
  <2>1. 1 \in 1 .. Len(db'[i][c])
    BY <1>3, <1>4, LenProperties, EmptySeq
  <2>2. 1 .. Len(db[i][c]) # {}
    BY <1>3, <2>1
  <2> QED
    BY <2>2, EmptySeq
<1>5. Measured'
  <2>1. ASSUME NEW i \in DOMAIN db'
        PROVE  /\ owner[i] # {} /\ DOMAIN db'[i] = Cams
               /\ \A c \in Cams : /\ db'[i][c] # << >> => c \in owner[i]
                                  /\ \A j \in 1 .. Len(db'[i][c]) : db'[i][c][j] <= now
    <3>1. i \in DOMAIN db /\ DOMAIN db'[i] = Cams
      BY <1>1 DEF Thinned
    <3> QED
      BY <1>3, <1>4, <3>1 DEF Measured
  <2> QED
    BY <1>2, <1>3, <2>1 DEF Measured
<1>6. Unseen'
  <2>1. ASSUME NEW i \in DOMAIN db', NEW c \in Cams,
               pc[c] \in {"feed", "detect"} \/ (pc[c] = "store" /\ i \in DOMAIN todo[c]),
               NEW j \in 1 .. Len(db'[i][c])
        PROVE  db'[i][c][j] < now
    BY <1>3, <2>1 DEF Unseen
  <2> QED
    BY <1>2, <2>1 DEF Unseen
<1>7. Waiting' /\ Unstored' /\ Alone'
  BY <1>1, <1>2 DEF Waiting, Unstored, Alone, Proper, Thinned, Ids
<1>8. Followed'
  BY <1>1, <1>2 DEF Followed, Settled, Thinned
<1> QED
  BY <1>5, <1>6, <1>7, <1>8

---------------------------------------------------------------------------
(* What the steps of the trackers keep of the database. *)

LEMMA FeedKeeps ==
  ASSUME Types, DbInv, FeedNewCamera
  PROVE  DbInv'
<1> USE DEF DbInv
<1>1. /\ \A c \in Cams : pc[c] = "idle" /\ pc'[c] = "feed"
      /\ now' = now + 1 /\ now \in Nat
      /\ UNCHANGED <<kind, stereo, db, ids, pts, todo, fresh, owner>>
  BY DEF FeedNewCamera, Idle, Types
<1>2. ASSUME NEW i \in DOMAIN db, NEW c \in Cams, NEW j \in 1 .. Len(db[i][c])
      PROVE  db[i][c][j] <= now + 1 /\ db[i][c][j] < now + 1
  <2>1. db[i][c] \in Seq(Nat) /\ db[i][c][j] <= now
    BY DEF Measured
  <2>2. db[i][c][j] \in Nat
    BY <2>1, ElementOfSeq
  <2> QED
    BY <1>1, <2>1, <2>2
<1>3. Measured' /\ Unseen'
  BY <1>1, <1>2 DEF Measured, Unseen
<1>4. Waiting' /\ Unstored' /\ Alone'
  BY <1>1 DEF Waiting, Unstored, Alone, Proper, Ids
<1>5. Followed'
  BY <1>1 DEF Followed, Settled
<1> QED
  BY <1>3, <1>4, <1>5

LEMMA BeginKeeps ==
  ASSUME Inv, DbInv, NEW c \in Cams, BeginMono(c)
  PROVE  DbInv'
<1> USE DEF Inv, DbInv
<1>1. PICK K \in SUBSET DOMAIN ids[c] :
        /\ kind = "desc" => K = {}
        /\ pts' = [pts EXCEPT ![c] = Kept(ids[c], K)]
  BY DEF BeginMono
<1>2. /\ ~stereo /\ pc[c] = "feed" /\ pc' = [pc EXCEPT ![c] = "detect"]
      /\ UNCHANGED <<kind, stereo, initialized, db, now, currid, ids, todo, fresh, owner>>
  BY DEF BeginMono
<1>3. \A d \in Cams : pc'[d] = IF d = c THEN "detect" ELSE pc[d]
  BY <1>2 DEF Types
<1>4. \A d \in Cams : d # c => pts'[d] = pts[d]
  BY <1>1
<1>5. Measured' /\ Waiting' /\ Alone'
  BY <1>2 DEF Measured, Waiting, Alone, Proper, Ids
<1>6. Unseen'
  BY <1>2, <1>3 DEF Unseen
<1>7. fresh[c] = {} /\ (kind = "desc" => DOMAIN pts'[c] = {})
  <2>1. c \in DOMAIN pts => DOMAIN pts'[c] = K \cap DOMAIN ids[c]
    BY <1>1 DEF Kept
  <2>2. c \in DOMAIN pts
    BY DEF Shapes
  <2> QED
    BY <1>1, <1>2, <2>1, <2>2 DEF Unstored
<1>8. Unstored'
  BY <1>2, <1>3, <1>4, <1>7 DEF Unstored
<1>9. Followed'
  BY <1>2, <1>3, <1>4 DEF Followed, Settled
<1> QED
  BY <1>5, <1>6, <1>8, <1>9

LEMMA DrawKeeps ==
  ASSUME Inv, DbInv, NEW c \in Cams, Draw(c)
  PROVE  DbInv'
<1> USE DEF Inv, DbInv
<1>1. PICK id \in DrawnIds :
        /\ currid' = id
        /\ pts' = [pts EXCEPT ![c] = @ (+) SetToBag({id})]
        /\ fresh' = [fresh EXCEPT ![c] = @ \cup {id}]
        /\ owner' = [owner EXCEPT ![id] = {c}]
  BY DEF Draw
<1>2. ~stereo /\ pc[c] = "detect" /\ UNCHANGED <<kind, stereo, initialized, db, now, ids, pc, todo>>
  BY DEF Draw
<1>3. id \in Ids /\ owner[id] = {}
  BY Counts DEF DrawnIds, Types, Undrawn
<1>4. /\ id \notin DOMAIN db
      /\ \A d \in Cams : id \notin DOMAIN todo[d] /\ id \notin fresh[d]
  BY <1>3 DEF Measured, Waiting, Proper, News
<1>5. \A i \in Ids : owner'[i] = IF i = id THEN {c} ELSE owner[i]
  BY <1>1 DEF Types
<1>6. \A d \in Cams : /\ fresh'[d] = IF d = c THEN fresh[c] \cup {id} ELSE fresh[d]
                      /\ d # c => pts'[d] = pts[d]
  BY <1>1 DEF Types
<1>7. DOMAIN pts'[c] = DOMAIN pts[c] \cup {id}
  <2>1. pts'[c] = pts[c] (+) SetToBag({id})
    BY <1>1 DEF Shapes
  <2> QED
    BY <2>1 DEF (+), SetToBag
<1>8. \A i \in DOMAIN db : i \in Ids /\ owner'[i] = owner[i]
  BY <1>4, <1>5 DEF Stored
<1>9. Measured'
  BY <1>2, <1>8 DEF Measured
<1>10. Unseen'
  BY <1>2 DEF Unseen
<1>11. Waiting'
  BY <1>2, <1>4, <1>5 DEF Waiting, Proper, Ids
<1>12. Unstored'
  BY <1>2, <1>4, <1>6, <1>7 DEF Unstored
<1>13. Alone'
  <2>1. \A d \in Cams : \A i \in fresh[d] : i \in Ids /\ owner'[i] = {d}
    BY <1>2, <1>4, <1>5 DEF Alone, Types
  <2>2. owner'[id] = {c}
    BY <1>3, <1>5
  <2> QED
    BY <1>2, <1>6, <2>1, <2>2 DEF Alone
<1>14. Followed'
  BY <1>2, <1>6 DEF Followed, Settled
<1> QED
  BY <1>9, <1>10, <1>11, <1>12, <1>13, <1>14

(* Both detections of a pair of images: points F that no camera had. *)
LEMMA DetectKeeps ==
  ASSUME Inv, DbInv, stereo, \A c \in Cams : pc[c] = "feed",
         pc' = [c \in Cams |-> "detect"], UNCHANGED <<kind, stereo, initialized, db, now, ids, todo>>,
         NEW F, fresh' = [c \in Cams |-> F],
         \A i \in F : owner[i] = {}, \A i \in Ids : i \in F \/ owner'[i] = owner[i],
         kind = "desc" => \A c \in Cams : DOMAIN pts'[c] \subseteq F
  PROVE  DbInv'
<1> USE DEF Inv, DbInv
<1>1. F \cap DOMAIN db = {} /\ \A c \in Cams : F \cap DOMAIN todo[c] = {}
  BY DEF Measured, Waiting, Proper
<1>2. \A i \in DOMAIN db : owner'[i] = owner[i]
  BY <1>1 DEF Stored
<1>3. Measured'
  BY <1>2 DEF Measured
<1>4. Unseen'
  BY DEF Unseen
<1>5. Waiting'
  BY <1>1 DEF Waiting, Proper, Ids
<1>6. Unstored'
  BY <1>1 DEF Unstored
<1>7. Alone'
  BY DEF Alone
<1>8. Followed'
  BY DEF Followed, Settled
<1> QED
  BY <1>3, <1>4, <1>5, <1>6, <1>7, <1>8

LEMMA DescDetectKeeps ==
  ASSUME Inv, DbInv, DescDetectStereo
  PROVE  DbInv'
<1>1. PICK n \in 0 .. MaxNew :
        /\ pts' = [c \in Cams |-> SetToBag(NewIds(n))]
        /\ fresh' = [c \in Cams |-> NewIds(n)]
        /\ owner' = [i \in Ids |-> IF i \in NewIds(n) THEN Cams ELSE owner[i]]
        /\ currid + n <= MaxId
  BY DEF DescDetectStereo
<1> DEFINE F == NewIds(n)
<1>2. \A i \in F : owner[i] = {}
  <2>1. \A i \in F : i \in Ids /\ i > currid
    BY <1>1, Counts DEF NewIds, Ids, Inv, Types
  <2> QED
    BY <2>1 DEF Inv, Undrawn
<1>3. \A c \in Cams : DOMAIN pts'[c] = F
  BY <1>1 DEF SetToBag
<1>4. \A i \in Ids : i \in F \/ owner'[i] = owner[i]
  BY <1>1
<1>5. fresh' = [c \in Cams |-> F]
  BY <1>1
<1>6. /\ stereo /\ \A c \in Cams : pc[c] = "feed"
      /\ pc' = [c \in Cams |-> "detect"] /\ UNCHANGED <<kind, stereo, initialized, db, now, ids, todo>>
  BY DEF DescDetectStereo
<1> HIDE DEF F
<1> QED
  BY <1>2, <1>3, <1>4, <1>5, <1>6, DetectKeeps

LEMMA KltDetectKeeps ==
  ASSUME Inv, DbInv, KltDetectStereo
  PROVE  DbInv'
<1>0. PICK nl \in 0 .. MaxNew, nr \in 0 .. MaxNew :
        \E pair \in SUBSET NewIds(nl) :
        /\ owner' = [i \in Ids |-> IF i \in pair THEN Cams ELSE IF i \in NewIds(nl) THEN {Left}
                                   ELSE IF i \in (currid + nl + 1)..(currid + nl + nr) THEN {Right} ELSE owner[i]]
        /\ fresh' = [c \in Cams |-> NewIds(nl + nr)]
        /\ currid + nl + nr <= MaxId
  BY DEF KltDetectStereo
<1>1. PICK pair \in SUBSET NewIds(nl) :
        /\ owner' = [i \in Ids |-> IF i \in pair THEN Cams ELSE IF i \in NewIds(nl) THEN {Left}
                                   ELSE IF i \in (currid + nl + 1)..(currid + nl + nr) THEN {Right} ELSE owner[i]]
        /\ fresh' = [c \in Cams |-> NewIds(nl + nr)]
        /\ currid + nl + nr <= MaxId
  BY <1>0
<1> DEFINE F == NewIds(nl + nr)
<1>2. currid \in FirstId .. MaxId /\ nl \in Nat /\ nr \in Nat /\ FirstId \in Nat /\ MaxId \in Nat
  BY Counts DEF Inv, Types
<1>3. \A i \in F : owner[i] = {}
  <2>1. \A i \in F : i \in Ids /\ i > currid
    BY <1>1, <1>2 DEF NewIds, Ids
  <2> QED
    BY <2>1 DEF Inv, Undrawn
<1>4. \A i \in Ids : i \in F \/ owner'[i] = owner[i]
  <2>1. \A i \in Ids : i \in NewIds(nl) \/ i \in (currid + nl + 1)..(currid + nl + nr) => i \in F
    BY <1>2 DEF NewIds, Ids
  <2> QED
    BY <1>1, <2>1
<1>5. fresh' = [c \in Cams |-> F]
  BY <1>1
<1>6. /\ stereo /\ kind = "klt" /\ \A c \in Cams : pc[c] = "feed"
      /\ pc' = [c \in Cams |-> "detect"] /\ UNCHANGED <<kind, stereo, initialized, db, now, ids, todo>>
  BY DEF KltDetectStereo
<1> HIDE DEF F
<1> QED
  BY <1>3, <1>4, <1>5, <1>6, DetectKeeps

(* What is in the database was not seen now by a camera that detects. *)
LEMMA DetectUnseen ==
  ASSUME Unseen
  PROVE  \A i \in DOMAIN db, c \in Cams :
           pc[c] = "detect" => \A j \in 1 .. Len(db[i][c]) : db[i][c][j] < now
BY DEF Unseen

(* Whatever was matched: all of it is still to be stored. *)
LEMMA MatchedKeeps ==
  ASSUME Inv, DbInv, Follow
  PROVE  DbInv'
<1> USE DEF DbInv
<1>0. PICK C, good :
        /\ C \in SUBSET Cams
        /\ Matched(C, good)
        /\ \A c \in C : pc[c] = "detect" /\ Proper(c, good[c])
        /\ stereo => C = Cams
  BY DEF Follow
<1>1. /\ pts' = [c \in Cams |-> IF c \in C THEN good[c] ELSE pts[c]]
      /\ todo' = [c \in Cams |-> IF c \in C THEN good[c] ELSE todo[c]]
      /\ pc' = [c \in Cams |-> IF c \in C THEN "store" ELSE pc[c]]
      /\ UNCHANGED <<kind, stereo, initialized, db, now, currid, ids, fresh, owner>>
  BY <1>0 DEF Matched
<1>2. Measured' /\ Waiting'
  <2>1. Measured'
    BY <1>1 DEF Measured
  <2>2. Waiting'
    BY <1>0, <1>1 DEF Waiting, Proper, Ids
  <2> QED
    BY <2>1, <2>2
<1>3. Unseen'
  <2>1. ASSUME NEW i \in DOMAIN db, NEW c \in Cams,
               pc'[c] \in {"feed", "detect"} \/ (pc'[c] = "store" /\ i \in DOMAIN todo'[c]),
               NEW j \in 1 .. Len(db[i][c])
        PROVE  db[i][c][j] < now
    <3>1. CASE c \in C
      <4>1. pc[c] = "detect"
        BY <1>0, <3>1
      <4>2. \A x \in DOMAIN db, y \in Cams :
              pc[y] = "detect" => \A k \in 1 .. Len(db[x][y]) : db[x][y][k] < now
        BY DetectUnseen, Zenon
      <4> QED
        BY <4>1, <4>2, Zenon
    <3>2. CASE c \notin C
      <4>1. pc'[c] = pc[c] /\ todo'[c] = todo[c]
        BY <1>1, <3>2
      <4> QED
        BY <2>1, <4>1 DEF Unseen
    <3> QED
      BY <3>1, <3>2
  <2> QED
    BY <1>1, <2>1 DEF Unseen
<1>4. Unstored'
  BY <1>0, <1>1 DEF Unstored
<1>5. Alone'
  BY <1>0, <1>1 DEF Alone
<1>6. Followed'
  BY <1>0, <1>1 DEF Followed, Settled
<1> QED
  BY <1>2, <1>3, <1>4, <1>5, <1>6

(* Lists that are saved have only points that were stored, or that are new. *)
LEMMA DoneKeeps ==
  ASSUME Inv, DbInv, NEW C \in SUBSET Cams, NEW lists, Done(C, lists), stereo => C = Cams,
         \A c \in C : \A i \in DOMAIN lists[c] : i \in DOMAIN db => SeenSince(db[i], now)
  PROVE  DbInv'
<1> USE DEF DbInv
<1>1. /\ ids' = [c \in Cams |-> IF c \in C THEN lists[c] ELSE ids[c]]
      /\ pts' = [c \in Cams |-> IF c \in C THEN EmptyBag ELSE pts[c]]
      /\ fresh' = [c \in Cams |-> IF c \in C THEN {} ELSE fresh[c]]
      /\ pc' = [c \in Cams |-> IF c \in C THEN "idle" ELSE pc[c]]
      /\ UNCHANGED <<kind, stereo, initialized, db, now, currid, todo, owner>>
  BY DEF Done
<1>2. Measured' /\ Waiting'
  BY <1>1 DEF Measured, Waiting, Proper, Ids
<1>3. Unseen'
  BY <1>1 DEF Unseen
<1>4. Unstored'
  BY <1>1 DEF Unstored
<1>5. Alone'
  BY <1>1 DEF Alone
<1>6. Followed'
  BY <1>1 DEF Followed, Settled
<1> QED
  BY <1>2, <1>3, <1>4, <1>5, <1>6

LEMMA SaveKeeps ==
  ASSUME Inv, DbInv, NEW C \in Threads, SaveDetected(C) \/ Reset(C) \/ Save(C)
  PROVE  DbInv'
<1>1. C \in SUBSET Cams /\ (stereo => C = Cams)
  BY DEF Threads
<1>2. CASE SaveDetected(C)
  <2>1. Done(C, pts) /\ \A c \in C : pc[c] = "detect"
    BY <1>2 DEF SaveDetected
  <2>2. \A c \in C : DOMAIN pts[c] \subseteq fresh[c]
    <3>1. CASE kind = "klt"
      <4>1. \A c \in C : DOMAIN ids[c] = {}
        BY <1>2, <3>1, EmptyDomain DEF SaveDetected, StartsAgain
      <4> QED
        BY <1>1, <4>1 DEF Inv, News
    <3>2. CASE kind = "desc"
      BY <1>1, <2>1, <3>2 DEF DbInv, Unstored
    <3> QED
      BY <3>1, <3>2, Options DEF Inv, Types
  <2>3. \A c \in C : \A i \in DOMAIN pts[c] : i \notin DOMAIN db
    BY <1>1, <2>1, <2>2 DEF DbInv, Unstored
  <2> QED
    BY <1>1, <2>1, <2>3, DoneKeeps
<1>3. CASE Reset(C)
  <2>1. Done(C, Nothing)
    BY <1>3 DEF Reset
  <2>2. \A c \in C : DOMAIN Nothing[c] = {}
    BY <1>1, EmptyDomain DEF Nothing
  <2> QED
    BY <1>1, <2>1, <2>2, DoneKeeps
<1>4. CASE Save(C)
  <2>1. Done(C, pts) /\ \A c \in C : pc[c] = "store" /\ DOMAIN todo[c] = {}
    BY <1>4, EmptyDomain DEF Save
  <2>2. \A c \in C : \A i \in DOMAIN pts[c] : i \in DOMAIN db => SeenSince(db[i], now)
    BY <1>1, <2>1 DEF DbInv, Followed, Settled
  <2> QED
    BY <1>1, <2>1, <2>2, DoneKeeps
<1> QED
  BY <1>2, <1>3, <1>4

LEMMA StoreKeeps ==
  ASSUME Inv, DbInv, NEW c \in Cams, Store(c)
  PROVE  DbInv'
<1> USE DEF DbInv
<1>1. PICK id \in DOMAIN todo[c] :
        /\ db' = update_feature(db, id, now, c)
        /\ todo' = [todo EXCEPT ![c] = @ (-) SetToBag({id})]
  BY DEF Store
<1>2. pc[c] = "store" /\ UNCHANGED <<kind, stereo, initialized, now, currid, ids, pc, pts, fresh, owner>>
  BY DEF Store
<1>3. id \in Ids /\ c \in owner[id] /\ \A i \in DOMAIN todo[c] : todo[c][i] = 1
  BY DEF Waiting, Proper
<1>4. \A d \in Cams : /\ DOMAIN todo'[d] = IF d = c THEN DOMAIN todo[c] \ {id} ELSE DOMAIN todo[d]
                      /\ \A i \in DOMAIN todo'[d] : todo'[d][i] = todo[d][i]
  <2>1. /\ DOMAIN (todo[c] (-) SetToBag({id})) = DOMAIN todo[c] \ {id}
        /\ \A i \in DOMAIN todo[c] \ {id} : (todo[c] (-) SetToBag({id}))[i] = todo[c][i]
    BY <1>3 DEF (-), SetToBag
  <2>2. \A d \in Cams : todo'[d] = IF d = c THEN todo[c] (-) SetToBag({id}) ELSE todo[d]
    BY <1>1 DEF Inv, Shapes
  <2> QED
    BY <2>1, <2>2
<1> DEFINE before(d) == IF id \in DOMAIN db THEN db[id][d] ELSE << >>
<1>5. /\ DOMAIN db' = DOMAIN db \cup {id}
      /\ \A i \in DOMAIN db : i # id => db'[i] = db[i]
      /\ \A d \in Cams : d # c => db'[id][d] = before(d)
      /\ db'[id][c] = Append(before(c), now)
  <2>1. /\ DOMAIN db' = DOMAIN db \cup {id}
        /\ \A i \in DOMAIN db : i # id => db'[i] = db[i]
        /\ db'[id] = [Times(db, id) EXCEPT ![c] = Append(@, now)]
    BY <1>1 DEF update_feature
  <2>2. \A d \in Cams : Times(db, id)[d] = before(d)
    BY DEF Times
  <2>3. c \in DOMAIN Times(db, id)
    <3>1. CASE id \in DOMAIN db
      BY <3>1 DEF Measured, Times
    <3>2. CASE id \notin DOMAIN db
      BY <3>2 DEF Times
    <3> QED
      BY <3>1, <3>2
  <2> QED
    BY <2>1, <2>2, <2>3
<1>6. << >> \in Seq(Nat) /\ Len(<< >>) = 0 /\ 1 .. Len(<< >>) = {}
  BY EmptySeq
<1>7. \A d \in Cams : /\ before(d) \in Seq(Nat) /\ Increasing(before(d))
                      /\ before(d) # << >> => d \in owner[id]
                      /\ \A j \in 1 .. Len(before(d)) : before(d)[j] <= now
  <2>1. CASE id \in DOMAIN db
    BY <2>1 DEF Measured
  <2>2. CASE id \notin DOMAIN db
    <3>1. \A d \in Cams : before(d) = << >>
      BY <2>2
    <3>2. Increasing(<< >>)
      BY <1>6 DEF Increasing
    <3> HIDE DEF before
    <3> QED
      BY <1>6, <3>1, <3>2
  <2> QED
    BY <2>1, <2>2
<1>8. \A j \in 1 .. Len(before(c)) : before(c)[j] < now
  <2>1. CASE id \in DOMAIN db
    BY <1>1, <1>2, <2>1 DEF Unseen
  <2>2. CASE id \notin DOMAIN db
    BY <1>6, <2>2
  <2> QED
    BY <2>1, <2>2
<1>9. now \in Nat
  BY DEF Inv, Types
<1> HIDE DEF before
<1>10. /\ db'[id][c] \in Seq(Nat) /\ Increasing(db'[id][c])
       /\ \A j \in 1 .. Len(db'[id][c]) : db'[id][c][j] <= now
       /\ db'[id][c] # << >> /\ db'[id][c][Len(db'[id][c])] = now
  BY <1>5, <1>7, <1>8, <1>9, AppendIncreases
<1>11. Measured'
  <2>1. ASSUME NEW i \in DOMAIN db'
        PROVE  /\ owner[i] # {}
               /\ \A d \in Cams : /\ db'[i][d] \in Seq(Nat) /\ Increasing(db'[i][d])
                                  /\ db'[i][d] # << >> => d \in owner[i]
                                  /\ \A j \in 1 .. Len(db'[i][d]) : db'[i][d][j] <= now
    <3>1. CASE i # id
      BY <1>5, <3>1 DEF Measured
    <3>2. CASE i = id
      BY <1>3, <1>5, <1>7, <1>10, <3>2
    <3> QED
      BY <3>1, <3>2
  <2>2. \A i \in DOMAIN db' : DOMAIN db'[i] = Cams
    <3>1. DOMAIN db'[id] = Cams
      BY <1>1 DEF update_feature, Times, Measured
    <3> QED
      BY <1>5, <3>1 DEF Measured
  <2> QED
    BY <1>2, <2>1, <2>2 DEF Measured
<1>12. Unseen'
  <2>1. ASSUME NEW i \in DOMAIN db', NEW d \in Cams,
               pc[d] \in {"feed", "detect"} \/ (pc[d] = "store" /\ i \in DOMAIN todo'[d]),
               NEW j \in 1 .. Len(db'[i][d])
        PROVE  db'[i][d][j] < now
    <3>1. pc[d] \in {"feed", "detect"} \/ (pc[d] = "store" /\ i \in DOMAIN todo[d])
      BY <1>4, <2>1
    <3>2. CASE i # id
      BY <1>5, <2>1, <3>1, <3>2 DEF Unseen
    <3>3. CASE i = id /\ d # c
      <4>1. db'[i][d] = before(d)
        BY <1>5, <3>3
      <4>2. id \in DOMAIN db
        BY <1>6, <2>1, <4>1 DEF before
      <4> QED
        BY <2>1, <3>1, <3>3, <4>1, <4>2 DEF before, Unseen
    <3>4. ~(i = id /\ d = c)
      BY <1>2, <1>4, <2>1
    <3> QED
      BY <3>2, <3>3, <3>4
  <2> QED
    BY <1>2, <2>1 DEF Unseen
<1>13. Waiting'
  BY <1>2, <1>4 DEF Waiting, Proper, Ids
<1>14. Alone'
  BY <1>2 DEF Alone
<1>15. Unstored'
  <2>1. ASSUME NEW d \in Cams, pc[d] = "detect"
        PROVE  id \notin fresh[d]
    BY <1>2, <1>3, <2>1 DEF Alone
  <2> QED
    BY <1>2, <1>5, <2>1 DEF Unstored
<1>16. Followed'
  <2>1. SeenSince(db'[id], now)
    BY <1>9, <1>10 DEF SeenSince
  <2>2. \A d \in Cams : \A i \in Settled(d)' : i = id \/ i \in Settled(d)
    BY <1>2, <1>4 DEF Settled
  <2> QED
    BY <1>2, <1>5, <2>1, <2>2 DEF Followed
<1> QED
  BY <1>11, <1>12, <1>13, <1>14, <1>15, <1>16

---------------------------------------------------------------------------
(* The theorems. *)

LEMMA StepInv == Inv /\ [Track \/ Clean]_vars => Inv' /\ (Forward \/ UNCHANGED vars)
<1> SUFFICES ASSUME Inv, [Track \/ Clean]_vars PROVE Inv' /\ (Forward \/ UNCHANGED vars)
  OBVIOUS
<1>1. CASE Clean
  BY <1>1, CleanStep
<1>2. CASE FeedNewCamera
  BY <1>2, FeedStep
<1>3. ASSUME NEW c \in Cams, BeginMono(c) \/ Draw(c) \/ KltMatchMono(c) \/ DescMatchMono(c) \/ Store(c)
      PROVE  Inv' /\ Forward
  BY <1>3, BeginStep, DrawStep, KltMatchMonoFollows, DescMatchMonoFollows, MatchedStep, StoreStep
<1>4. CASE KltDetectStereo \/ DescDetectStereo \/ KltMatchStereo \/ DescMatchStereo
  BY <1>4, KltDetectStep, DescDetectStep, KltMatchStereoFollows, DescMatchStereoFollows, MatchedStep
<1>5. ASSUME NEW C \in Threads, SaveDetected(C) \/ Reset(C) \/ Save(C)
      PROVE  Inv' /\ Forward
  BY <1>5, SaveStep
<1>6. CASE UNCHANGED vars
  <2>1. Types'
    BY <1>6 DEF Inv, Types, vars, trackVars, Ids
  <2>2. Shapes' /\ Undrawn' /\ Lists' /\ News' /\ Stored' /\ Pairs'
    BY <1>6 DEF Inv, Shapes, Undrawn, Lists, News, Stored, Pairs, Proper, vars, trackVars, Ids
  <2> QED
    BY <1>6, <2>1, <2>2 DEF Inv
<1> QED
  BY <1>1, <1>2, <1>3, <1>4, <1>5, <1>6 DEF Track

LEMMA Invariance == Spec => []Inv
<1>1. Inv /\ [Track \/ Clean]_vars => Inv'
  BY StepInv
<1> QED
  BY <1>1, InitInv, PTL DEF Spec

LEMMA InitDb == Init => DbInv
<1> SUFFICES ASSUME Init PROVE DbInv
  OBVIOUS
<1>1. DOMAIN db = {} /\ \A c \in Cams : pc[c] = "idle" /\ fresh[c] = {} /\ todo[c] = EmptyBag
  BY DEF Init, Nothing
<1> QED
  BY <1>1, EmptyDomain DEF DbInv, Measured, Unseen, Waiting, Unstored, Alone, Followed, Proper

LEMMA StepDb == Inv /\ DbInv /\ [Track \/ Clean]_vars => DbInv'
<1> SUFFICES ASSUME Inv, DbInv, [Track \/ Clean]_vars PROVE DbInv'
  OBVIOUS
<1>1. CASE Clean
  BY <1>1, CleanKeeps DEF Inv
<1>2. CASE FeedNewCamera
  BY <1>2, FeedKeeps DEF Inv
<1>3. ASSUME NEW c \in Cams, BeginMono(c) \/ Draw(c) \/ KltMatchMono(c) \/ DescMatchMono(c) \/ Store(c)
      PROVE  DbInv'
  BY <1>3, BeginKeeps, DrawKeeps, KltMatchMonoFollows, DescMatchMonoFollows, MatchedKeeps, StoreKeeps
<1>4. CASE KltDetectStereo \/ DescDetectStereo \/ KltMatchStereo \/ DescMatchStereo
  BY <1>4, KltDetectKeeps, DescDetectKeeps, KltMatchStereoFollows, DescMatchStereoFollows, MatchedKeeps
<1>5. ASSUME NEW C \in Threads, SaveDetected(C) \/ Reset(C) \/ Save(C)
      PROVE  DbInv'
  BY <1>5, SaveKeeps
<1>6. CASE UNCHANGED vars
  BY <1>6 DEF vars, trackVars, DbInv, Measured, Unseen, Waiting, Unstored, Alone, Followed, Settled, Proper, Ids
<1> QED
  BY <1>1, <1>2, <1>3, <1>4, <1>5, <1>6 DEF Track

LEMMA DbInvariance == Spec => [](Inv /\ DbInv)
<1>1. Inv /\ DbInv /\ [Track \/ Clean]_vars => (Inv /\ DbInv)'
  BY StepInv, StepDb
<1>2. Init => Inv /\ DbInv
  BY InitInv, InitDb
<1> QED
  BY <1>1, <1>2, PTL DEF Spec

(* Types of the trackers: every list, and the database, holds identifiers  *)
(* above those of the aruco corners only.                                  *)
THEOREM TypeCorrect == Spec => []TypeOK
<1>1. Inv => TypeOK
  <2> SUFFICES ASSUME Inv PROVE TypeOK
    OBVIOUS
  <2>1. \A c \in Cams : DOMAIN ids[c] \cup DOMAIN pts[c] \cup DOMAIN todo[c] \cup fresh[c] \subseteq Ids
    BY DEF Inv, Lists, Proper, Stored, Types
  <2> QED
    BY <2>1 DEF Inv, Types, Stored, TypeOK
<1> QED
  BY <1>1, Invariance, PTL

(* No list ever holds an identifier twice, whatever detection and matching *)
(* find and however the camera threads draw from the counter.              *)
THEOREM IdsStayUnique == Spec => []IdsUnique
<1>1. Inv => IdsUnique
  BY DEF Inv, Lists, Proper, IdsUnique
<1> QED
  BY <1>1, Invariance, PTL

(* A camera only follows identifiers drawn for it, and the descriptor      *)
(* tracker's two lists of a stereo pair are equal.                         *)
THEOREM PointsKeepTheirIds == Spec => []OneIdOnePoint
<1>1. Inv => OneIdOnePoint
  BY DEF Inv, Lists, Proper, Pairs, OneIdOnePoint
<1> QED
  BY <1>1, Invariance, PTL

(* What enters a list was drawn in this image, and nothing is drawn twice. *)
THEOREM IdsNeverReturn == Spec => NoIdReturns
<1>1. Inv /\ [Track \/ Clean]_vars =>
        [/\ \A c \in Cams : DOMAIN ids'[c] \subseteq DOMAIN ids[c] \cup fresh[c]
         /\ \A i \in Ids : owner[i] # {} => owner'[i] = owner[i]]_vars
  BY StepInv DEF Forward
<1> QED
  BY <1>1, Invariance, PTL DEF Spec, NoIdReturns

(* However the threads of two cameras and those that clean the database    *)
(* interleave, no camera measures a point twice in an image, nor one of    *)
(* the other camera.                                                       *)
THEOREM OncePerImage == Spec => []MeasuredOnce
<1>1. Inv /\ DbInv => MeasuredOnce
  <2> SUFFICES ASSUME DbInv PROVE MeasuredOnce
    OBVIOUS
  <2>1. \A i \in DOMAIN db, c \in Cams : DOMAIN db[i][c] = 1 .. Len(db[i][c])
    BY LenProperties DEF DbInv, Measured
  <2> QED
    BY <2>1 DEF DbInv, Measured, Increasing, MeasuredOnce
<1> QED
  BY <1>1, DbInvariance, PTL

(* Between images, a feature that the filter takes to be lost, and uses    *)
(* up and deletes, is followed by no camera any more.                      *)
THEOREM LostForGood == Spec => []LostMeansUntracked
<1>1. Inv /\ DbInv => LostMeansUntracked
  <2> SUFFICES ASSUME DbInv, Idle, NEW i \in features_not_containing_newer(db, now), NEW c \in Cams
               PROVE  i \notin DOMAIN ids[c]
    BY DEF LostMeansUntracked
  <2>1. i \in DOMAIN db /\ ~SeenSince(db[i], now)
    BY DEF features_not_containing_newer
  <2>2. Settled(c) = DOMAIN ids[c]
    BY DEF Idle, Settled
  <2> QED
    BY <2>1, <2>2 DEF DbInv, Followed
<1> QED
  BY <1>1, DbInvariance, PTL
=============================================================================
