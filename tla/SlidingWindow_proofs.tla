------------------------ MODULE SlidingWindow_proofs ------------------------
(***************************************************************************)
(* Proofs about SlidingWindow, for every set of image times and features   *)
(* and every value of the options.                                         *)
(***************************************************************************)
EXTENDS SlidingWindow, Subsequences_proofs

(* State::margtimestep returns a clone, and no clone is older.             *)
LEMMA MargTimeIsOldest ==
  ASSUME clones \subseteq Times, clones # {}
  PROVE  MargTime \in clones /\ \A d \in clones : MargTime <= d
<1>1. \E m \in clones : \A n \in clones : m <= n
  BY LeastExists, TimesAssumption
<1> QED
  BY <1>1 DEF MargTime

(* std::min of two sizes.                                                  *)
LEMMA FewestType ==
  ASSUME NEW a \in Nat, NEW b \in Nat
  PROVE  Fewest(a, b) \in Nat /\ Fewest(a, b) <= a /\ Fewest(a, b) <= b
BY DEF Fewest

-----------------------------------------------------------------------------
(* Types *)

LEMMA InitTypeOK == Init => TypeOK
<1> SUFFICES ASSUME Init PROVE TypeOK
  OBVIOUS
<1>1. /\ ts \in Times /\ startup \in Times /\ msg \in Times
      /\ clones \subseteq Times
  BY DEF Init
<1>2. /\ slam \subseteq Features /\ del \subseteq Features
      /\ msckf \subseteq Tracks /\ slamUp \subseteq Features /\ slamNew \subseteq Features
      /\ used \subseteq Features \X Times
  BY DEF Init
<1>3. /\ anchor \in [Features -> Times \cup {0}]
      /\ fails \in [Features -> 0..2]
  BY DEF Init
<1>6. db \in [Features -> SUBSET Times]
  BY DEF Init
<1>4. phase \in Phases /\ zuptTs \in Times \cup {0} /\ zuptCount \in 0..2
  BY DEF Init, Phases
<1>5. didZupt \in BOOLEAN /\ moved \in BOOLEAN /\ reused \in BOOLEAN
  BY Zenon DEF Init
<1> QED
  BY <1>1, <1>2, <1>3, <1>4, <1>5, <1>6, Zenon DEF TypeOK

(* The measurements an update consumes are measurements of features.       *)
LEMMA ConsumeType ==
  ASSUME TypeOK, NEW F, F \subseteq Features, Consume(F)
  PROVE  used' \subseteq Features \X Times /\ reused' \in BOOLEAN
<1>1. \A f \in F : Usable(f) \subseteq Times
  BY DEF TypeOK, Usable
<1>2. UNION {{<<f, t>> : t \in Usable(f)} : f \in F} \subseteq Features \X Times
  BY <1>1
<1> QED
  BY <1>2 DEF Consume, TypeOK

LEMMA StepTypeOK == TypeOK /\ [Next]_vars => TypeOK'
<1> SUFFICES ASSUME TypeOK, [Next]_vars PROVE TypeOK'
  OBVIOUS
<1> USE DEF TypeOK, Phases
<1>1. CASE TrackImage
  <2>1. PICK m \in Times, seen \in SUBSET Features : Track(m, seen)
    BY <1>1 DEF TrackImage
  <2>2. db' \in [Features -> SUBSET Times]
    BY <2>1 DEF Track
  <2> QED
    BY <2>1, <2>2 DEF Track, stateVars, listVars, zuptVars, histVars
<1>2. CASE ZuptSkip
  BY <1>2 DEF ZuptSkip, stateVars, listVars, zuptVars, histVars
<1>3. CASE ZuptRepeat
  BY <1>3 DEF ZuptRepeat, stateVars, listVars, zuptVars, histVars
<1>4. CASE ZuptReject
  <2>1. zuptCount' \in 0..2
    BY <1>4 DEF ZuptReject
  <2>2. /\ zuptTs' \in Times \cup {0} /\ didZupt' \in BOOLEAN /\ moved' \in BOOLEAN
        /\ phase' \in Phases
    BY <1>4 DEF ZuptReject
  <2> QED
    BY <1>4, <2>1, <2>2 DEF ZuptReject, stateVars, listVars, histVars
<1>5. CASE ZuptAccept
  <2>1. db' \in [Features -> SUBSET Times]
    BY <1>5 DEF ZuptAccept
  <2>2. zuptCount' \in 0..2
    BY <1>5 DEF ZuptAccept, Fewest
  <2> QED
    BY <1>5, <2>1, <2>2 DEF ZuptAccept, listVars, histVars
<1>6. CASE OutOfOrder
  BY <1>6 DEF OutOfOrder, stateVars, listVars, zuptVars, histVars
<1>7. CASE Propagate
  <2>1. clones' \subseteq Times /\ ts' \in Times
    BY <1>7 DEF Propagate
  <2>2. phase' \in Phases /\ moved' \in BOOLEAN
    BY <1>7 DEF Propagate
  <2> QED
    BY <1>7, <2>1, <2>2 DEF Propagate, listVars, histVars
<1>8. CASE Select
  <2>1. PICK chosen \in SUBSET MaxTracks :
          /\ slam' = slam \ Dropped
          /\ anchor' = [f \in Features |-> IF f \in Dropped THEN 0 ELSE anchor[f]]
          /\ fails' = [f \in Features |-> IF f \in Dropped THEN 0 ELSE fails[f]]
          /\ LET feats_slam == ArucoMarg \cup chosen \cup {f \in slam : db[f] # {}}
             IN slamUp' = feats_slam \cap slam' /\ slamNew' = feats_slam \ slam'
          /\ msckf' \in MsckfLists(chosen)
          /\ reused' = (reused \/ (ArucoMarg \cup chosen) \cap slam # {})
    BY <1>8 DEF Select
  <2>4. anchor' \in [Features -> Times \cup {0}] /\ fails' \in [Features -> 0..2]
    BY <2>1
  <2>5. reused' \in BOOLEAN
    BY <2>1
  <2>6. slam' \subseteq Features /\ slamUp' \subseteq Features
    BY <2>1
  <2>2. ArucoMarg \subseteq Features /\ chosen \subseteq Features
    BY DEF ArucoMarg, MaxTracks, Marg, Features
  <2>3. msckf' \subseteq Tracks
    BY <2>1 DEF MsckfLists, Lost, Marg
  <2>7. slamNew' \subseteq Features
    BY <2>1, <2>2
  <2> QED
    BY <1>8, <2>3, <2>4, <2>5, <2>6, <2>7 DEF Select, zuptVars
<1>9. CASE MsckfUpdate
  <2>1. msckf \subseteq Features /\ Consume(msckf)
    BY <1>9 DEF MsckfUpdate, Features
  <2> QED
    BY <1>9, <2>1, ConsumeType DEF MsckfUpdate, stateVars, listVars, zuptVars
<1>10. CASE SlamUpdate
  <2>1. PICK left \in SUBSET TooFew :
          /\ \E rejected \in SUBSET {f \in slamUp \ left : Usable(f) # {}} :
               fails' = [f \in Features |-> IF f \in rejected THEN Fewest(fails[f] + 1, 2) ELSE fails[f]]
          /\ Consume(slamUp \ left)
          /\ del' = del \cup (slamUp \ left)
          /\ db' = [f \in Features |-> IF f \in left THEN Usable(f) ELSE db[f]]
    BY <1>10 DEF SlamUpdate
  <2>2. fails' \in [Features -> 0..2]
    BY <2>1 DEF Fewest
  <2>3. db' \in [Features -> SUBSET Times]
    BY <2>1 DEF Usable
  <2>4. used' \subseteq Features \X Times /\ reused' \in BOOLEAN
    BY <2>1, ConsumeType
  <2>5. del' \subseteq Features
    BY <2>1
  <2> QED
    BY <1>10, <2>2, <2>3, <2>4, <2>5 DEF SlamUpdate, listVars, zuptVars
<1>11. CASE DelayedInit
  <2>1. PICK added \in SUBSET {f \in slamNew : Usable(f) # {}} :
          /\ slam' = slam \cup added
          /\ fails' = [f \in Features |-> IF f \in added THEN 0 ELSE fails[f]]
          /\ \E a \in [added -> clones] :
               anchor' = [f \in Features |-> IF f \in added THEN a[f] ELSE anchor[f]]
          /\ Consume(added)
    BY <1>11 DEF DelayedInit
  <2>2. added \subseteq Features
    OBVIOUS
  <2>3. fails' \in [Features -> 0..2]
    BY <2>1
  <2>4. anchor' \in [Features -> Times \cup {0}]
    BY <2>1
  <2> QED
    BY <1>11, <2>1, <2>2, <2>3, <2>4, ConsumeType DEF DelayedInit, listVars, zuptVars
<1>12. CASE Cleanup
  <2>1. db' \in [Features -> SUBSET Times]
    BY <1>12 DEF Cleanup
  <2> QED
    BY <1>12, <2>1 DEF Cleanup, stateVars, listVars, zuptVars, histVars
<1>13. CASE ChangeAnchors
  <2>1. anchor' \in [Features -> Times \cup {0}]
    BY <1>13 DEF ChangeAnchors
  <2> QED
    BY <1>13, <2>1 DEF ChangeAnchors, listVars, zuptVars, histVars
<1>14. CASE MarginalizeOldClone
  <2>1. clones' \subseteq Times /\ db' \in [Features -> SUBSET Times]
    BY <1>14 DEF MarginalizeOldClone
  <2> QED
    BY <1>14, <2>1 DEF MarginalizeOldClone, zuptVars, histVars
<1>15. CASE UNCHANGED vars
  BY <1>15 DEF vars, stateVars, listVars, zuptVars, histVars
<1>16. CASE DoubleClone
  BY <1>16 DEF DoubleClone, stateVars, listVars, zuptVars, histVars
<1> QED
  BY <1>1, <1>2, <1>3, <1>4, <1>5, <1>6, <1>7, <1>8, <1>9, <1>10, <1>11, <1>12,
     <1>13, <1>14, <1>15, <1>16 DEF Next

(* The state of the filter keeps its shape: clones are at known image      *)
(* times, landmarks and feature lists hold known features.                 *)
THEOREM TypeCorrect == Spec => []TypeOK
BY InitTypeOK, StepTypeOK, PTL DEF Spec

-----------------------------------------------------------------------------
(* State time *)

LEMMA StepTime ==
  TypeOK /\ [Next]_vars => ts' >= ts \/ (ZuptGate /\ didZupt' /\ phase = "zupt" /\ ts' = msg)
<1> SUFFICES ASSUME TypeOK, [Next]_vars, ts' # ts
             PROVE  ts' >= ts \/ (ZuptGate /\ didZupt' /\ phase = "zupt" /\ ts' = msg)
  BY TimesAssumption DEF TypeOK
<1>0. ts \in Nat /\ msg \in Nat
  BY TimesAssumption DEF TypeOK
<1>1. CASE TrackImage
  BY <1>1 DEF TrackImage, Track, stateVars
<1>2. CASE ZuptSkip \/ ZuptRepeat \/ ZuptReject \/ OutOfOrder \/ DoubleClone
  BY <1>2 DEF ZuptSkip, ZuptRepeat, ZuptReject, OutOfOrder, DoubleClone, stateVars
<1>3. CASE ZuptAccept
  BY <1>3 DEF ZuptAccept
<1>4. CASE Propagate
  BY <1>0, <1>4 DEF Propagate
<1>5. CASE Select \/ MsckfUpdate \/ SlamUpdate \/ DelayedInit
  BY <1>5 DEF Select, MsckfUpdate, SlamUpdate, DelayedInit, stateVars
<1>6. CASE Cleanup \/ ChangeAnchors \/ MarginalizeOldClone
  BY <1>6 DEF Cleanup, ChangeAnchors, MarginalizeOldClone, stateVars
<1>7. CASE UNCHANGED vars
  BY <1>7 DEF vars, stateVars
<1> QED
  BY <1>1, <1>2, <1>3, <1>4, <1>5, <1>6, <1>7 DEF Next

(* In whatever order images arrive, the state goes back in time only with  *)
(* a zero velocity update: propagate_and_clone is never asked to integrate *)
(* backwards, and once the updates are over the time only grows.           *)
THEOREM OnlyZuptGoesBack == Spec => BackOnlyByZupt
<1>1. TypeOK /\ [Next]_vars => [ts' < ts => ZuptGate /\ didZupt']_vars
  <2> SUFFICES ASSUME TypeOK, Next, ts' < ts PROVE ZuptGate /\ didZupt'
    BY DEF vars
  <2>1. TypeOK'
    BY StepTypeOK
  <2>2. ~(ts' >= ts)
    BY <2>1, TimesAssumption DEF TypeOK
  <2> QED
    BY <2>2, StepTime
<1> QED
  BY <1>1, TypeCorrect, PTL DEF Spec, BackOnlyByZupt

-----------------------------------------------------------------------------
(* The sliding window *)

LEMMA InitWindow == Init => WindowBound
<1> SUFFICES ASSUME Init PROVE WindowBound
  OBVIOUS
<1>1. /\ clones \subseteq Nat /\ ts \in Nat
      /\ \A c \in clones : c <= ts
      /\ phase = "idle"
  BY TimesAssumption DEF Init
<1>2. IsFiniteSet(clones)
  BY <1>1, FS_BoundedSetOfNaturals
<1>3. Cardinality(clones) \in Nat /\ Cardinality(clones) <= MaxClones
  BY <1>2, FS_CardinalityType DEF Init
<1> QED
  BY <1>1, <1>2, <1>3, OptionsAssumption DEF WindowBound

LEMMA StepWindow == TypeOK /\ WindowBound /\ [Next]_vars => WindowBound'
<1> SUFFICES ASSUME TypeOK, WindowBound, [Next]_vars PROVE WindowBound'
  OBVIOUS
<1>0. /\ Cardinality(clones) \in Nat /\ MaxClones \in Nat /\ EnoughClones \in Nat
  BY TimesAssumption, OptionsAssumption, FS_CardinalityType DEF TypeOK, WindowBound
<1>1. CASE /\ clones' = clones
           /\ phase' \in {"idle", "zupt", "propagate"}
                => phase \in {"idle", "zupt", "propagate"}
  BY <1>1 DEF WindowBound
<1>2. CASE TrackImage
  BY <1>1, <1>2 DEF TrackImage, Track, stateVars
<1>3. CASE ZuptSkip \/ ZuptRepeat \/ ZuptReject \/ OutOfOrder
  BY <1>1, <1>3 DEF ZuptSkip, ZuptRepeat, ZuptReject, OutOfOrder, stateVars
<1>4. CASE ZuptAccept \/ DoubleClone
  BY <1>1, <1>4 DEF ZuptAccept, DoubleClone, stateVars
<1>5. CASE Propagate
  <2>1. /\ phase = "propagate"
        /\ clones' = clones \/ clones' = clones \cup {msg}
        /\ phase' = IF Cardinality(clones') >= Fewest(MaxClones, EnoughClones)
                      THEN "select" ELSE "idle"
    BY <1>5 DEF Propagate
  <2>2. Cardinality(clones) <= MaxClones
    BY <2>1 DEF WindowBound
  <2>3. /\ IsFiniteSet(clones') /\ Cardinality(clones') \in Nat
        /\ Cardinality(clones') <= MaxClones + 1
    <3>1. /\ IsFiniteSet(clones \cup {msg})
          /\ Cardinality(clones \cup {msg}) \in {Cardinality(clones), Cardinality(clones) + 1}
      BY FS_AddElement DEF WindowBound
    <3> QED
      BY <1>0, <2>1, <2>2, <3>1 DEF WindowBound
  <2>4. phase' \in {"idle", "zupt", "propagate"} => Cardinality(clones') <= MaxClones
    BY <1>0, <2>1, <2>3 DEF Fewest
  <2> QED
    BY <2>3, <2>4 DEF WindowBound
<1>6. CASE Select \/ MsckfUpdate \/ SlamUpdate \/ DelayedInit
  BY <1>1, <1>6 DEF Select, MsckfUpdate, SlamUpdate, DelayedInit, stateVars
<1>7. CASE Cleanup \/ ChangeAnchors
  BY <1>1, <1>7 DEF Cleanup, ChangeAnchors, stateVars
<1>8. CASE MarginalizeOldClone
  <2>2. IsFiniteSet(clones') /\ Cardinality(clones') <= MaxClones
    <3>1. CASE OverFull
      <4>1. clones # {}
        BY <1>0, <3>1, FS_EmptySet DEF OverFull
      <4>2. MargTime \in clones
        BY <4>1, MargTimeIsOldest DEF TypeOK
      <4>3. clones' = clones \ {MargTime}
        BY <1>8, <3>1 DEF MarginalizeOldClone
      <4> QED
        BY <1>0, <4>2, <4>3, FS_RemoveElement DEF WindowBound
    <3>2. CASE ~OverFull
      BY <1>0, <1>8, <3>2 DEF MarginalizeOldClone, OverFull, WindowBound
    <3> QED
      BY <3>1, <3>2
  <2>3. Cardinality(clones') \in Nat
    BY <2>2, FS_CardinalityType
  <2> QED
    BY <1>0, <2>2, <2>3 DEF WindowBound
<1>9. CASE UNCHANGED vars
  BY <1>1, <1>9 DEF vars, stateVars
<1> QED
  BY <1>2, <1>3, <1>4, <1>5, <1>6, <1>7, <1>8, <1>9 DEF Next

(* The window of clones is bounded by max_clone_size between images and by *)
(* one more while an image is handled, in whatever order images arrive,    *)
(* also while the state is behind its clones.                              *)
THEOREM WindowBounded == Spec => []WindowBound
<1>1. Init => WindowBound
  BY InitWindow
<1>2. TypeOK /\ WindowBound /\ [Next]_vars => WindowBound'
  BY StepWindow
<1> QED
  BY <1>1, <1>2, TypeCorrect, PTL DEF Spec

-----------------------------------------------------------------------------
(* Images in time order *)

LEMMA InOrderIsSpec == InOrderSpec => Spec
<1>1. [Next /\ msg' >= msg]_vars => [Next]_vars
  OBVIOUS
<1> QED
  BY <1>1, PTL DEF InOrderSpec, Spec

(* The newest clone is never the one to be marginalised.                   *)
LEMMA MargTimeNotNewest ==
  ASSUME TypeOK, OrderInv, ts \in clones, OverFull
  PROVE  MargTime # ts
<1>1. SUFFICES ASSUME MargTime = ts PROVE FALSE
  OBVIOUS
<1>2. clones \subseteq Nat
  BY TimesAssumption DEF TypeOK
<1>3. \A c \in clones : ts <= c /\ c <= ts
  BY <1>1, MargTimeIsOldest DEF TypeOK, OrderInv
<1>4. clones = {ts}
  <2>1. \A c \in clones : c = ts
    BY <1>2, <1>3
  <2> QED
    BY <2>1
<1>5. Cardinality(clones) = 1
  BY <1>4, FS_Singleton
<1> QED
  BY <1>5, OptionsAssumption DEF OverFull

LEMMA InitOrder == Init => OrderInv
<1> SUFFICES ASSUME Init PROVE OrderInv
  OBVIOUS
<1>1. ts \in Nat /\ \A c \in clones : c <= ts
  BY TimesAssumption DEF Init
<1>2. phase = "idle" /\ msg >= ts /\ (ts \in clones \/ clones = {})
  BY DEF Init
<1> QED
  BY <1>1, <1>2 DEF OrderInv, TimeIsCovered

LEMMA StepOrder ==
  TypeOK /\ OrderInv /\ [Next /\ msg' >= msg]_vars => OrderInv'
<1> SUFFICES ASSUME TypeOK, OrderInv, [Next /\ msg' >= msg]_vars
             PROVE  OrderInv'
  OBVIOUS
<1> DEFINE early == {"idle", "zupt", "propagate"}
<1>0. ts \in Nat /\ msg \in Nat /\ clones \subseteq Nat /\ \A c \in clones : c <= ts
  BY TimesAssumption DEF TypeOK, OrderInv
<1>1. CASE TrackImage /\ msg' >= msg
  <2>1. phase = "idle" /\ phase' = "zupt" /\ UNCHANGED <<ts, clones, didZupt, moved>>
    BY <1>1 DEF TrackImage, Track, stateVars, zuptVars
  <2>2. msg' \in Nat /\ msg >= ts
    BY <2>1, StepTypeOK, TimesAssumption DEF TypeOK, OrderInv
  <2>3. msg' >= ts
    BY <1>0, <1>1, <2>2
  <2>4. msg' = ts => TimeIsCovered
    BY <1>0, <1>1, <2>1, <2>2 DEF OrderInv
  <2>5. TimeIsCovered' = TimeIsCovered
    BY <2>1 DEF TimeIsCovered, ZuptGate
  <2> QED
    BY <1>0, <2>1, <2>3, <2>4, <2>5 DEF OrderInv
<1>2. CASE ZuptSkip
  <2>1. /\ phase = "zupt" /\ ~ZuptGate /\ phase' = "propagate"
        /\ UNCHANGED <<ts, msg, clones>>
    BY <1>2 DEF ZuptSkip, stateVars
  <2> QED
    BY <2>1 DEF OrderInv, TimeIsCovered
<1>3. CASE ZuptRepeat
  <2>1. /\ phase = "zupt" /\ ts = msg /\ ZuptGate
        /\ phase' = IF didZupt THEN "idle" ELSE "propagate"
        /\ UNCHANGED <<ts, msg, clones, didZupt, moved>>
    BY <1>3 DEF ZuptRepeat, stateVars, zuptVars
  <2>2. TimeIsCovered
    BY <2>1 DEF OrderInv
  <2>3. TimeIsCovered'
    BY <2>1, <2>2 DEF TimeIsCovered, ZuptGate
  <2>4. CASE didZupt
    BY <1>0, <2>1, <2>3, <2>4 DEF OrderInv
  <2>5. CASE ~didZupt
    BY <1>0, <2>1, <2>2, <2>5 DEF OrderInv, TimeIsCovered
  <2> QED
    BY <2>4, <2>5
<1>4. CASE ZuptReject
  <2>1. /\ phase = "zupt" /\ ts # msg /\ phase' = "propagate"
        /\ UNCHANGED <<ts, msg, clones>>
    BY <1>4 DEF ZuptReject, stateVars
  <2> QED
    BY <2>1 DEF OrderInv
<1>5. CASE ZuptAccept
  <2>1. /\ ZuptGate /\ ts' = msg /\ msg' = msg /\ phase = "zupt" /\ phase' = "idle"
        /\ didZupt' = TRUE /\ moved' = moved /\ clones' = clones
    BY <1>5 DEF ZuptAccept
  <2>2. TimeIsCovered'
    BY <2>1 DEF TimeIsCovered, ZuptGate
  <2>3. msg >= ts
    BY <2>1 DEF OrderInv
  <2>4. \A c \in clones : c <= msg
    BY <1>0, <2>3
  <2> QED
    BY <1>0, <2>1, <2>2, <2>4 DEF OrderInv
<1>6. CASE OutOfOrder
  BY <1>0, <1>6 DEF OutOfOrder, OrderInv
<1>7. CASE Propagate
  <2>1. /\ phase = "propagate" /\ ts' = msg /\ msg' = msg
        /\ clones' = IF msg = ts THEN clones ELSE clones \cup {msg}
        /\ phase' = IF Cardinality(clones') >= Fewest(MaxClones, EnoughClones)
                      THEN "select" ELSE "idle"
    BY <1>7 DEF Propagate
  <2>2. ts' \in clones' \/ clones' = {}
    BY <2>1 DEF OrderInv
  <2>5. \A c \in clones' : c <= ts'
    <3>1. msg >= ts
      BY <2>1 DEF OrderInv
    <3>2. \A c \in clones \cup {msg} : c <= msg
      BY <1>0, <3>1
    <3> QED
      BY <2>1, <3>2
  <2>3. CASE phase' = "idle"
    BY <1>0, <2>1, <2>2, <2>3, <2>5 DEF OrderInv, TimeIsCovered
  <2>4. CASE phase' = "select"
    <3>1. Cardinality(clones') >= Fewest(MaxClones, EnoughClones)
      BY <2>1, <2>4
    <3>2. clones' # {}
      BY <3>1, FS_EmptySet, OptionsAssumption DEF Fewest
    <3> QED
      BY <2>1, <2>2, <2>4, <2>5, <3>2 DEF OrderInv
  <2> QED
    BY <2>1, <2>3, <2>4
<1>8. CASE Select \/ MsckfUpdate \/ SlamUpdate \/ DelayedInit \/ Cleanup \/ ChangeAnchors
  <2>1. /\ phase \in {"select", "msckf", "slam", "delayed", "cleanup", "anchors"}
        /\ phase' \in {"msckf", "slam", "delayed", "cleanup", "anchors", "marg"}
        /\ UNCHANGED <<ts, msg, clones>>
    BY <1>8 DEF Select, MsckfUpdate, SlamUpdate, DelayedInit, Cleanup, ChangeAnchors, stateVars
  <2> QED
    BY <2>1 DEF OrderInv
<1>9. CASE MarginalizeOldClone
  <2>1. /\ phase = "marg" /\ phase' = "idle" /\ UNCHANGED <<ts, msg>>
        /\ clones' = IF OverFull THEN clones \ {MargTime} ELSE clones
    BY <1>9 DEF MarginalizeOldClone
  <2>2. ts \in clones /\ msg = ts
    BY <2>1 DEF OrderInv
  <2>3. OverFull => MargTime # ts
    BY <2>2, MargTimeNotNewest
  <2>4. ts' \in clones'
    BY <2>1, <2>2, <2>3
  <2> QED
    BY <1>0, <2>1, <2>2, <2>4 DEF OrderInv, TimeIsCovered
<1>10. CASE UNCHANGED vars
  BY <1>10 DEF vars, stateVars, zuptVars, OrderInv, TimeIsCovered, ZuptGate
<1>11. CASE DoubleClone
  <2>1. phase = "propagate" /\ ts < msg /\ msg \in clones
    BY <1>11 DEF DoubleClone
  <2> QED
    BY <1>0, <2>1
<1> QED
  BY <1>1, <1>2, <1>3, <1>4, <1>5, <1>6, <1>7, <1>8, <1>9, <1>10, <1>11 DEF Next

LEMMA OrderInvariant == InOrderSpec => [](TypeOK /\ WindowBound /\ OrderInv)
<1>1. InOrderSpec => [](TypeOK /\ WindowBound)
  BY InOrderIsSpec, TypeCorrect, WindowBounded, PTL
<1>2. Init => OrderInv
  BY InitOrder
<1>3. TypeOK /\ OrderInv /\ [Next /\ msg' >= msg]_vars => OrderInv'
  BY StepOrder
<1> QED
  BY <1>1, <1>2, <1>3, PTL DEF InOrderSpec

(* With images in order the state's time never goes back: a zero velocity  *)
(* update, too, is asked for an interval that ends after the state.        *)
THEOREM TimeForward == InOrderSpec => TimeNeverBackwards
<1>1. TypeOK /\ OrderInv /\ [Next /\ msg' >= msg]_vars => [ts' >= ts]_ts
  <2> SUFFICES ASSUME TypeOK, OrderInv, [Next /\ msg' >= msg]_vars PROVE ts' >= ts
    OBVIOUS
  <2>1. phase = "zupt" => msg >= ts
    BY DEF OrderInv
  <2> QED
    BY <2>1, StepTime
<1> QED
  BY <1>1, OrderInvariant, PTL DEF InOrderSpec, TimeNeverBackwards

(* With images in order the updates find a clone at the state's time, no   *)
(* clone is newer than the state and no time is cloned twice, so that      *)
(* neither .at(_timestamp) throws nor augment_clone exits the process.     *)
THEOREM StateTimeHasClone == InOrderSpec => []CloneAtStateTime
<1>1. OrderInv => CloneAtStateTime
  BY DEF OrderInv, CloneAtStateTime
<1> QED
  BY <1>1, OrderInvariant, PTL

(* With images in order the assertion of retriangulate_active_tracks       *)
(* holds: the image it re-triangulates for has a clone.  It is the order   *)
(* of the images that run SlidingWindow_repeat gives up.                   *)
THEOREM RetriangulationFindsClone == InOrderSpec => []RetriangulationHasClone
<1>1. OrderInv => RetriangulationHasClone
  BY DEF OrderInv, RetriangulationHasClone
<1> QED
  BY <1>1, OrderInvariant, PTL

-----------------------------------------------------------------------------
(* Anchors *)

LEMMA StepAnchor ==
  TypeOK /\ WindowBound /\ OrderInv /\ AnchorInv /\ [Next]_vars => AnchorInv'
<1> SUFFICES ASSUME TypeOK, WindowBound, OrderInv, AnchorInv, [Next]_vars
             PROVE  AnchorInv'
  OBVIOUS
<1> USE DEF AnchorInv, AnchorsLive
<1>1. CASE /\ slam' \subseteq slam /\ clones \subseteq clones' /\ phase' # "marg"
           /\ \A f \in slam' : anchor'[f] = anchor[f]
  BY <1>1
<1>2. CASE TrackImage
  BY <1>1, <1>2 DEF TrackImage, Track, stateVars
<1>3. CASE ZuptSkip \/ ZuptRepeat \/ ZuptReject \/ ZuptAccept \/ OutOfOrder \/ DoubleClone
  BY <1>1, <1>3 DEF ZuptSkip, ZuptRepeat, ZuptReject, ZuptAccept, OutOfOrder, DoubleClone, stateVars
<1>4. CASE Propagate
  <2>1. clones \subseteq clones' /\ slam' = slam /\ anchor' = anchor
    BY <1>4 DEF Propagate
  <2>2. phase' # "marg"
    BY <1>4 DEF Propagate
  <2> QED
    BY <1>1, <2>1, <2>2
<1>5. CASE MsckfUpdate \/ SlamUpdate \/ Cleanup
  BY <1>1, <1>5 DEF MsckfUpdate, SlamUpdate, Cleanup, stateVars
<1>10. CASE Select
  <2>1. /\ slam' = slam \ Dropped /\ clones' = clones /\ phase' = "msckf"
        /\ anchor' = [f \in Features |-> IF f \in Dropped THEN 0 ELSE anchor[f]]
    BY <1>10 DEF Select
  <2>2. \A f \in slam' : anchor'[f] = anchor[f]
    BY <2>1 DEF TypeOK
  <2> QED
    BY <1>1, <2>1, <2>2
<1>6. CASE DelayedInit
  <2>0. PICK added \in SUBSET {f \in slamNew : Usable(f) # {}} :
          /\ slam' = slam \cup added
          /\ \E a \in [added -> clones] :
               anchor' = [f \in Features |-> IF f \in added THEN a[f] ELSE anchor[f]]
    BY <1>6 DEF DelayedInit
  <2>1. PICK a \in [added -> clones] :
          /\ slam' = slam \cup added
          /\ anchor' = [f \in Features |-> IF f \in added THEN a[f] ELSE anchor[f]]
    BY <2>0
  <2>2. clones' = clones /\ phase' = "cleanup"
    BY <1>6 DEF DelayedInit
  <2>3. slam' \subseteq Features
    BY <2>1 DEF TypeOK
  <2>4. ASSUME Anchored, NEW f \in slam' PROVE anchor'[f] \in clones'
    BY <2>1, <2>2, <2>3, <2>4
  <2> QED
    BY <2>2, <2>4
<1>7. CASE ChangeAnchors
  <2>1. /\ phase = "anchors" /\ UNCHANGED <<clones, slam>>
        /\ anchor' = [f \in Features |-> IF MovesAnchor(f) THEN ts ELSE anchor[f]]
    BY <1>7 DEF ChangeAnchors
  <2>2. ts \in clones
    BY <2>1 DEF OrderInv
  <2>3. MargTime' = MargTime /\ OverFull' = OverFull
    BY <2>1 DEF MargTime, OverFull
  <2>4. ASSUME Anchored, NEW f \in slam'
        PROVE  anchor'[f] \in clones' /\ (OverFull => anchor'[f] # MargTime)
    <3>1. f \in slam /\ f \in Features /\ anchor[f] \in clones
      BY <2>1, <2>4 DEF TypeOK
    <3>2. CASE MovesAnchor(f)
      <4>1. anchor'[f] = ts /\ OverFull
        BY <2>1, <3>1, <3>2 DEF MovesAnchor
      <4> QED
        BY <2>1, <2>2, <4>1, MargTimeNotNewest
    <3>3. CASE ~MovesAnchor(f)
      BY <2>1, <2>4, <3>1, <3>3 DEF MovesAnchor
    <3> QED
      BY <3>2, <3>3
  <2> QED
    BY <2>3, <2>4
<1>8. CASE MarginalizeOldClone
  <2>1. /\ phase = "marg" /\ phase' = "idle" /\ UNCHANGED <<slam, anchor>>
        /\ clones' = IF OverFull THEN clones \ {MargTime} ELSE clones
    BY <1>8 DEF MarginalizeOldClone
  <2> QED
    BY <2>1
<1>9. CASE UNCHANGED vars
  BY <1>9 DEF vars, stateVars, MargTime, OverFull
<1> QED
  BY <1>2, <1>3, <1>4, <1>5, <1>6, <1>7, <1>8, <1>9, <1>10 DEF Next

(* With images in order every landmark hangs on a clone that is still in   *)
(* the state, at every point of every image: change_anchors moves the ones *)
(* anchored at the oldest clone before marginalize_old_clone drops it.     *)
THEOREM AnchorsStayLive == InOrderSpec => []AnchorsLive
<1>1. Init => AnchorInv
  BY DEF Init, AnchorInv, AnchorsLive
<1>2. TypeOK /\ WindowBound /\ OrderInv /\ AnchorInv /\ [Next /\ msg' >= msg]_vars
        => AnchorInv'
  BY StepAnchor
<1>3. InOrderSpec => []AnchorInv
  BY <1>1, <1>2, OrderInvariant, PTL DEF InOrderSpec
<1>4. AnchorInv => AnchorsLive
  BY DEF AnchorInv
<1> QED
  BY <1>3, <1>4, PTL

-----------------------------------------------------------------------------
(* Every measurement counts once *)

LEMMA FeaturesOf == TypeOK => slam \subseteq Features /\ msckf \subseteq Features
                              /\ slamUp \subseteq Features /\ slamNew \subseteq Features
BY DEF TypeOK, Features

(* A landmark that is not a single depth is used and flagged, whatever it  *)
(* was measured by.                                                        *)
LEMMA SlamUpdateOfAll ==
  ASSUME TypeOK, ~SingleDepth, SlamUpdate
  PROVE  /\ phase = "slam" /\ phase' = "delayed" /\ UNCHANGED <<slam, clones, msg, listVars>>
         /\ Consume(slamUp) /\ del' = del \cup slamUp /\ db' = db
<1>1. PICK left \in SUBSET TooFew :
        /\ Consume(slamUp \ left) /\ del' = del \cup (slamUp \ left)
        /\ db' = [f \in Features |-> IF f \in left THEN Usable(f) ELSE db[f]]
  BY DEF SlamUpdate
<1>2. left = {} /\ slamUp \ left = slamUp
  BY DEF TooFew
<1>3. db' = db
  BY <1>1, <1>2 DEF TypeOK
<1>4. Consume(slamUp) /\ del' = del \cup slamUp
  BY <1>1, <1>2
<1> QED
  BY <1>3, <1>4 DEF SlamUpdate

(* Outside of the updates no flag is up and no list matters.               *)
LEMMA StepFlags ==
  ASSUME TypeOK, ~SingleDepth, FlagsInv, [Next]_vars
  PROVE  FlagsInv'
<1> USE DEF FlagsInv
<1>1. CASE TrackImage
  BY <1>1 DEF TrackImage, Track
<1>2. CASE ZuptSkip \/ ZuptRepeat \/ ZuptReject \/ ZuptAccept \/ OutOfOrder \/ DoubleClone
  BY <1>2 DEF ZuptSkip, ZuptRepeat, ZuptReject, ZuptAccept, OutOfOrder, DoubleClone
<1>3. CASE Propagate
  BY <1>3 DEF Propagate
<1>4. CASE Select
  BY <1>4 DEF Select
<1>5. CASE MsckfUpdate
  BY <1>5 DEF MsckfUpdate, listVars
<1>6. CASE SlamUpdate
  BY <1>6, SlamUpdateOfAll DEF listVars
<1>7. CASE DelayedInit
  BY <1>7 DEF DelayedInit, listVars
<1>8. CASE Cleanup \/ ChangeAnchors \/ MarginalizeOldClone
  BY <1>8 DEF Cleanup, ChangeAnchors, MarginalizeOldClone
<1>9. CASE UNCHANGED vars
  BY <1>9 DEF vars, listVars
<1> QED
  BY <1>1, <1>2, <1>3, <1>4, <1>5, <1>6, <1>7, <1>8, <1>9 DEF Next

LEMMA StepAbsorbed ==
  ASSUME TypeOK, WindowBound, OrderInv, AbsorbedInv, [Next]_vars
  PROVE  AbsorbedInv'
<1> USE DEF AbsorbedInv, ZuptGate
<1>0. ts \in Nat /\ msg \in Nat /\ clones \subseteq Nat
  BY TimesAssumption DEF TypeOK
<1>1. CASE TrackImage
  BY <1>1 DEF TrackImage, Track, stateVars, zuptVars
<1>2. CASE ZuptSkip
  <2>1. ~ZuptGate /\ moved' = moved
    BY <1>2 DEF ZuptSkip, zuptVars
  <2> QED
    BY <2>1
<1>3. CASE ZuptReject
  BY <1>3 DEF ZuptReject
<1>4. CASE ZuptAccept
  <2>1. /\ phase = "zupt" /\ phase' = "idle" /\ ts' = msg /\ ts # msg /\ clones' = clones
    BY <1>4 DEF ZuptAccept
  <2>2. msg >= ts /\ \A c \in clones : c <= ts
    BY <2>1 DEF OrderInv
  <2>3. ts' \notin clones'
    BY <1>0, <2>1, <2>2
  <2> QED
    BY <2>1, <2>3
<1>5. CASE OutOfOrder \/ DoubleClone
  BY <1>5 DEF OutOfOrder, DoubleClone, stateVars, zuptVars
<1>6. CASE Propagate
  <2>1. phase = "propagate" /\ didZupt' = didZupt /\ (moved => moved')
    BY <1>6, Zenon DEF Propagate
  <2> QED
    BY <2>1
<1>7. CASE Select \/ MsckfUpdate \/ SlamUpdate \/ DelayedInit
  BY <1>7 DEF Select, MsckfUpdate, SlamUpdate, DelayedInit, zuptVars
<1>8. CASE Cleanup \/ ChangeAnchors \/ MarginalizeOldClone
  BY <1>8 DEF Cleanup, ChangeAnchors, MarginalizeOldClone, zuptVars
<1>9. CASE UNCHANGED vars
  BY <1>9 DEF vars, stateVars, zuptVars
<1>10. CASE ZuptRepeat
  <2>1. /\ phase = "zupt" /\ UNCHANGED <<ts, clones, didZupt, moved>>
        /\ phase' = IF didZupt THEN "idle" ELSE "propagate"
    BY <1>10 DEF ZuptRepeat, stateVars, zuptVars
  <2>2. CASE didZupt
    BY <2>1, <2>2
  <2>3. CASE ~didZupt
    BY <2>1, <2>3
  <2> QED
    BY <2>2, <2>3
<1> QED
  BY <1>1, <1>2, <1>3, <1>4, <1>5, <1>6, <1>7, <1>8, <1>9, <1>10 DEF Next

LEMMA StepEnough ==
  ASSUME TypeOK, WindowBound, OrderInv, EnoughInv, [Next /\ msg' >= msg]_vars
  PROVE  EnoughInv'
<1> DEFINE early == {"idle", "zupt", "propagate"}
<1>0. /\ Cardinality(clones) \in Nat /\ MaxClones \in Nat /\ EnoughClones \in Nat
      /\ Fewest(MaxClones, EnoughClones) \in Nat
      /\ Fewest(MaxClones, EnoughClones) <= MaxClones
  BY OptionsAssumption, FS_CardinalityType, FewestType DEF WindowBound
<1>1. CASE clones' = clones /\ (slam' # {} \/ phase' \notin early => slam # {} \/ phase \notin early)
  BY <1>1 DEF EnoughInv
<1>2. CASE TrackImage \/ ZuptSkip \/ ZuptRepeat \/ ZuptReject \/ ZuptAccept \/ OutOfOrder
  BY <1>1, <1>2 DEF TrackImage, Track, ZuptSkip, ZuptRepeat, ZuptReject, ZuptAccept,
                    OutOfOrder, stateVars
<1>7. CASE DoubleClone
  <2>1. ts < msg /\ msg \in clones
    BY <1>7 DEF DoubleClone
  <2> QED
    BY <2>1, TimesAssumption DEF OrderInv, TypeOK
<1>3. CASE Propagate
  <2>1. /\ slam' = slam
        /\ clones' = clones \/ clones' = clones \cup {msg}
        /\ phase' = IF Cardinality(clones') >= Fewest(MaxClones, EnoughClones)
                      THEN "select" ELSE "idle"
    BY <1>3 DEF Propagate
  <2>2. Cardinality(clones') \in Nat /\ Cardinality(clones') >= Cardinality(clones)
    <3>1. Cardinality(clones \cup {msg}) \in {Cardinality(clones), Cardinality(clones) + 1}
      BY FS_AddElement DEF WindowBound
    <3> QED
      BY <1>0, <2>1, <3>1
  <2>3. CASE Cardinality(clones') >= Fewest(MaxClones, EnoughClones)
    BY <2>3 DEF EnoughInv
  <2>4. CASE ~(Cardinality(clones') >= Fewest(MaxClones, EnoughClones))
    <3>1. slam = {}
      BY <1>0, <2>2, <2>4 DEF EnoughInv
    <3> QED
      BY <2>1, <2>4, <3>1 DEF EnoughInv
  <2> QED
    BY <2>3, <2>4
<1>4. CASE Select \/ MsckfUpdate \/ SlamUpdate \/ DelayedInit \/ Cleanup \/ ChangeAnchors
  <2>1. clones' = clones /\ phase \notin early
    BY <1>4 DEF Select, MsckfUpdate, SlamUpdate, DelayedInit, Cleanup, ChangeAnchors, stateVars
  <2> QED
    BY <1>1, <2>1
<1>5. CASE MarginalizeOldClone
  <2>1. /\ phase = "marg" /\ slam' = slam
        /\ clones' = IF OverFull THEN clones \ {MargTime} ELSE clones
    BY <1>5 DEF MarginalizeOldClone
  <2>2. CASE OverFull
    <3>1. clones # {}
      BY <1>0, <2>2, FS_EmptySet DEF OverFull
    <3>2. MargTime \in clones
      BY <3>1, MargTimeIsOldest DEF TypeOK
    <3>3. Cardinality(clones') = Cardinality(clones) - 1
      BY <2>1, <2>2, <3>2, FS_RemoveElement DEF WindowBound
    <3>4. Cardinality(clones') >= Fewest(MaxClones, EnoughClones)
      BY <1>0, <2>2, <3>3 DEF OverFull
    <3> QED
      BY <3>4 DEF EnoughInv
  <2>3. CASE ~OverFull
    BY <1>1, <2>1, <2>3
  <2> QED
    BY <2>2, <2>3
<1>6. CASE UNCHANGED vars
  BY <1>1, <1>6 DEF vars, stateVars
<1> QED
  BY <1>2, <1>3, <1>4, <1>5, <1>6, <1>7 DEF Next

(* What a step does to the measurements of one feature.                    *)
LEMMA Measurements ==
  ASSUME TypeOK, [Next /\ msg' >= msg]_vars, NEW f \in Features
  PROVE  /\ msg' >= msg
         /\ db'[f] \subseteq IF phase = "idle" THEN db[f] \cup {msg'} ELSE db[f]
<1>0. msg \in Nat /\ db[f] \subseteq Times
  BY TimesAssumption DEF TypeOK
<1>1. CASE TrackImage /\ msg' >= msg
  <2>1. PICK m \in Times, seen \in SUBSET Features : Track(m, seen)
    BY <1>1 DEF TrackImage
  <2>2. phase = "idle" /\ db'[f] \subseteq db[f] \cup {msg'}
    BY <2>1 DEF Track
  <2> QED
    BY <1>1, <2>2
<1>2. CASE msg' = msg /\ db'[f] \subseteq db[f]
  BY <1>0, <1>2
<1>3. CASE ZuptSkip \/ ZuptRepeat \/ ZuptReject \/ OutOfOrder \/ Propagate \/ DoubleClone
  BY <1>2, <1>3 DEF ZuptSkip, ZuptRepeat, ZuptReject, OutOfOrder, Propagate, DoubleClone
<1>4. CASE ZuptAccept
  BY <1>2, <1>4 DEF ZuptAccept
<1>5. CASE Select \/ MsckfUpdate \/ DelayedInit \/ ChangeAnchors
  BY <1>2, <1>5 DEF Select, MsckfUpdate, DelayedInit, ChangeAnchors
<1>9. CASE SlamUpdate
  <2>1. msg' = msg /\ db'[f] \subseteq db[f]
    BY <1>9 DEF SlamUpdate, Usable
  <2> QED
    BY <1>2, <2>1
<1>6. CASE Cleanup
  BY <1>2, <1>6 DEF Cleanup
<1>7. CASE MarginalizeOldClone
  <2>1. db'[f] \subseteq db[f]
    BY <1>7 DEF MarginalizeOldClone
  <2> QED
    BY <1>2, <1>7, <2>1 DEF MarginalizeOldClone
<1>8. CASE UNCHANGED vars
  BY <1>2, <1>8 DEF vars
<1> QED
  BY <1>1, <1>3, <1>4, <1>5, <1>6, <1>7, <1>8, <1>9 DEF Next

(* What becomes used is still stored with a flagged feature: an update     *)
(* flags all it was given.                                                 *)
LEMMA StepStored ==
  ASSUME TypeOK, ~SingleDepth, FlagsInv, StoredInv, [Next /\ msg' >= msg]_vars
  PROVE  StoredInv'
<1> SUFFICES ASSUME NEW f \in Features, NEW t \in db'[f]
             PROVE  t <= msg' /\ (<<f, t>> \in used' => f \in del')
  BY DEF StoredInv
<1>0. msg \in Nat /\ msg' \in Nat /\ db[f] \subseteq Nat /\ t \in Nat
  BY TimesAssumption, StepTypeOK DEF TypeOK
<1>1. t <= msg'
  <2>1. t \in db[f] \/ t = msg'
    BY Measurements
  <2>2. t \in db[f] => t <= msg
    BY DEF StoredInv
  <2> QED
    BY <1>0, <2>1, <2>2, Measurements
<1>2. ASSUME <<f, t>> \in used' PROVE f \in del'
  <2> USE <1>2
  <2>0. t \in db[f] /\ <<f, t>> \in used => f \in del
    BY DEF StoredInv
  <2>1. CASE db' = db /\ used' = used /\ del' = del
    BY <2>0, <2>1
  <2>2. CASE TrackImage
    <3>1. PICK m \in Times, seen \in SUBSET Features : Track(m, seen)
      BY <2>2 DEF TrackImage
    <3>2. <<f, t>> \in used /\ ~(f \in seen /\ t = m)
      BY <3>1 DEF Track
    <3>3. t \in db[f]
      BY <3>1, <3>2 DEF Track
    <3> QED
      BY <2>0, <3>1, <3>2, <3>3 DEF Track
  <2>3. CASE ZuptSkip \/ ZuptRepeat \/ ZuptReject \/ OutOfOrder \/ Propagate \/ DoubleClone
    BY <2>1, <2>3 DEF ZuptSkip, ZuptRepeat, ZuptReject, OutOfOrder, Propagate, DoubleClone, histVars
  <2>4. CASE ZuptAccept
    <3>1. t \in db[f] /\ used' = used /\ del' = del
      BY <2>4 DEF ZuptAccept, histVars
    <3> QED
      BY <2>0, <3>1
  <2>5. CASE Select \/ ChangeAnchors
    BY <2>1, <2>5 DEF Select, ChangeAnchors, histVars
  <2>6. ASSUME NEW F, db' = db, Consume(F), del \cup F \subseteq del'
        PROVE  f \in del'
    <3>1. <<f, t>> \in used \/ f \in F
      BY <2>6 DEF Consume
    <3> QED
      BY <2>0, <2>6, <3>1
  <2>7. CASE MsckfUpdate
    BY <2>6, <2>7 DEF MsckfUpdate
  <2>8. CASE SlamUpdate
    BY <2>6, <2>8, SlamUpdateOfAll
  <2>9. CASE DelayedInit
    <3>1. PICK added \in SUBSET {g \in slamNew : Usable(g) # {}} : Consume(added)
      BY <2>9 DEF DelayedInit
    <3>2. del \cup added \subseteq del' /\ db' = db
      BY <2>9 DEF DelayedInit
    <3> QED
      BY <2>6, <3>1, <3>2
  <2>10. CASE Cleanup
    <3>1. f \notin del /\ t \in db[f] /\ used' = used
      BY <2>10 DEF Cleanup, histVars
    <3> QED
      BY <2>0, <3>1
  <2>11. CASE MarginalizeOldClone
    <3>1. t \in db[f] /\ used' = used /\ del' = del
      BY <2>11 DEF MarginalizeOldClone, histVars
    <3> QED
      BY <2>0, <3>1
  <2>12. CASE UNCHANGED vars
    BY <2>1, <2>12 DEF vars, histVars
  <2> QED
    BY <2>2, <2>3, <2>4, <2>5, <2>7, <2>8, <2>9, <2>10, <2>11, <2>12 DEF Next
<1> QED
  BY <1>1, <1>2

(* When the features are chosen, what is measured at the oldest clone is   *)
(* no landmark: landmarks are measured at the newest one only.             *)
LEMMA OldestIsNoLandmark ==
  ASSUME TypeOK, WindowBound, OrderInv, LandmarksInv, phase = "select",
         WindowReady, NEW f \in slam
  PROVE  MargTime \notin db[f]
<1>1. SUFFICES ASSUME MargTime \in db[f] PROVE FALSE
  OBVIOUS
<1>2. ts \in clones /\ msg = ts /\ Usable(f) \subseteq {msg}
  BY DEF OrderInv, LandmarksInv
<1>3. MargTime \in clones
  BY <1>2, MargTimeIsOldest DEF TypeOK
<1>4. MargTime = ts
  BY <1>1, <1>2, <1>3 DEF Usable
<1>5. ~OverFull
  BY <1>2, <1>4, MargTimeNotNewest
<1>6. Cardinality(clones) > EnoughClones
  BY <1>5 DEF WindowReady
<1>7. clones = {ts}
  <2>1. clones \subseteq Nat
    BY TimesAssumption DEF TypeOK
  <2>2. \A c \in clones : ts <= c /\ c <= ts
    BY <1>2, <1>4, MargTimeIsOldest DEF TypeOK, OrderInv
  <2>3. \A c \in clones : c = ts
    BY <1>2, <2>1, <2>2
  <2> QED
    BY <1>2, <2>3
<1>8. Cardinality(clones) = 1
  BY <1>7, FS_Singleton
<1> QED
  BY <1>6, <1>8, OptionsAssumption

(* A landmark that starts the updates is neither lost nor seen at the      *)
(* oldest clone.                                                           *)
LEMMA StepLists ==
  ASSUME TypeOK, ~SingleDepth, WindowBound, OrderInv, ListsInv, LandmarksInv, [Next]_vars
  PROVE  ListsInv'
<1>1. CASE phase' \notin {"msckf", "slam", "delayed"}
  BY <1>1 DEF ListsInv
<1>2. CASE /\ phase \in {"msckf", "slam", "delayed"}
           /\ UNCHANGED <<msckf, slamUp, slamNew, db, clones>>
  BY <1>2 DEF ListsInv, Usable
<1>3. CASE Select
  <2>1. PICK chosen \in SUBSET MaxTracks :
          /\ slam' = slam \ Dropped
          /\ LET feats_slam == ArucoMarg \cup chosen \cup {f \in slam : db[f] # {}}
             IN slamUp' = feats_slam \cap slam' /\ slamNew' = feats_slam \ slam'
          /\ msckf' \in MsckfLists(chosen)
    BY <1>3 DEF Select
  <2>2. /\ phase = "select" /\ phase' = "msckf" /\ UNCHANGED <<db, clones, ts, msg>>
    BY <1>3 DEF Select
  <2>3. ts \in clones /\ msg = ts
    BY <2>2 DEF OrderInv
  <2>4. slamUp' \cap slamNew' = {}
    BY <2>1
  <2>5. ASSUME NEW f \in msckf' \cap (slamUp' \cup slamNew')
        PROVE  Usable(f) = {}
    <3>1. f \in (Lost \cup Marg) \ chosen
      BY <2>1 DEF MsckfLists
    <3>2. f \in Tracks /\ f \notin ArucoMarg
      BY <3>1, FeaturesAssumption DEF Lost, Marg, ArucoMarg
    <3>3. f \in slam
      BY <2>1, <3>1, <3>2
    <3>4. Usable(f) \subseteq {ts}
      BY <2>2, <2>3, <3>3 DEF LandmarksInv
    <3>5. CASE f \in Lost
      <4>1. \A t \in db[f] : t < ts
        BY <3>5 DEF Lost
      <4>2. ts \in Nat
        BY TimesAssumption DEF TypeOK
      <4> QED
        BY <3>4, <4>1, <4>2 DEF Usable
    <3>6. CASE f \in Marg
      BY <2>2, <3>3, <3>6, OldestIsNoLandmark DEF Marg
    <3> QED
      BY <3>1, <3>5, <3>6
  <2> QED
    BY <2>2, <2>4, <2>5 DEF ListsInv, Usable
<1>8. CASE MsckfUpdate
  BY <1>2, <1>8 DEF MsckfUpdate, stateVars, listVars
<1>4. CASE SlamUpdate
  BY <1>2, <1>4, SlamUpdateOfAll DEF listVars
<1>5. CASE TrackImage \/ ZuptSkip \/ ZuptRepeat \/ ZuptReject \/ ZuptAccept \/ OutOfOrder \/ DoubleClone
  BY <1>1, <1>5 DEF TrackImage, Track, ZuptSkip, ZuptRepeat, ZuptReject, ZuptAccept, OutOfOrder,
                    DoubleClone
<1>6. CASE Propagate \/ DelayedInit \/ Cleanup \/ ChangeAnchors \/ MarginalizeOldClone
  BY <1>1, <1>6 DEF Propagate, DelayedInit, Cleanup, ChangeAnchors, MarginalizeOldClone
<1>7. CASE UNCHANGED vars
  BY <1>1, <1>2, <1>7 DEF vars, stateVars, listVars
<1> QED
  BY <1>3, <1>4, <1>5, <1>6, <1>7, <1>8 DEF Next

(* The clean-up takes what the updates were given; what a zero velocity    *)
(* update leaves is at a time without a clone.                             *)
LEMMA StepLandmarks ==
  ASSUME TypeOK, ~SingleDepth, OrderInv, FlagsInv, LandmarksInv, AbsorbedInv, EnoughInv',
         [Next /\ msg' >= msg]_vars
  PROVE  LandmarksInv'
<1> DEFINE early == {"zupt", "propagate", "select"}
           updating == {"msckf", "slam", "delayed", "cleanup"}
<1>0. ts \in Nat /\ msg \in Nat /\ clones \subseteq Nat /\ slam \subseteq Features
  BY TimesAssumption, FeaturesOf DEF TypeOK
<1>1. CASE UNCHANGED <<slam, db, clones, msg>> /\ phase \in early /\ phase' \in early
  BY <1>1 DEF LandmarksInv, Usable
<1>2. CASE TrackImage
  <2>1. phase = "idle" /\ phase' = "zupt" /\ UNCHANGED <<slam, clones>>
    BY <1>2 DEF TrackImage, Track, stateVars
  <2>2. ASSUME NEW f \in slam' PROVE Usable(f)' \subseteq {msg'}
    <3>1. f \in Features /\ Usable(f) = {}
      BY <1>0, <2>1, <2>2 DEF LandmarksInv
    <3>2. db'[f] \subseteq db[f] \cup {msg'}
      BY <2>1, <3>1, Measurements
    <3> QED
      BY <2>1, <3>1, <3>2 DEF Usable
  <2> QED
    BY <2>1, <2>2 DEF LandmarksInv
<1>3. CASE ZuptSkip \/ ZuptReject
  BY <1>1, <1>3 DEF ZuptSkip, ZuptReject, stateVars
<1>4. CASE ZuptRepeat
  <2>1. /\ phase = "zupt" /\ UNCHANGED <<slam, db, clones, msg>>
        /\ ts = msg /\ ZuptGate /\ phase' = IF didZupt THEN "idle" ELSE "propagate"
    BY <1>4 DEF ZuptRepeat, stateVars
  <2>2. CASE didZupt
    <3>1. msg \notin clones
      BY <2>1, <2>2 DEF AbsorbedInv
    <3>2. \A f \in slam : Usable(f) = {}
      BY <2>1, <3>1 DEF LandmarksInv, Usable
    <3> QED
      BY <2>1, <2>2, <3>2 DEF LandmarksInv, Usable
  <2>3. CASE ~didZupt
    BY <1>1, <2>1, <2>3
  <2> QED
    BY <2>2, <2>3
<1>5. CASE ZuptAccept
  <2>1. /\ phase = "zupt" /\ phase' = "idle" /\ UNCHANGED <<slam, clones>> /\ msg # ts
        /\ \A f \in Features : db'[f] \subseteq db[f]
    BY <1>5 DEF ZuptAccept
  <2>2. msg \notin clones
    BY <1>0, <2>1 DEF OrderInv
  <2>3. \A f \in slam : Usable(f) = {}
    BY <2>1, <2>2 DEF LandmarksInv, Usable
  <2>4. ASSUME NEW f \in slam' PROVE Usable(f)' = {}
    BY <1>0, <2>1, <2>3, <2>4 DEF Usable
  <2> QED
    BY <2>1, <2>4 DEF LandmarksInv
<1>6. CASE OutOfOrder \/ DoubleClone
  BY <1>0, <1>6 DEF OutOfOrder, DoubleClone, OrderInv
<1>7. CASE Propagate
  <2>1. /\ phase = "propagate" /\ UNCHANGED <<slam, db, msg>> /\ clones' \subseteq clones \cup {msg}
        /\ phase' = IF Cardinality(clones') >= Fewest(MaxClones, EnoughClones)
                      THEN "select" ELSE "idle"
    BY <1>7 DEF Propagate
  <2>2. \A f \in slam' : Usable(f)' \subseteq {msg'}
    BY <2>1 DEF LandmarksInv, Usable
  <2>3. phase' = "idle" => slam' = {}
    BY <2>1 DEF EnoughInv
  <2> QED
    BY <2>1, <2>2, <2>3 DEF LandmarksInv
<1>8. CASE Select
  <2>1. phase' = "msckf" /\ db' = db
    BY <1>8 DEF Select
  <2>2. ASSUME NEW f \in slam', db[f] # {} PROVE f \in slamUp'
    BY <1>8, <2>2 DEF Select
  <2> QED
    BY <2>1, <2>2 DEF LandmarksInv
<1>9. CASE MsckfUpdate \/ SlamUpdate
  <2>1. phase \in updating /\ phase' \in updating /\ UNCHANGED <<slam, db, slamUp, slamNew>>
    BY <1>9, SlamUpdateOfAll DEF MsckfUpdate, stateVars, listVars
  <2> QED
    BY <2>1 DEF LandmarksInv
<1>10. CASE DelayedInit
  <2>1. phase = "delayed" /\ phase' = "cleanup" /\ UNCHANGED <<db, slamUp, slamNew>>
    BY <1>10 DEF DelayedInit, listVars
  <2>2. slam' \subseteq slam \cup slamNew
    BY <1>10 DEF DelayedInit
  <2> QED
    BY <2>1, <2>2 DEF LandmarksInv
<1>11. CASE Cleanup
  <2>1. /\ phase = "cleanup" /\ phase' = "anchors" /\ slam' = slam
        /\ db' = [f \in Features |-> IF f \in del THEN {} ELSE db[f]]
    BY <1>11 DEF Cleanup, stateVars
  <2>2. ASSUME NEW f \in slam' PROVE Usable(f)' = {}
    <3>1. db[f] = {} \/ f \in del
      BY <2>1, <2>2 DEF LandmarksInv, FlagsInv
    <3> QED
      BY <1>0, <2>1, <2>2, <3>1 DEF Usable
  <2> QED
    BY <2>1, <2>2 DEF LandmarksInv
<1>12. CASE ChangeAnchors
  <2>1. phase = "anchors" /\ phase' = "marg" /\ UNCHANGED <<slam, db, clones>>
    BY <1>12 DEF ChangeAnchors
  <2> QED
    BY <2>1 DEF LandmarksInv, Usable
<1>13. CASE MarginalizeOldClone
  <2>1. phase = "marg" /\ phase' = "idle" /\ slam' = slam /\ clones' \subseteq clones
    BY <1>13 DEF MarginalizeOldClone
  <2>2. ASSUME NEW f \in slam' PROVE Usable(f)' = {}
    <3>1. f \in Features /\ Usable(f) = {}
      BY <1>0, <2>1, <2>2 DEF LandmarksInv
    <3>2. db'[f] \subseteq db[f]
      BY <2>1, <3>1, Measurements
    <3> QED
      BY <2>1, <3>1, <3>2 DEF Usable
  <2> QED
    BY <2>1, <2>2 DEF LandmarksInv
<1>14. CASE UNCHANGED vars
  BY <1>14 DEF vars, stateVars, listVars, LandmarksInv, Usable
<1> QED
  BY <1>2, <1>3, <1>4, <1>5, <1>6, <1>7, <1>8, <1>9, <1>10, <1>11, <1>12, <1>13, <1>14 DEF Next

(* A feature given to two updates has nothing left for the second.         *)
LEMMA StepOnce ==
  ASSUME TypeOK, ~SingleDepth, WindowBound, OrderInv, LandmarksInv,
         FlagsInv, StoredInv, ListsInv, NoMeasurementReused, [Next]_vars
  PROVE  NoMeasurementReused'
<1> USE DEF NoMeasurementReused
<1>1. CASE UNCHANGED histVars
  BY <1>1 DEF histVars
<1>2. ASSUME NEW F, F \subseteq Features, Consume(F),
             \A f \in F \cap del : Usable(f) = {}
      PROVE  ~reused'
  <2>1. ASSUME NEW f \in F, NEW t \in Usable(f) PROVE <<f, t>> \notin used
    BY <1>2, <2>1 DEF StoredInv, Usable
  <2>2. used \cap UNION {{<<f, t>> : t \in Usable(f)} : f \in F} = {}
    BY <2>1
  <2> QED
    BY <1>2, <2>2, Zenon DEF Consume
<1>3. CASE MsckfUpdate
  <2>1. phase = "msckf" /\ Consume(msckf)
    BY <1>3 DEF MsckfUpdate
  <2>2. del = {}
    BY <2>1 DEF FlagsInv
  <2> QED
    BY <1>2, <2>1, <2>2, FeaturesOf
<1>4. CASE SlamUpdate
  <2>1. phase = "slam" /\ Consume(slamUp)
    BY <1>4, SlamUpdateOfAll
  <2>2. del = msckf
    BY <2>1 DEF FlagsInv
  <2>3. \A f \in slamUp \cap del : Usable(f) = {}
    BY <2>1, <2>2 DEF ListsInv
  <2> QED
    BY <1>2, <2>1, <2>3, FeaturesOf
<1>5. CASE DelayedInit
  <2>1. PICK added \in SUBSET {f \in slamNew : Usable(f) # {}} : Consume(added)
    BY <1>5 DEF DelayedInit
  <2>2. phase = "delayed"
    BY <1>5 DEF DelayedInit
  <2>3. del = msckf \cup slamUp
    BY <2>2 DEF FlagsInv
  <2>4. \A f \in added \cap del : Usable(f) = {}
    BY <2>2, <2>3 DEF ListsInv
  <2>5. added \subseteq Features
    BY FeaturesOf
  <2> QED
    BY <1>2, <2>1, <2>4, <2>5
<1>6. CASE TrackImage
  BY <1>6 DEF TrackImage, Track
<1>7. CASE ZuptSkip \/ ZuptRepeat \/ ZuptReject \/ ZuptAccept \/ OutOfOrder \/ Propagate \/ DoubleClone
  BY <1>1, <1>7 DEF ZuptSkip, ZuptRepeat, ZuptReject, ZuptAccept, OutOfOrder, Propagate, DoubleClone
<1>8. CASE Cleanup \/ ChangeAnchors \/ MarginalizeOldClone
  BY <1>1, <1>8 DEF Cleanup, ChangeAnchors, MarginalizeOldClone
<1>10. CASE Select
  <2>1. PICK chosen \in SUBSET MaxTracks :
          reused' = (reused \/ (ArucoMarg \cup chosen) \cap slam # {})
    BY <1>10 DEF Select
  <2>2. phase = "select"
    BY <1>10 DEF Select
  <2>3. \A f \in ArucoMarg \cup chosen : WindowReady /\ MargTime \in db[f]
    BY DEF ArucoMarg, MaxTracks, Marg
  <2>4. (ArucoMarg \cup chosen) \cap slam = {}
    BY <2>2, <2>3, OldestIsNoLandmark
  <2> QED
    BY <2>1, <2>4, Zenon
<1>9. CASE UNCHANGED vars
  BY <1>1, <1>9 DEF vars
<1> QED
  BY <1>3, <1>4, <1>5, <1>6, <1>7, <1>8, <1>9, <1>10 DEF Next

LEMMA InitOnce == Init => OnceInv /\ NoMeasurementReused
<1> SUFFICES ASSUME Init PROVE OnceInv /\ NoMeasurementReused
  OBVIOUS
<1>1. FlagsInv /\ ListsInv
  BY DEF Init, FlagsInv, ListsInv
<1>2. LandmarksInv /\ EnoughInv
  BY DEF Init, LandmarksInv, EnoughInv
<1>4. StoredInv
  <2>1. used = {} /\ db \in [Features -> SUBSET {t \in Times : startup < t /\ t <= msg}]
    BY DEF Init
  <2> QED
    BY <2>1 DEF StoredInv
<1>3. AbsorbedInv /\ NoMeasurementReused
  BY DEF Init, AbsorbedInv, NoMeasurementReused
<1> QED
  BY <1>1, <1>2, <1>3, <1>4 DEF OnceInv

(* With images in order no measurement enters the filter twice: the lists  *)
(* do_feature_propagate_update hands to the MSCKF update, the landmark     *)
(* update and the delayed initialisation may share a feature, but then it  *)
(* has no measurement at a clone left to share.  The single depth, which   *)
(* may leave a measurement over, is excepted.                              *)
THEOREM MeasurementsCountOnce == InOrderSpec => []NoMeasurementReused
<1> DEFINE Inv == SingleDepth \/ (OnceInv /\ NoMeasurementReused)
<1>1. Init => Inv
  BY InitOnce
<1>2. TypeOK /\ WindowBound /\ OrderInv /\ Inv /\ [Next /\ msg' >= msg]_vars => Inv'
  <2> SUFFICES ASSUME TypeOK, WindowBound, OrderInv, [Next /\ msg' >= msg]_vars,
                      ~SingleDepth, OnceInv, NoMeasurementReused
               PROVE  OnceInv' /\ NoMeasurementReused'
    OBVIOUS
  <2>1. FlagsInv' /\ AbsorbedInv' /\ EnoughInv'
    BY StepFlags, StepAbsorbed, StepEnough DEF OnceInv
  <2>2. StoredInv' /\ ListsInv'
    BY StepStored, StepLists DEF OnceInv
  <2>3. LandmarksInv' /\ NoMeasurementReused'
    BY <2>1, StepLandmarks, StepOnce DEF OnceInv
  <2> QED
    BY <2>1, <2>2, <2>3 DEF OnceInv
<1>3. Inv => NoMeasurementReused
  BY DEF NoMeasurementReused
<1> HIDE DEF Inv
<1> QED
  BY <1>1, <1>2, <1>3, OrderInvariant, PTL DEF InOrderSpec

-----------------------------------------------------------------------------
(* The budget of landmarks *)

(* Landmarks are tracks or aruco corners.                                  *)
LEMMA LandmarksAddUp ==
  ASSUME TypeOK
  PROVE  /\ IsFiniteSet(slam) /\ IsFiniteSet(slam \cap Tracks)
         /\ Cardinality(slam) \in Nat /\ CurrAruco \in Nat
         /\ Cardinality(slam \cap Tracks) \in Nat
         /\ Cardinality(slam) = Cardinality(slam \cap Tracks) + CurrAruco
<1>1. /\ IsFiniteSet(slam \cap Tracks) /\ IsFiniteSet(slam \cap Arucos)
      /\ slam = (slam \cap Tracks) \cup (slam \cap Arucos)
      /\ (slam \cap Tracks) \cap (slam \cap Arucos) = {}
  BY FeaturesAssumption, FS_Subset DEF TypeOK, Features
<1>2. /\ IsFiniteSet(slam) /\ Cardinality({}) = 0
      /\ Cardinality(slam) = Cardinality(slam \cap Tracks) + Cardinality(slam \cap Arucos)
                               - Cardinality((slam \cap Tracks) \cap (slam \cap Arucos))
  BY <1>1, FS_Union, FS_EmptySet
<1>3. /\ Cardinality(slam) \in Nat /\ Cardinality(slam \cap Tracks) \in Nat
      /\ Cardinality(slam \cap Arucos) \in Nat
  BY <1>1, <1>2, FS_CardinalityType
<1> QED
  BY <1>1, <1>2, <1>3 DEF CurrAruco

(* The choice leaves as many places as marginalize_slam does not free: the *)
(* dropped landmarks, which may come back as new ones, still count.        *)
LEMMA SelectInBudget ==
  ASSUME TypeOK, SlamBudget,
         NEW chosen, chosen \subseteq Tracks, Cardinality(chosen) <= Room
  PROVE  Cardinality((slam \cap Tracks) \cup chosen) <= MaxSlam
<1> DEFINE n == Cardinality(slam \cap Tracks)
<1>1. IsFiniteSet(chosen)
  BY FeaturesAssumption, FS_Subset
<1>2. n \in Nat /\ Cardinality(chosen) \in Nat /\ MaxSlam \in Nat
  BY <1>1, LandmarksAddUp, FS_CardinalityType, OptionsAssumption
<1>3. Cardinality(chosen) <= MaxSlam - n
  BY <1>2, LandmarksAddUp DEF Room, SlamBudget
<1>4. /\ Cardinality((slam \cap Tracks) \cup chosen)
           = n + Cardinality(chosen) - Cardinality((slam \cap Tracks) \cap chosen)
      /\ Cardinality((slam \cap Tracks) \cap chosen) \in Nat
  <2>1. IsFiniteSet((slam \cap Tracks) \cap chosen)
    BY <1>1, FS_Subset
  <2> QED
    BY <1>1, <2>1, LandmarksAddUp, FS_Union, FS_CardinalityType
<1> QED
  BY <1>2, <1>3, <1>4

LEMMA StepBudget == TypeOK /\ BudgetInv /\ [Next]_vars => BudgetInv'
<1> SUFFICES ASSUME TypeOK, BudgetInv, [Next]_vars PROVE BudgetInv'
  OBVIOUS
<1> DEFINE updating == {"msckf", "slam", "delayed"}
           held == IF phase \in updating THEN slam \cup slamNew ELSE slam
<1>1. IsFiniteSet(held \cap Tracks) /\ Cardinality(held \cap Tracks) \in Nat
  BY FeaturesAssumption, FS_Subset, FS_CardinalityType
<1>2. ASSUME NEW S, S \cap Tracks \subseteq held \cap Tracks
      PROVE  Cardinality(S \cap Tracks) <= MaxSlam
  <2>1. IsFiniteSet(S \cap Tracks) /\ Cardinality(S \cap Tracks) \in Nat
    BY FeaturesAssumption, FS_Subset, FS_CardinalityType
  <2>2. Cardinality(S \cap Tracks) <= Cardinality(held \cap Tracks)
    BY <1>1, <1>2, FS_Subset
  <2> QED
    BY <1>1, <2>1, <2>2, OptionsAssumption DEF BudgetInv
<1>3. CASE slam' = slam /\ phase' \notin updating
  BY <1>2, <1>3 DEF BudgetInv
<1>4. CASE phase \in updating /\ phase' \in updating /\ slam' = slam /\ slamNew' = slamNew
  BY <1>4 DEF BudgetInv
<1>5. CASE TrackImage \/ ZuptSkip \/ ZuptRepeat \/ ZuptReject \/ ZuptAccept \/ OutOfOrder
           \/ DoubleClone
  BY <1>3, <1>5 DEF TrackImage, Track, ZuptSkip, ZuptRepeat, ZuptReject, ZuptAccept,
                    OutOfOrder, DoubleClone, stateVars
<1>6. CASE Propagate
  <2>1. slam' = slam /\ phase' \notin updating
    BY <1>6 DEF Propagate
  <2> QED
    BY <1>3, <2>1
<1>7. CASE Select
  <2>1. PICK chosen \in SUBSET MaxTracks :
          /\ Cardinality(chosen) <= Room
          /\ LET feats_slam == ArucoMarg \cup chosen \cup {f \in slam : db[f] # {}}
             IN /\ slam' = slam \ Dropped
                /\ slamUp' = feats_slam \cap slam'
                /\ slamNew' = feats_slam \ slam'
    BY <1>7 DEF Select
  <2>2. phase = "select" /\ phase' = "msckf"
    BY <1>7 DEF Select
  <2>3. chosen \subseteq Tracks /\ ArucoMarg \cap Tracks = {}
    BY FeaturesAssumption DEF MaxTracks, Marg, ArucoMarg
  <2>4. SlamBudget
    BY <2>2 DEF BudgetInv, SlamBudget
  <2>5. (slam' \cup slamNew') \cap Tracks \subseteq (slam \cap Tracks) \cup chosen
    BY <2>1, <2>3
  <2>6. /\ IsFiniteSet((slam \cap Tracks) \cup chosen)
        /\ Cardinality((slam \cap Tracks) \cup chosen) \in Nat
        /\ Cardinality((slam \cap Tracks) \cup chosen) <= MaxSlam
    BY <2>1, <2>3, <2>4, SelectInBudget, FeaturesAssumption, FS_Subset, FS_CardinalityType
  <2>7. Cardinality((slam' \cup slamNew') \cap Tracks) \in Nat
    BY FeaturesAssumption, FS_Subset, FS_CardinalityType
  <2>8. Cardinality((slam' \cup slamNew') \cap Tracks)
          <= Cardinality((slam \cap Tracks) \cup chosen)
    BY <2>5, <2>6, FS_Subset
  <2>9. Cardinality((slam' \cup slamNew') \cap Tracks) <= MaxSlam
    BY <2>6, <2>7, <2>8, OptionsAssumption
  <2> QED
    BY <2>2, <2>9 DEF BudgetInv
<1>8. CASE MsckfUpdate \/ SlamUpdate
  BY <1>4, <1>8 DEF MsckfUpdate, SlamUpdate, stateVars, listVars
<1>9. CASE DelayedInit
  <2>1. phase = "delayed" /\ phase' = "cleanup" /\ slam' \subseteq slam \cup slamNew
    BY <1>9 DEF DelayedInit
  <2> QED
    BY <1>2, <2>1 DEF BudgetInv
<1>10. CASE Cleanup \/ ChangeAnchors \/ MarginalizeOldClone
  BY <1>3, <1>10 DEF Cleanup, ChangeAnchors, MarginalizeOldClone, stateVars
<1>11. CASE UNCHANGED vars
  BY <1>11 DEF vars, stateVars, listVars, BudgetInv
<1> QED
  BY <1>5, <1>6, <1>7, <1>8, <1>9, <1>10, <1>11 DEF Next

(* The landmarks that are not aruco corners stay within max_slam_features, *)
(* in whatever order images arrive, although the places are counted before *)
(* marginalize_slam and a dropped landmark may be initialised again.       *)
THEOREM LandmarksInBudget == Spec => []SlamBudget
<1>1. Init => BudgetInv
  <2> SUFFICES ASSUME Init PROVE BudgetInv
    OBVIOUS
  <2>1. slam \cap Tracks = {} /\ phase = "idle"
    BY DEF Init
  <2> QED
    BY <2>1, FS_EmptySet, OptionsAssumption DEF BudgetInv
<1>2. TypeOK /\ BudgetInv => SlamBudget
  <2> SUFFICES ASSUME TypeOK, BudgetInv PROVE SlamBudget
    OBVIOUS
  <2> DEFINE all == IF phase \in {"msckf", "slam", "delayed"} THEN slam \cup slamNew ELSE slam
  <2>1. /\ IsFiniteSet(all \cap Tracks) /\ Cardinality(all \cap Tracks) \in Nat
        /\ Cardinality(slam \cap Tracks) \in Nat
    BY FeaturesAssumption, FS_Subset, FS_CardinalityType
  <2>2. Cardinality(slam \cap Tracks) <= Cardinality(all \cap Tracks)
    <3>1. slam \cap Tracks \subseteq all \cap Tracks
      OBVIOUS
    <3> QED
      BY <2>1, <3>1, FS_Subset
  <2> QED
    BY <2>1, <2>2, OptionsAssumption DEF BudgetInv, SlamBudget
<1> QED
  BY <1>1, <1>2, StepBudget, TypeCorrect, PTL DEF Spec
=============================================================================
