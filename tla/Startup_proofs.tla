----------------------------- MODULE Startup_proofs -----------------------------
(***************************************************************************)
(* Proofs about Startup, for every number of launches.                     *)
(***************************************************************************)
EXTENDS Startup, TLAPS

-----------------------------------------------------------------------------
(* The invariants *)

(* Nothing carries the number of a launch that is still to come.           *)
Past ==
  /\ \A n \in Names : bound[n] <= launch
  /\ \A p \in Producers, n \in Names : holds[p][n] <= launch

(* The one token of a readiness semaphore: it does not exist before this   *)
(* launch's sem_post, and while a producer relays it, it is in that        *)
(* producer's hands and in no other place.                                 *)
OneToken ==
  /\ \A l \in Launches : l > launch => tokens[l] = 0
  /\ vStep <= PostStep => tokens[launch] = 0
  /\ \A p \in Producers :
       pPc[p] = "relay" => /\ tokens[holds[p]["ready_sem"]] = 0
                           /\ vStep <= PostStep => holds[p]["ready_sem"] # launch
  /\ \A p, q \in Producers :
       pPc[p] = "relay" /\ pPc[q] = "relay" /\ p # q =>
         holds[p]["ready_sem"] # holds[q]["ready_sem"]

(* A producer beyond its first open has the object it opened.              *)
InHand ==
  \A p \in Producers :
    /\ pPc[p] \in {"wait", "relay", "attach", "streaming"} => holds[p]["ready_sem"] # 0
    /\ pPc[p] = "streaming" => \A n \in Needs(p) : holds[p][n] # 0

(* How far the set-up of an estimator that lives has come: what it has     *)
(* created is this launch's, and nothing is left after cleanup_all.        *)
SetUp ==
  launch \notin crashed =>
    /\ vStep # DownStep => \A i \in 1 .. 4 :
         /\ vStep = 2 * i => bound[Opens[i]] = 0
         /\ vStep > 2 * i => bound[Opens[i]] = launch
    /\ vStep > RingStep /\ vStep # DownStep => ring[launch] = "reset"
    /\ vStep = DownStep => \A n \in Names : bound[n] = 0

(* Only crashes leave producers behind.                                    *)
NoStrays ==
  \A p \in Producers :
    /\ p[1] > launch => pPc[p] = "none"
    /\ p[1] \notin crashed /\ (p[1] < launch \/ (p[1] = launch /\ vStep = DownStep)) =>
         pPc[p] \in {"ended", "failed"}

(* Producers that started in time found, and hold, only what their launch  *)
(* created.                                                                *)
Timely ==
  \A p \in Producers : Orderly(p[1]) =>
    /\ p[1] = launch /\ pPc[p] # "start" => vStep > PostStep
    /\ \A n \in Names : holds[p][n] \in {0, p[1]}

StartupInv == TypeOK /\ Past /\ OneToken /\ InHand /\ SetUp /\ NoStrays /\ Timely
-----------------------------------------------------------------------------
(* Types and launches of the past *)

LEMMA Constants ==
  /\ MaxLaunches \in Nat \ {0} /\ Launches = 1 .. MaxLaunches
  /\ Names = {"mq", "shm", "cam_sem", "ready_sem"}
  /\ \A p \in Producers : p[1] \in Launches
  /\ \A l \in Launches : \A p : p \in Of(l) <=> p \in Producers /\ p[1] = l
  /\ \A p \in Producers : Needs(p) \subseteq Names \ {"ready_sem"}
  /\ \A i \in 1 .. 4 : Opens[i] \in Names
BY StartupAssumption DEF Producers, Launches, Of, Names, Needs, Opens

LEMMA InitInv == Init => StartupInv
<1> SUFFICES ASSUME Init PROVE StartupInv
  OBVIOUS
<1> USE Constants DEF Init, Closed, Started
<1>1. TypeOK
  <2>1. launch \in Launches /\ bound \in [Names -> 0 .. MaxLaunches]
    OBVIOUS
  <2>2. /\ tokens \in [Launches -> 0 .. 1]
        /\ ring \in [Launches -> {"none", "empty", "sized", "reset"}]
    OBVIOUS
  <2>3. pPc \in [Producers -> {"none", "start", "wait", "relay", "attach", "streaming", "ended", "failed"}]
    OBVIOUS
  <2>4. holds \in [Producers -> [Names -> 0 .. MaxLaunches]]
    OBVIOUS
  <2>5. vStep \in 1 .. DownStep /\ crashed \subseteq Launches /\ hasty \subseteq Launches
    BY DEF DownStep
  <2> QED
    BY <2>1, <2>2, <2>3, <2>4, <2>5 DEF TypeOK
<1>2. Past
  BY DEF Past
<1>3. OneToken
  BY DEF OneToken
<1>4. InHand
  BY DEF InHand
<1>5. SetUp
  BY DEF SetUp, DownStep, RingStep
<1>6. NoStrays
  BY DEF NoStrays, DownStep
<1>7. Timely
  BY DEF Timely
<1> QED
  BY <1>1, <1>2, <1>3, <1>4, <1>5, <1>6, <1>7 DEF StartupInv

(* The step that an estimator's set-up step is, and the name it is about.  *)
LEMMA SetUpSteps ==
  ASSUME TypeOK, Unlink \/ Create
  PROVE  \E i \in 1 .. 4 :
           /\ Opens[i] \in Names
           /\ \/ vStep = 2 * i - 1 /\ bound' = [bound EXCEPT ![Opens[i]] = 0]
              \/ vStep = 2 * i /\ bound' = [bound EXCEPT ![Opens[i]] = IF @ = 0 THEN launch ELSE @]
           /\ vStep' = vStep + 1 /\ vStep' \in 2 .. PostStep
           /\ vStep # 4 => ring' = ring
           /\ ring' = ring \/ ring' = [ring EXCEPT ![launch] = "empty"]
           /\ UNCHANGED <<launch, tokens, producers, crashed>>
<1>1. CASE Unlink
  <2>1. PICK i \in 1 .. 4 : vStep = 2 * i - 1
    BY <1>1 DEF Unlink
  <2>2. (vStep + 1) \div 2 = i
    BY <2>1
  <2>3. Opens[i] \in Names /\ bound' = [bound EXCEPT ![Opens[i]] = 0]
    BY <1>1, <2>2, Constants DEF Unlink
  <2>4. vStep' = vStep + 1 /\ ring' = ring /\ UNCHANGED <<launch, tokens, producers, crashed>>
    BY <1>1 DEF Unlink
  <2>5. vStep + 1 \in 2 .. PostStep
    BY <2>1 DEF PostStep
  <2> QED
    BY <2>1, <2>3, <2>4, <2>5
<1>2. CASE Create
  <2>1. PICK i \in 1 .. 4 : vStep = 2 * i
    BY <1>2 DEF Create
  <2>2. vStep \div 2 = i
    BY <2>1
  <2>3. /\ Opens[i] \in Names
        /\ bound' = [bound EXCEPT ![Opens[i]] = IF bound[Opens[i]] = 0 THEN launch ELSE bound[Opens[i]]]
    BY <1>2, <2>2, Constants DEF Create
  <2>4. vStep' = vStep + 1 /\ UNCHANGED <<launch, tokens, producers, crashed>>
    BY <1>2 DEF Create
  <2>5. vStep + 1 \in 2 .. PostStep
    BY <2>1 DEF PostStep
  <2>6. /\ vStep # 4 => ring' = ring
        /\ ring' = ring \/ ring' = [ring EXCEPT ![launch] = "empty"]
    BY <1>2 DEF Create
  <2> QED
    BY <2>1, <2>3, <2>4, <2>5, <2>6
<1> QED
  BY <1>1, <1>2

(* What the end of a producer leaves of the others, and of itself.         *)
LEMMA EndOf ==
  ASSUME TypeOK, NEW p \in Producers, NEW how \in {"ended", "failed"}, Ends(p, how)
  PROVE  /\ pPc' \in [Producers -> {"none", "start", "wait", "relay", "attach", "streaming", "ended", "failed"}]
         /\ holds' \in [Producers -> [Names -> 0 .. MaxLaunches]]
         /\ pPc'[p] = how /\ \A n \in Names : holds'[p][n] = 0
         /\ \A q \in Producers : q # p => pPc'[q] = pPc[q] /\ holds'[q] = holds[q]
<1>1. Closed \in [Names -> 0 .. MaxLaunches] /\ \A n \in Names : Closed[n] = 0
  BY Constants DEF Closed
<1> QED
  BY <1>1 DEF Ends, TypeOK

LEMMA StepType == StartupInv /\ [Next]_vars => TypeOK' /\ Past'
<1> SUFFICES ASSUME StartupInv, [Next]_vars PROVE TypeOK' /\ Past'
  OBVIOUS
<1> DEFINE Places == {"none", "start", "wait", "relay", "attach", "streaming", "ended", "failed"}
<1> DEFINE Rings == {"none", "empty", "sized", "reset"}
<1> USE Constants
<1>0. /\ launch \in Launches /\ launch \in Nat
      /\ bound \in [Names -> 0 .. MaxLaunches] /\ tokens \in [Launches -> 0 .. 1]
      /\ ring \in [Launches -> Rings]
      /\ vStep \in 1 .. DownStep /\ pPc \in [Producers -> Places]
      /\ holds \in [Producers -> [Names -> 0 .. MaxLaunches]]
      /\ crashed \subseteq Launches /\ hasty \subseteq Launches
      /\ \A n \in Names : bound[n] <= launch
      /\ \A p \in Producers, n \in Names : holds[p][n] <= launch
      /\ \A n \in Names : bound[n] \in 0 .. MaxLaunches
      /\ \A p \in Producers, n \in Names : holds[p][n] \in 0 .. MaxLaunches
  BY DEF StartupInv, TypeOK, Past
<1>01. \A p \in Producers : pPc[p] \in {"wait", "relay"} => holds[p]["ready_sem"] \in Launches
  BY <1>0 DEF StartupInv, InHand
<1>02. ASSUME NEW p \in Producers, NEW how \in {"ended", "failed"}, Ends(p, how)
       PROVE  /\ holds' \in [Producers -> [Names -> 0 .. MaxLaunches]] /\ pPc' \in [Producers -> Places]
              /\ \A q \in Producers, n \in Names : holds'[q][n] <= launch
  <2>1. /\ pPc' \in [Producers -> Places] /\ holds' \in [Producers -> [Names -> 0 .. MaxLaunches]]
        /\ \A n \in Names : holds'[p][n] = 0
        /\ \A q \in Producers : q # p => holds'[q] = holds[q]
    BY <1>02, EndOf DEF StartupInv
  <2>2. ASSUME NEW q \in Producers, NEW n \in Names PROVE holds'[q][n] <= launch
    <3>1. holds[q][n] <= launch /\ 0 <= launch
      BY <1>0
    <3>2. holds'[q][n] = 0 \/ holds'[q][n] = holds[q][n]
      BY <2>1
    <3> QED
      BY <3>1, <3>2
  <2> QED
    BY <2>1, <2>2
<1>03. ASSUME NEW p \in Producers, NEW n \in Names, holds' = [holds EXCEPT ![p][n] = bound[n]]
       PROVE  /\ holds' \in [Producers -> [Names -> 0 .. MaxLaunches]]
              /\ \A q \in Producers, m \in Names : holds'[q][m] <= launch
  <2>1. bound[n] \in 0 .. MaxLaunches /\ bound[n] <= launch
    BY <1>0
  <2>2. holds' \in [Producers -> [Names -> 0 .. MaxLaunches]]
    BY <1>0, <1>03, <2>1
  <2>3. ASSUME NEW q \in Producers, NEW m \in Names PROVE holds'[q][m] <= launch
    <3>1. holds[q][m] <= launch
      BY <1>0
    <3>2. holds'[q][m] = bound[n] \/ holds'[q][m] = holds[q][m]
      BY <1>0, <1>03
    <3> QED
      BY <2>1, <3>1, <3>2
  <2> QED
    BY <2>2, <2>3
<1> USE DEF DownStep, RunStep, PostStep, estimator, objects, producers
<1>1. CASE Unlink \/ Create
  <2>1. PICK i \in 1 .. 4 :
           /\ Opens[i] \in Names
           /\ \/ bound' = [bound EXCEPT ![Opens[i]] = 0]
              \/ bound' = [bound EXCEPT ![Opens[i]] = IF @ = 0 THEN launch ELSE @]
           /\ vStep' \in 2 .. PostStep
           /\ ring' = ring \/ ring' = [ring EXCEPT ![launch] = "empty"]
           /\ UNCHANGED <<launch, tokens, producers, crashed>>
    BY <1>1, SetUpSteps DEF StartupInv
  <2>2. PICK b \in 0 .. launch : bound' = [bound EXCEPT ![Opens[i]] = b]
    BY <1>0, <2>1
  <2>3. b \in 0 .. MaxLaunches /\ b <= launch
    BY <1>0
  <2>4. bound' \in [Names -> 0 .. MaxLaunches]
    BY <1>0, <2>1, <2>2, <2>3
  <2>5. \A n \in Names : bound'[n] <= launch
    BY <1>0, <2>1, <2>2, <2>3
  <2>6. /\ vStep' \in 1 .. DownStep /\ launch' = launch /\ tokens' = tokens /\ crashed' = crashed
        /\ pPc' = pPc /\ holds' = holds /\ hasty' = hasty
    BY <2>1
  <2>7. ring' \in [Launches -> Rings]
    BY <1>0, <2>1
  <2> QED
    BY <1>0, <2>4, <2>5, <2>6, <2>7 DEF TypeOK, Past
<1>2. CASE SizeRing
  <2>1. ring' \in [Launches -> Rings]
    BY <1>0, <1>2 DEF SizeRing
  <2> QED
    BY <1>0, <1>2, <2>1 DEF SizeRing, TypeOK, Past
<1>3. CASE PostReady
  <2>1. tokens[launch] = 0
    BY <1>3 DEF PostReady, StartupInv, OneToken
  <2>2. tokens' \in [Launches -> 0 .. 1]
    BY <1>0, <1>3, <2>1 DEF PostReady
  <2> QED
    BY <1>0, <1>3, <2>2 DEF PostReady, TypeOK, Past
<1>4. CASE VinsExit
  <2>1. bound' \in [Names -> 0 .. MaxLaunches] /\ \A n \in Names : bound'[n] <= launch
    BY <1>0, <1>4 DEF VinsExit, Closed
  <2> QED
    BY <1>0, <1>4, <2>1 DEF VinsExit, TypeOK, Past
<1>5. CASE VinsCrash
  BY <1>0, <1>5 DEF VinsCrash, TypeOK, Past
<1>6. ASSUME NEW p \in Producers, OpenReady(p) PROVE TypeOK' /\ Past'
  <2>1. /\ holds' \in [Producers -> [Names -> 0 .. MaxLaunches]] /\ pPc' \in [Producers -> Places]
        /\ \A q \in Producers, n \in Names : holds'[q][n] <= launch
    <3>1. CASE bound["ready_sem"] = 0
      BY <1>02, <1>6, <3>1 DEF OpenReady
    <3>2. CASE bound["ready_sem"] # 0
      <4>1. /\ holds' = [holds EXCEPT ![p]["ready_sem"] = bound["ready_sem"]]
            /\ pPc' = [pPc EXCEPT ![p] = "wait"]
        BY <1>6, <3>2 DEF OpenReady
      <4>2. pPc' \in [Producers -> Places]
        BY <1>0, <4>1
      <4> QED
        BY <1>03, <4>1, <4>2
    <3> QED
      BY <3>1, <3>2
  <2>2. hasty' \subseteq Launches
    <3>1. hasty' = hasty \cup {l \in {p[1]} : l # launch \/ vStep <= PostStep}
      BY <1>6 DEF OpenReady
    <3>2. p[1] \in Launches /\ hasty \subseteq Launches
      BY <1>0
    <3> HIDE DEF PostStep
    <3> QED
      BY <3>1, <3>2
  <2>3. UNCHANGED <<estimator, objects, crashed>>
    BY <1>6 DEF OpenReady
  <2> QED
    BY <1>0, <2>1, <2>2, <2>3 DEF TypeOK, Past
<1>7. ASSUME NEW p \in Producers, WaitReady(p) PROVE TypeOK' /\ Past'
  <2>1. /\ holds[p]["ready_sem"] \in Launches /\ tokens[holds[p]["ready_sem"]] = 1
        /\ tokens' = [tokens EXCEPT ![holds[p]["ready_sem"]] = tokens[holds[p]["ready_sem"]] - 1]
    BY <1>0, <1>01, <1>7 DEF WaitReady
  <2>2. tokens' \in [Launches -> 0 .. 1]
    BY <1>0, <2>1
  <2>3. pPc' \in [Producers -> Places]
    BY <1>0, <1>7 DEF WaitReady
  <2> QED
    BY <1>0, <1>7, <2>2, <2>3 DEF WaitReady, TypeOK, Past
<1>8. ASSUME NEW p \in Producers, Relay(p) PROVE TypeOK' /\ Past'
  <2>1. /\ holds[p]["ready_sem"] \in Launches /\ tokens[holds[p]["ready_sem"]] = 0
        /\ tokens' = [tokens EXCEPT ![holds[p]["ready_sem"]] = tokens[holds[p]["ready_sem"]] + 1]
    BY <1>01, <1>8 DEF Relay, StartupInv, OneToken
  <2>2. tokens' \in [Launches -> 0 .. 1]
    BY <1>0, <2>1
  <2>3. pPc' \in [Producers -> Places]
    BY <1>0, <1>8 DEF Relay
  <2> QED
    BY <1>0, <1>8, <2>2, <2>3 DEF Relay, TypeOK, Past
<1>9. ASSUME NEW p \in Producers, NEW n \in Needs(p), Attach(p, n) PROVE TypeOK' /\ Past'
  <2>1. /\ holds' \in [Producers -> [Names -> 0 .. MaxLaunches]] /\ pPc' \in [Producers -> Places]
        /\ \A q \in Producers, m \in Names : holds'[q][m] <= launch
    <3>1. CASE bound[n] = 0
      BY <1>02, <1>9, <3>1 DEF Attach
    <3>2. CASE bound[n] # 0
      <4>1. /\ holds' = [holds EXCEPT ![p][n] = bound[n]]
            /\ pPc' = [pPc EXCEPT ![p] = "streaming"] \/ pPc' = pPc
        BY <1>9, <3>2 DEF Attach
      <4>2. pPc' \in [Producers -> Places]
        BY <1>0, <4>1
      <4> QED
        BY <1>03, <4>1, <4>2
    <3> QED
      BY <3>1, <3>2
  <2>2. UNCHANGED <<estimator, objects, hasty, crashed>>
    BY <1>9 DEF Attach
  <2> QED
    BY <1>0, <2>1, <2>2 DEF TypeOK, Past
<1>10. ASSUME NEW p \in Producers, EndStream(p) \/ BusError(p) PROVE TypeOK' /\ Past'
  <2>1. PICK how \in {"ended", "failed"} : Ends(p, how)
    BY <1>10 DEF EndStream, BusError
  <2>2. UNCHANGED <<estimator, objects, hasty, crashed>>
    BY <1>10 DEF EndStream, BusError
  <2>3. /\ holds' \in [Producers -> [Names -> 0 .. MaxLaunches]] /\ pPc' \in [Producers -> Places]
        /\ \A q \in Producers, n \in Names : holds'[q][n] <= launch
    BY <1>02, <2>1
  <2> QED
    BY <1>0, <2>2, <2>3 DEF TypeOK, Past
<1>11. CASE Relaunch
  <2>1. launch' = launch + 1 /\ launch' \in Launches
    BY <1>0, <1>11 DEF Relaunch
  <2>2. bound' \in [Names -> 0 .. MaxLaunches] /\ \A n \in Names : bound'[n] <= launch'
    BY <1>0, <1>11, <2>1 DEF Relaunch
  <2>3. \A q \in Producers, n \in Names : holds[q][n] <= launch'
    BY <1>0, <2>1
  <2>4. pPc' \in [Producers -> Places]
    BY <1>0, <1>11 DEF Relaunch
  <2>5. vStep' \in 1 .. DownStep
    BY <1>11 DEF Relaunch
  <2>6. UNCHANGED <<tokens, ring, holds, hasty, crashed>>
    BY <1>11 DEF Relaunch
  <2> QED
    BY <1>0, <2>1, <2>2, <2>3, <2>4, <2>5, <2>6 DEF TypeOK, Past
<1>12. CASE UNCHANGED vars
  BY <1>0, <1>12 DEF vars, TypeOK, Past
<1> QED
  BY <1>1, <1>2, <1>3, <1>4, <1>5, <1>6, <1>7, <1>8, <1>9, <1>10, <1>11, <1>12
  DEF Next, VinsSetup, Producer, Connect
-----------------------------------------------------------------------------
(* The token *)

LEMMA StepToken == StartupInv /\ [Next]_vars => OneToken'
<1> SUFFICES ASSUME StartupInv, [Next]_vars PROVE OneToken'
  OBVIOUS
<1> USE DEF estimator, objects, producers
<1> DEFINE H(p) == holds[p]["ready_sem"]
<1>0. /\ launch \in Launches /\ tokens \in [Launches -> 0 .. 1] /\ vStep \in Nat
      /\ \A p \in Producers : H(p) \in 0 .. launch
      /\ \A p \in Producers : pPc[p] \in {"wait", "relay"} => H(p) \in Launches
      /\ pPc = [p \in Producers |-> pPc[p]] /\ holds = [p \in Producers |-> holds[p]]
      /\ \A p \in Producers : holds[p] = [n \in Names |-> holds[p][n]]
  BY Constants DEF StartupInv, TypeOK, Past, InHand
<1>00. /\ \A l \in Launches : l > launch => tokens[l] = 0
       /\ vStep <= PostStep => tokens[launch] = 0
       /\ \A p \in Producers : pPc[p] = "relay" => tokens[H(p)] = 0
       /\ \A p \in Producers : pPc[p] = "relay" /\ vStep <= PostStep => H(p) # launch
       /\ \A p, q \in Producers : pPc[p] = "relay" /\ pPc[q] = "relay" /\ p # q => H(p) # H(q)
  BY DEF StartupInv, OneToken
<1>1. CASE VinsExit \/ VinsCrash \/ Unlink \/ Create \/ SizeRing
  <2>1. UNCHANGED <<launch, tokens, pPc, holds>>
    BY <1>1 DEF VinsExit, VinsCrash, Unlink, Create, SizeRing
  <2>2. vStep' = vStep \/ vStep' = vStep + 1 \/ vStep' = DownStep
    BY <1>1 DEF VinsExit, VinsCrash, Unlink, Create, SizeRing
  <2>3. vStep' <= PostStep => vStep <= PostStep
    BY <1>0, <2>2 DEF PostStep, DownStep
  <2> QED
    BY <1>00, <2>1, <2>3 DEF OneToken
<1>2. CASE PostReady
  <2>1. /\ vStep <= PostStep /\ ~(vStep' <= PostStep)
        /\ tokens' = [tokens EXCEPT ![launch] = tokens[launch] + 1]
        /\ UNCHANGED <<launch, pPc, holds>>
    BY <1>2 DEF PostReady, PostStep, RunStep
  <2>2. \A l \in Launches : l # launch => tokens'[l] = tokens[l]
    BY <1>0, <2>1
  <2>3. \A p \in Producers : pPc[p] = "relay" => tokens'[H(p)] = 0
    BY <1>0, <1>00, <2>1, <2>2
  <2>4. \A l \in Launches : l > launch => tokens'[l] = 0
    BY <1>0, <1>00, <2>2, Constants
  <2> QED
    BY <1>00, <2>1, <2>3, <2>4 DEF OneToken
<1>3. ASSUME NEW p \in Producers,
             OpenReady(p) \/ (\E n \in Needs(p) : Attach(p, n)) \/ EndStream(p) \/ BusError(p)
      PROVE  OneToken'
  <2>1. /\ UNCHANGED <<launch, tokens, vStep>>
        /\ \A q \in Producers : pPc'[q] = "relay" => pPc[q] = "relay" /\ q # p
    BY <1>0, <1>3 DEF OpenReady, Attach, EndStream, BusError, Ends
  <2>2. \A q \in Producers : q # p => holds'[q] = holds[q]
    BY <1>0, <1>3 DEF OpenReady, Attach, EndStream, BusError, Ends
  <2> QED
    BY <1>00, <2>1, <2>2 DEF OneToken
<1>4. ASSUME NEW p \in Producers, WaitReady(p) PROVE OneToken'
  <2>1. /\ H(p) \in Launches /\ tokens[H(p)] = 1 /\ pPc[p] = "wait"
        /\ tokens' = [tokens EXCEPT ![H(p)] = tokens[H(p)] - 1]
        /\ pPc' = [pPc EXCEPT ![p] = "relay"]
        /\ UNCHANGED <<launch, vStep, holds>>
    BY <1>0, <1>4 DEF WaitReady
  <2>2. tokens'[H(p)] = 0 /\ \A l \in Launches : l # H(p) => tokens'[l] = tokens[l]
    BY <1>0, <2>1
  <2>3. \A q \in Producers : q # p => pPc'[q] = pPc[q]
    BY <1>0, <2>1
  <2>4. \A q \in Producers : pPc[q] = "relay" => H(q) # H(p)
    BY <1>00, <2>1
  <2>5. vStep <= PostStep => H(p) # launch
    BY <1>00, <2>1
  <2>6. \A l \in Launches : tokens[l] = 0 => tokens'[l] = 0
    BY <2>2
  <2>7. \A q \in Producers : pPc'[q] = "relay" => tokens'[H(q)] = 0
    BY <1>0, <1>00, <2>2, <2>3, <2>6
  <2>8. /\ \A l \in Launches : l > launch => tokens'[l] = 0
        /\ vStep <= PostStep => tokens'[launch] = 0
    BY <1>0, <1>00, <2>6
  <2>9. \A q \in Producers : pPc'[q] = "relay" /\ vStep <= PostStep => H(q) # launch
    BY <1>00, <2>3, <2>5
  <2>10. \A q, r \in Producers : pPc'[q] = "relay" /\ pPc'[r] = "relay" /\ q # r => H(q) # H(r)
    BY <1>00, <2>3, <2>4
  <2> QED
    BY <2>1, <2>7, <2>8, <2>9, <2>10 DEF OneToken
<1>5. ASSUME NEW p \in Producers, Relay(p) PROVE OneToken'
  <2>1. /\ H(p) \in Launches /\ pPc[p] = "relay"
        /\ tokens' = [tokens EXCEPT ![H(p)] = tokens[H(p)] + 1]
        /\ pPc' = [pPc EXCEPT ![p] = "attach"]
        /\ UNCHANGED <<launch, vStep, holds>>
    BY <1>0, <1>5 DEF Relay
  <2>2. \A l \in Launches : l # H(p) => tokens'[l] = tokens[l]
    BY <1>0, <2>1
  <2>3. \A q \in Producers : pPc'[q] = "relay" => pPc[q] = "relay" /\ q # p
    BY <1>0, <2>1
  <2>4. \A q \in Producers : pPc'[q] = "relay" => tokens'[H(q)] = 0
    BY <1>0, <1>00, <2>1, <2>2, <2>3
  <2>5. \A l \in Launches : l > launch => tokens'[l] = 0
    <3>1. H(p) <= launch
      BY <1>0
    <3> QED
      BY <1>0, <1>00, <2>2, <3>1, Constants
  <2>6. vStep <= PostStep => tokens'[launch] = 0
    BY <1>0, <1>00, <2>1, <2>2
  <2> QED
    BY <1>00, <2>1, <2>3, <2>4, <2>5, <2>6 DEF OneToken
<1>6. CASE Relaunch
  <2>1. launch' = launch + 1 /\ launch' \in Launches /\ tokens' = tokens /\ holds' = holds
    BY <1>0, <1>6, Constants DEF Relaunch
  <2>2. \A p \in Producers : pPc'[p] = "relay" => pPc[p] = "relay"
    BY <1>0, <1>6 DEF Relaunch
  <2>3. tokens'[launch'] = 0 /\ \A l \in Launches : l > launch' => tokens'[l] = 0
    BY <1>0, <1>00, <2>1, Constants
  <2>4. \A p \in Producers : H(p) # launch'
    BY <1>0, <2>1, Constants
  <2> QED
    BY <1>00, <2>1, <2>2, <2>3, <2>4 DEF OneToken
<1>7. CASE UNCHANGED vars
  BY <1>00, <1>7 DEF vars, OneToken
<1> QED
  BY <1>1, <1>2, <1>3, <1>4, <1>5, <1>6, <1>7 DEF Next, VinsSetup, Producer, Connect

-----------------------------------------------------------------------------
(* What is open *)

LEMMA StepInHand == StartupInv /\ [Next]_vars => InHand'
<1> SUFFICES ASSUME StartupInv, [Next]_vars PROVE InHand'
  OBVIOUS
<1> USE DEF estimator, objects, producers
<1>0. /\ TypeOK
      /\ pPc = [p \in Producers |-> pPc[p]] /\ holds = [p \in Producers |-> holds[p]]
      /\ \A p \in Producers : holds[p] = [n \in Names |-> holds[p][n]]
      /\ \A p \in Producers :
           pPc[p] \in {"wait", "relay", "attach", "streaming"} => holds[p]["ready_sem"] # 0
      /\ \A p \in Producers : pPc[p] = "streaming" => \A n \in Needs(p) : holds[p][n] # 0
  BY DEF StartupInv, TypeOK, InHand
<1>1. CASE UNCHANGED <<pPc, holds>>
  BY <1>0, <1>1 DEF InHand
<1>2. ASSUME NEW p \in Producers, NEW how \in {"ended", "failed"}, Ends(p, how) PROVE InHand'
  <2>1. pPc'[p] = how /\ \A q \in Producers : q # p => pPc'[q] = pPc[q] /\ holds'[q] = holds[q]
    BY <1>0, <1>2, EndOf
  <2> QED
    BY <1>0, <2>1 DEF InHand
<1>3. ASSUME NEW p \in Producers, OpenReady(p), bound["ready_sem"] # 0 PROVE InHand'
  <2>1. \A q \in Producers : q # p => pPc'[q] = pPc[q] /\ holds'[q] = holds[q]
    BY <1>0, <1>3 DEF OpenReady
  <2>2. holds'[p]["ready_sem"] # 0 /\ pPc'[p] = "wait"
    BY <1>0, <1>3, Constants DEF OpenReady
  <2> QED
    BY <1>0, <2>1, <2>2 DEF InHand
<1>4. ASSUME NEW p \in Producers, WaitReady(p) \/ Relay(p) PROVE InHand'
  <2>1. /\ \A q \in Producers : q # p => pPc'[q] = pPc[q]
        /\ holds' = holds
        /\ pPc'[p] \in {"relay", "attach"} /\ pPc[p] \in {"wait", "relay"}
    BY <1>0, <1>4 DEF WaitReady, Relay
  <2> QED
    BY <1>0, <2>1 DEF InHand
<1>5. ASSUME NEW p \in Producers, NEW n \in Needs(p), Attach(p, n), bound[n] # 0 PROVE InHand'
  <2>1. n \in Names \ {"ready_sem"}
    BY Constants
  <2>2. /\ \A q \in Producers : q # p => pPc'[q] = pPc[q] /\ holds'[q] = holds[q]
        /\ \A m \in Names : m # n => holds'[p][m] = holds[p][m]
        /\ holds'[p][n] = bound[n] /\ pPc[p] = "attach"
    BY <1>0, <1>5, <2>1 DEF Attach
  <2>3. pPc'[p] = "streaming" => \A m \in Needs(p) \ {n} : holds[p][m] # 0
    BY <1>0, <1>5 DEF Attach
  <2>4. pPc'[p] = "streaming" => \A m \in Needs(p) : holds'[p][m] # 0
    BY <1>5, <2>2, <2>3, Constants
  <2>5. holds'[p]["ready_sem"] # 0
    BY <1>0, <2>1, <2>2, Constants
  <2> QED
    BY <1>0, <2>2, <2>4, <2>5 DEF InHand
<1>6. CASE Relaunch
  <2>1. /\ holds' = holds
        /\ \A p \in Producers : pPc'[p] = pPc[p] \/ pPc'[p] = "start"
    BY <1>0, <1>6 DEF Relaunch
  <2> QED
    BY <1>0, <2>1 DEF InHand
<1>7. CASE VinsSetup \/ VinsExit \/ VinsCrash \/ UNCHANGED vars
  BY <1>1, <1>7 DEF VinsSetup, Unlink, Create, SizeRing, PostReady, VinsExit, VinsCrash, vars
<1>8. ASSUME NEW p \in Producers, Producer(p) PROVE InHand'
  <2>1. CASE OpenReady(p)
    BY <1>2, <1>3, <2>1 DEF OpenReady
  <2>2. CASE \E n \in Needs(p) : Attach(p, n)
    BY <1>2, <1>5, <2>2 DEF Attach
  <2>3. CASE EndStream(p) \/ BusError(p)
    BY <1>2, <2>3 DEF EndStream, BusError
  <2> QED
    BY <1>4, <1>8, <2>1, <2>2, <2>3 DEF Producer, Connect
<1> QED
  BY <1>6, <1>7, <1>8 DEF Next

LEMMA StepSetUp == StartupInv /\ [Next]_vars => SetUp'
<1> SUFFICES ASSUME StartupInv, [Next]_vars, (launch \notin crashed)' PROVE SetUp'
  BY DEF SetUp
<1> USE DEF PostStep, RunStep, DownStep, RingStep, estimator, objects, producers
<1>0. /\ bound = [n \in Names |-> bound[n]] /\ vStep \in 1 .. DownStep
      /\ ring = [l \in Launches |-> ring[l]] /\ launch \in Launches
  BY DEF StartupInv, TypeOK
<1>1. CASE UNCHANGED <<launch, bound, ring, vStep, crashed>>
  BY <1>1 DEF StartupInv, SetUp
<1>2. CASE Unlink \/ Create
  <2>1. PICK i \in 1 .. 4 :
           /\ Opens[i] \in Names
           /\ \/ vStep = 2 * i - 1 /\ bound' = [bound EXCEPT ![Opens[i]] = 0]
              \/ vStep = 2 * i /\ bound' = [bound EXCEPT ![Opens[i]] = IF @ = 0 THEN launch ELSE @]
           /\ vStep' = vStep + 1 /\ vStep' \in 2 .. PostStep
           /\ vStep # 4 => ring' = ring
           /\ UNCHANGED <<launch, tokens, producers, crashed>>
    BY <1>2, SetUpSteps DEF StartupInv
  <2>2. \A j \in 1 .. 4 : j # i => Opens[j] # Opens[i]
    BY DEF Opens
  <2>3. \A j \in 1 .. 4 : j # i => bound'[Opens[j]] = bound[Opens[j]]
    BY <1>0, <2>1, <2>2, Constants
  <2>4. launch \notin crashed /\ vStep # DownStep /\ vStep' # DownStep
    BY <2>1
  <2>5. \A j \in 1 .. 4 : /\ vStep = 2 * j => bound[Opens[j]] = 0
                          /\ vStep > 2 * j => bound[Opens[j]] = launch
    BY <2>4 DEF StartupInv, SetUp
  <2>6. vStep = 2 * i - 1 => bound'[Opens[i]] = 0
    BY <1>0, <2>1
  <2>7. vStep = 2 * i => bound'[Opens[i]] = launch
    BY <1>0, <2>1, <2>5
  <2>8. ASSUME NEW j \in 1 .. 4
        PROVE  /\ vStep' = 2 * j => bound'[Opens[j]] = 0
               /\ vStep' > 2 * j => bound'[Opens[j]] = launch'
    <3>1. CASE j = i
      BY <2>1, <2>6, <2>7, <3>1
    <3>2. CASE j # i
      BY <1>0, <2>1, <2>3, <2>5, <3>2
    <3> QED
      BY <3>1, <3>2
  <2>9. vStep' > RingStep => ring'[launch'] = "reset"
    <3>1. CASE vStep > RingStep
      BY <2>1, <2>4, <3>1 DEF StartupInv, SetUp
    <3>2. CASE vStep = RingStep
      <4>1. Unlink
        BY <1>2, <3>2 DEF Create
      <4>2. bound[Opens[2]] = launch /\ Opens[2] = "shm"
        BY <2>5, <3>2 DEF Opens
      <4>3. ring[bound["shm"]] = "reset"
        BY <3>2, <4>1 DEF Unlink, RingReady
      <4> QED
        BY <2>1, <3>2, <4>2, <4>3
    <3> QED
      BY <1>0, <2>1, <3>1, <3>2
  <2> QED
    BY <2>4, <2>8, <2>9 DEF SetUp
<1>3. CASE SizeRing
  <2>1. vStep = RingStep /\ UNCHANGED <<launch, vStep, bound, crashed>>
    BY <1>3 DEF SizeRing
  <2> QED
    BY <2>1 DEF StartupInv, SetUp
<1>4. CASE PostReady
  BY <1>0, <1>4 DEF PostReady, StartupInv, SetUp
<1>5. CASE VinsExit
  BY <1>5 DEF VinsExit, SetUp, Closed
<1>6. CASE VinsCrash
  BY <1>6 DEF VinsCrash
<1>7. CASE Relaunch
  BY <1>7 DEF Relaunch, SetUp
<1>8. CASE (\E p \in Producers : Producer(p)) \/ UNCHANGED vars
  BY <1>1, <1>8 DEF Producer, Connect, OpenReady, WaitReady, Relay, Attach, EndStream, BusError, vars
<1> QED
  BY <1>2, <1>3, <1>4, <1>5, <1>6, <1>7, <1>8 DEF Next, VinsSetup

LEMMA StepNoStrays == StartupInv /\ [Next]_vars => NoStrays'
<1> SUFFICES ASSUME StartupInv, [Next]_vars PROVE NoStrays'
  OBVIOUS
<1> USE DEF PostStep, RunStep, DownStep, estimator, objects, producers
<1>0. /\ TypeOK /\ pPc = [p \in Producers |-> pPc[p]] /\ launch \in Launches
      /\ vStep \in 1 .. DownStep
      /\ \A p \in Producers :
           /\ p[1] > launch => pPc[p] = "none"
           /\ p[1] \notin crashed /\ (p[1] < launch \/ (p[1] = launch /\ vStep = DownStep)) =>
                pPc[p] \in {"ended", "failed"}
  BY DEF StartupInv, TypeOK, NoStrays
<1>1. CASE VinsSetup \/ UNCHANGED vars
  <2>1. UNCHANGED <<launch, pPc, crashed>>
    BY <1>1 DEF VinsSetup, Unlink, Create, SizeRing, PostReady, vars
  <2>2. vStep' = DownStep => vStep = DownStep
    BY <1>1 DEF VinsSetup, Unlink, Create, SizeRing, PostReady, vars
  <2> QED
    BY <1>0, <2>1, <2>2 DEF NoStrays
<1>2. CASE VinsExit
  <2>1. /\ UNCHANGED <<launch, pPc, crashed>>
        /\ \A p \in Producers : p[1] = launch => pPc[p] \in {"ended", "failed"}
    BY <1>0, <1>2, Constants DEF VinsExit
  <2> QED
    BY <1>0, <2>1 DEF NoStrays
<1>3. CASE VinsCrash
  BY <1>0, <1>3 DEF VinsCrash, NoStrays
<1>4. ASSUME NEW p \in Producers, Producer(p) PROVE NoStrays'
  <2>1. UNCHANGED <<launch, vStep, crashed>>
    BY <1>4 DEF Producer, Connect, OpenReady, WaitReady, Relay, Attach, EndStream, BusError
  <2>2. pPc[p] \in {"start", "wait", "relay", "attach", "streaming"}
    BY <1>4 DEF Producer, Connect, OpenReady, WaitReady, Relay, Attach, EndStream, BusError
  <2>3. \A q \in Producers : q # p => pPc'[q] = pPc[q]
    BY <1>0, <1>4 DEF Producer, Connect, OpenReady, WaitReady, Relay, Attach, EndStream, BusError, Ends
  <2> QED
    BY <1>0, <2>1, <2>2, <2>3 DEF NoStrays
<1>5. CASE Relaunch
  <2>1. /\ launch' = launch + 1 /\ launch' \in Launches /\ vStep = DownStep /\ vStep' = 1
        /\ crashed' = crashed
    BY <1>0, <1>5, Constants DEF Relaunch
  <2>2. \A p \in Producers : p[1] # launch' => pPc'[p] = pPc[p]
    BY <1>0, <1>5, <2>1, Constants DEF Relaunch
  <2>3. \A p \in Producers : /\ p[1] \in Nat /\ p[1] > launch' => p[1] > launch
                             /\ p[1] < launch' => p[1] <= launch
    BY <1>0, <2>1, Constants
  <2> QED
    BY <1>0, <2>1, <2>2, <2>3, Constants DEF NoStrays
<1> QED
  BY <1>1, <1>2, <1>3, <1>4, <1>5 DEF Next

(* Of an orderly launch, only the current one's producers still act, and   *)
(* beyond their start the estimator runs.                                  *)
LEMMA StillActing ==
  ASSUME StartupInv, NEW p \in Producers, Orderly(p[1]),
         pPc[p] \in {"wait", "relay", "attach", "streaming"}
  PROVE  /\ p[1] = launch /\ vStep = RunStep
         /\ \A n \in Names : bound[n] = launch /\ holds[p][n] \in {0, launch}
         /\ ring[launch] = "reset"
<1> USE DEF PostStep, RunStep, DownStep, RingStep
<1>1. p[1] \notin crashed
  BY DEF Orderly
<1>2. p[1] = launch /\ vStep # DownStep
  <2>1. p[1] \in Nat /\ launch \in Nat
    BY Constants DEF StartupInv, TypeOK
  <2> QED
    BY <1>1, <2>1 DEF StartupInv, NoStrays
<1>3. vStep = RunStep
  <2>1. vStep > PostStep /\ vStep \in 1 .. DownStep
    BY <1>2 DEF StartupInv, Timely, TypeOK
  <2> QED
    BY <1>2, <2>1
<1>4. \A i \in 1 .. 4 : bound[Opens[i]] = launch
  BY <1>1, <1>2, <1>3 DEF StartupInv, SetUp
<1>5. Names = {Opens[i] : i \in 1 .. 4}
  BY DEF Names, Opens
<1>6. ring[launch] = "reset"
  BY <1>1, <1>2, <1>3 DEF StartupInv, SetUp
<1> QED
  BY <1>2, <1>3, <1>4, <1>5, <1>6 DEF StartupInv, Timely

LEMMA StepTimely == StartupInv /\ [Next]_vars => Timely'
<1> SUFFICES ASSUME StartupInv, [Next]_vars PROVE Timely'
  OBVIOUS
<1> USE DEF PostStep, RunStep, DownStep, estimator, objects, producers
<1>0. /\ TypeOK /\ pPc = [p \in Producers |-> pPc[p]] /\ holds = [p \in Producers |-> holds[p]]
      /\ \A p \in Producers : holds[p] = [n \in Names |-> holds[p][n]]
      /\ vStep \in 1 .. DownStep /\ launch \in Launches
  BY DEF StartupInv, TypeOK
<1>1. \A p \in Producers : Orderly(p[1]) =>
        /\ p[1] = launch /\ pPc[p] # "start" => vStep > PostStep
        /\ \A n \in Names : holds[p][n] \in {0, p[1]}
  BY DEF StartupInv, Timely
<1>2. CASE VinsSetup \/ VinsExit \/ VinsCrash \/ UNCHANGED vars
  <2>1. /\ UNCHANGED <<launch, pPc, holds, hasty>> /\ crashed \subseteq crashed'
    BY <1>2 DEF VinsSetup, Unlink, Create, SizeRing, PostReady, VinsExit, VinsCrash, vars
  <2>2. vStep > PostStep => vStep' > PostStep
    <3>1. vStep' = vStep \/ vStep' = vStep + 1 \/ vStep' = DownStep
      BY <1>2 DEF VinsSetup, Unlink, Create, SizeRing, PostReady, VinsExit, VinsCrash, vars
    <3> QED
      BY <1>0, <3>1
  <2> QED
    BY <1>1, <2>1, <2>2 DEF Timely, Orderly
<1>3. ASSUME NEW p \in Producers, Producer(p) PROVE Timely'
  <2>1. /\ UNCHANGED <<launch, vStep, crashed, bound>> /\ hasty \subseteq hasty'
        /\ \A q \in Producers : q # p => pPc'[q] = pPc[q] /\ holds'[q] = holds[q]
    BY <1>0, <1>3 DEF Producer, Connect, OpenReady, WaitReady, Relay, Attach, EndStream, BusError, Ends
  <2>2. SUFFICES ASSUME Orderly(p[1])'
                 PROVE  /\ p[1] = launch /\ pPc'[p] # "start" => vStep > PostStep
                        /\ \A n \in Names : holds'[p][n] \in {0, p[1]}
    BY <1>1, <2>1 DEF Timely, Orderly
  <2>3. Orderly(p[1])
    BY <2>1, <2>2 DEF Orderly
  <2>4. CASE OpenReady(p)
    <3>1. p[1] = launch /\ vStep > PostStep
      <4>1. p[1] \notin {l \in {p[1]} : l # launch \/ vStep <= PostStep}
        BY <2>2, <2>4 DEF OpenReady, Orderly
      <4> QED
        BY <1>0, <4>1
    <3>2. vStep = DownStep => pPc[p] \in {"ended", "failed"}
      BY <2>3, <3>1 DEF StartupInv, NoStrays, Orderly
    <3>3. vStep = RunStep
      BY <1>0, <2>4, <3>1, <3>2 DEF OpenReady
    <3>4. bound["ready_sem"] = launch
      <4>1. Opens[4] = "ready_sem"
        BY DEF Opens
      <4> QED
        BY <2>3, <3>1, <3>3, <4>1 DEF StartupInv, SetUp, Orderly
    <3>5. \A n \in Names : holds'[p][n] = holds[p][n] \/ (n = "ready_sem" /\ holds'[p][n] = launch) \/ holds'[p][n] = 0
      BY <1>0, <2>4, <3>4, Constants DEF OpenReady, Ends
    <3> QED
      BY <1>1, <2>3, <3>1, <3>5
  <2>5. CASE WaitReady(p) \/ Relay(p)
    <3>1. /\ holds' = holds /\ pPc[p] # "start"
      BY <2>5 DEF WaitReady, Relay
    <3> QED
      BY <1>1, <2>3, <3>1
  <2>6. CASE \E n \in Needs(p) : Attach(p, n)
    <3>1. PICK n \in Needs(p) : Attach(p, n)
      BY <2>6
    <3>2. pPc[p] = "attach" /\ n \in Names
      BY <3>1, Constants DEF Attach
    <3>3. p[1] = launch /\ bound[n] = launch
      BY <2>3, <3>2, StillActing
    <3>4. \A m \in Names : holds'[p][m] = holds[p][m] \/ holds'[p][m] = launch \/ holds'[p][m] = 0
      BY <1>0, <3>1, <3>2, <3>3 DEF Attach, Ends, Closed
    <3> QED
      BY <1>1, <2>3, <3>2, <3>3, <3>4
  <2>7. CASE EndStream(p) \/ BusError(p)
    <3>1. PICK how \in {"ended", "failed"} : Ends(p, how)
      BY <2>7 DEF EndStream, BusError
    <3>2. pPc[p] # "start" /\ \A n \in Names : holds'[p][n] = 0
      BY <1>0, <2>7, <3>1, EndOf DEF EndStream, BusError
    <3> QED
      BY <1>1, <2>3, <3>2
  <2> QED
    BY <1>3, <2>4, <2>5, <2>6, <2>7 DEF Producer, Connect
<1>4. CASE Relaunch
  <2>1. /\ launch' = launch + 1 /\ launch' \in Launches
        /\ UNCHANGED <<holds, hasty, crashed>>
        /\ \A p \in Producers : p[1] = launch' => pPc'[p] = "start"
    BY <1>0, <1>4, Constants DEF Relaunch
  <2> QED
    BY <1>1, <2>1 DEF Timely, Orderly
<1> QED
  BY <1>2, <1>3, <1>4 DEF Next

-----------------------------------------------------------------------------
(* The theorems *)

LEMMA Invariant == Spec => []StartupInv
<1>1. StartupInv /\ [Next]_vars => StartupInv'
  BY StepType, StepToken, StepInHand, StepSetUp, StepNoStrays, StepTimely DEF StartupInv
<1> QED
  BY <1>1, InitInv, PTL DEF Spec

(* However often the estimator crashes and is launched again, its          *)
(* readiness semaphore never counts above one, also while the producers of *)
(* several launches take its token and put it back, and no producer waits  *)
(* on a semaphore that it has not opened.                                  *)
THEOREM TypeCorrect == Spec => []TypeOK
<1>1. StartupInv => TypeOK
  BY DEF StartupInv
<1> QED
  BY <1>1, Invariant, PTL

(* Whatever names and producers crashed launches left behind, producers    *)
(* that start after sem_post of an estimator that lives stream with        *)
(* objects of their launch only, and into shared memory that has been set  *)
(* up: the names that start_sim.sh removes and the one it forgets have all *)
(* been unlinked and created anew by then.                                 *)
THEOREM NoStaleObject == Spec => []AttachedToThisLaunch
<1>1. StartupInv => AttachedToThisLaunch
  <2> SUFFICES ASSUME StartupInv, NEW p \in Producers, pPc[p] = "streaming", Orderly(p[1])
               PROVE  /\ \A n \in Needs(p) \cup {"ready_sem"} : holds[p][n] = p[1]
                      /\ "shm" \in Needs(p) => ring[holds[p]["shm"]] = "reset"
    BY DEF AttachedToThisLaunch
  <2>1. \A n \in Needs(p) \cup {"ready_sem"} : n \in Names /\ holds[p][n] # 0
    BY Constants DEF StartupInv, InHand
  <2>2. p[1] = launch /\ ring[launch] = "reset" /\ \A n \in Names : holds[p][n] \in {0, launch}
    BY StillActing
  <2> QED
    BY <2>1, <2>2
<1> QED
  BY <1>1, Invariant, PTL

-----------------------------------------------------------------------------
(* The safety half of AllStream *)

(* In an orderly launch no open of a producer fails, and a producer that   *)
(* waits is not waiting for nobody: the token is there, or another has it  *)
(* and is about to put it back.                                            *)
NobodyLeftOut ==
  \A p \in Producers : Orderly(p[1]) =>
    /\ pPc[p] # "failed"
    /\ pPc[p] = "wait" =>
         LET sem == holds[p]["ready_sem"]
         IN tokens[sem] = 1 \/ \E q \in Producers \ {p} : pPc[q] = "relay" /\ holds[q]["ready_sem"] = sem

(* The token of this launch is not lost once it is posted.                 *)
TokenThere ==
  vStep = RunStep => \/ tokens[launch] = 1
                     \/ \E q \in Producers : pPc[q] = "relay" /\ holds[q]["ready_sem"] = launch

NoneFails == \A p \in Producers : Orderly(p[1]) => pPc[p] # "failed"

LEMMA StepTokenThere == StartupInv /\ TokenThere /\ [Next]_vars => TokenThere'
<1> SUFFICES ASSUME StartupInv, TokenThere, [Next]_vars, vStep' = RunStep
             PROVE  \/ tokens'[launch'] = 1
                    \/ \E q \in Producers : pPc'[q] = "relay" /\ holds'[q]["ready_sem"] = launch'
  BY DEF TokenThere
<1> USE DEF PostStep, RunStep, DownStep, estimator, objects, producers
<1>0. /\ launch \in Launches /\ tokens \in [Launches -> 0 .. 1]
      /\ pPc = [p \in Producers |-> pPc[p]] /\ holds = [p \in Producers |-> holds[p]]
      /\ \A p \in Producers : holds[p] = [n \in Names |-> holds[p][n]]
  BY DEF StartupInv, TypeOK
<1>1. CASE Unlink \/ Create \/ SizeRing \/ VinsExit \/ VinsCrash \/ Relaunch
  BY <1>1 DEF Unlink, Create, SizeRing, VinsExit, VinsCrash, Relaunch, RingStep
<1>2. CASE PostReady
  <2>1. tokens[launch] = 0
    BY <1>2 DEF PostReady, StartupInv, OneToken
  <2> QED
    BY <1>0, <1>2, <2>1 DEF PostReady
<1>3. CASE UNCHANGED vars
  BY <1>3 DEF vars, TokenThere
<1>4. ASSUME NEW p \in Producers, Producer(p)
      PROVE  \/ tokens'[launch] = 1
             \/ \E q \in Producers : pPc'[q] = "relay" /\ holds'[q]["ready_sem"] = launch
  <2>0. vStep = RunStep /\ launch' = launch
    BY <1>4 DEF Producer, Connect, OpenReady, WaitReady, Relay, Attach, EndStream, BusError
  <2>1. \/ tokens[launch] = 1
        \/ \E q \in Producers : pPc[q] = "relay" /\ holds[q]["ready_sem"] = launch
    BY <2>0 DEF TokenThere
  <2>2. CASE WaitReady(p)
    <3>1. /\ pPc' = [pPc EXCEPT ![p] = "relay"] /\ holds' = holds /\ pPc[p] = "wait"
          /\ tokens' = [tokens EXCEPT ![holds[p]["ready_sem"]] = @ - 1]
      BY <2>2 DEF WaitReady
    <3>2. CASE holds[p]["ready_sem"] = launch
      BY <1>0, <3>1, <3>2
    <3>3. CASE holds[p]["ready_sem"] # launch
      BY <1>0, <2>1, <3>1, <3>3
    <3> QED
      BY <3>2, <3>3
  <2>3. CASE Relay(p)
    <3>1. /\ pPc' = [pPc EXCEPT ![p] = "attach"] /\ holds' = holds /\ pPc[p] = "relay"
          /\ tokens' = [tokens EXCEPT ![holds[p]["ready_sem"]] = @ + 1]
      BY <2>3 DEF Relay
    <3>2. CASE holds[p]["ready_sem"] = launch
      <4>1. tokens[launch] = 0
        BY <3>1, <3>2 DEF StartupInv, OneToken
      <4> QED
        BY <1>0, <3>1, <3>2, <4>1
    <3>3. CASE holds[p]["ready_sem"] # launch
      BY <1>0, <2>1, <3>1, <3>3
    <3> QED
      BY <3>2, <3>3
  <2>4. CASE OpenReady(p) \/ (\E n \in Needs(p) : Attach(p, n)) \/ EndStream(p) \/ BusError(p)
    <3>1. tokens' = tokens /\ pPc[p] # "relay"
      BY <2>4 DEF OpenReady, Attach, EndStream, BusError
    <3>2. \A q \in Producers : q # p => pPc'[q] = pPc[q] /\ holds'[q] = holds[q]
      BY <1>0, <2>4 DEF OpenReady, Attach, EndStream, BusError, Ends
    <3> QED
      BY <2>1, <3>1, <3>2
  <2> QED
    BY <1>4, <2>2, <2>3, <2>4 DEF Producer, Connect
<1>5. CASE \E p \in Producers : Producer(p)
  BY <1>4, <1>5 DEF Producer, Connect, OpenReady, WaitReady, Relay, Attach, EndStream, BusError
<1> QED
  BY <1>1, <1>2, <1>3, <1>5 DEF Next, VinsSetup

LEMMA StepNoneFails == StartupInv /\ NoneFails /\ [Next]_vars => NoneFails'
<1> SUFFICES ASSUME StartupInv, NoneFails, [Next]_vars,
                    NEW p \in Producers, Orderly(p[1])', pPc'[p] = "failed"
             PROVE  FALSE
  BY DEF NoneFails
<1> USE DEF estimator, objects, producers
<1>0. TypeOK /\ pPc = [q \in Producers |-> pPc[q]]
  BY DEF StartupInv, TypeOK
<1>1. Orderly(p[1])
  BY DEF Orderly, Next, VinsSetup, Unlink, Create, SizeRing, PostReady, VinsExit, VinsCrash, Producer,
         Connect, OpenReady, WaitReady, Relay, Attach, EndStream, BusError, Relaunch, vars
<1>2. pPc[p] # "failed"
  BY <1>1 DEF NoneFails
<1>3. CASE VinsSetup \/ VinsExit \/ VinsCrash \/ Relaunch \/ UNCHANGED vars
  BY <1>0, <1>2, <1>3
  DEF VinsSetup, Unlink, Create, SizeRing, PostReady, VinsExit, VinsCrash, Relaunch, vars
<1>4. ASSUME NEW q \in Producers, Producer(q) PROVE FALSE
  <2>1. p = q
    BY <1>0, <1>2, <1>4 DEF Producer, Connect, OpenReady, WaitReady, Relay, Attach, EndStream, BusError, Ends
  <2>2. CASE OpenReady(p)
    <3>1. p[1] = launch /\ vStep > PostStep /\ bound["ready_sem"] = 0
      <4>1. p[1] = launch /\ vStep > PostStep
        <5>1. launch' = launch /\ vStep' = vStep
          BY <2>2 DEF OpenReady
        <5> QED
          BY <2>2, <1>1 DEF OpenReady, Orderly, StartupInv, TypeOK, PostStep, DownStep
      <4> QED
        BY <1>0, <2>2, <4>1 DEF OpenReady
    <3>2. vStep # DownStep /\ vStep \in 1 .. DownStep
      BY <1>1, <2>2, <3>1 DEF OpenReady, Orderly, StartupInv, NoStrays, TypeOK
    <3>3. Opens[4] = "ready_sem" /\ launch \in Nat \ {0}
      BY <1>0, Constants DEF Opens, TypeOK
    <3>4. vStep > 2 * 4 /\ launch \notin crashed
      BY <1>1, <3>1, <3>2 DEF PostStep, Orderly
    <3>5. bound[Opens[4]] = launch
      BY <3>2, <3>4 DEF StartupInv, SetUp
    <3> QED
      BY <3>1, <3>3, <3>5
  <2>3. CASE \E n \in Needs(p) : Attach(p, n)
    <3>1. PICK n \in Needs(p) : Attach(p, n)
      BY <2>3
    <3>2. n \in Names /\ pPc[p] = "attach" /\ launch \in Nat \ {0}
      BY <1>0, <3>1, Constants DEF Attach, TypeOK
    <3>3. bound[n] # 0
      BY <1>1, <3>2, StillActing
    <3> QED
      BY <1>0, <3>1, <3>2, <3>3 DEF Attach
  <2>4. CASE BusError(p)
    <3>1. pPc[p] = "streaming" /\ "shm" \in Needs(p) /\ ring[holds[p]["shm"]] = "empty"
      BY <2>4 DEF BusError
    <3>2. holds[p]["shm"] # 0 /\ "shm" \in Names
      BY <3>1, Constants DEF StartupInv, InHand
    <3>3. holds[p]["shm"] = launch /\ ring[launch] = "reset"
      BY <1>1, <3>1, <3>2, StillActing
    <3> QED
      BY <3>1, <3>3
  <2>5. CASE WaitReady(p) \/ Relay(p) \/ EndStream(p)
    BY <1>0, <2>5 DEF WaitReady, Relay, EndStream, Ends
  <2> QED
    BY <1>4, <2>1, <2>2, <2>3, <2>4, <2>5 DEF Producer, Connect
<1> QED
  BY <1>3, <1>4 DEF Next

(* Whatever names, tokens and producers earlier launches left behind, in a *)
(* launch whose producers start after sem_post and whose estimator lives,  *)
(* IpcManager's opens succeed and the one token reaches both producers:    *)
(* neither is left waiting in sem_wait(ready_sem) with the token lost.     *)
THEOREM TokenReachesBoth == Spec => []NobodyLeftOut
<1>1. Init => TokenThere /\ NoneFails
  BY DEF Init, Started, TokenThere, NoneFails, RunStep
<1>2. Spec => [](TokenThere /\ NoneFails)
  BY <1>1, StepTokenThere, StepNoneFails, Invariant, PTL DEF Spec
<1>3. StartupInv /\ TokenThere /\ NoneFails => NobodyLeftOut
  <2> SUFFICES ASSUME StartupInv, TokenThere, NoneFails, NEW p \in Producers, Orderly(p[1]), pPc[p] = "wait"
               PROVE  \/ tokens[holds[p]["ready_sem"]] = 1
                      \/ \E q \in Producers \ {p} :
                           pPc[q] = "relay" /\ holds[q]["ready_sem"] = holds[p]["ready_sem"]
    BY DEF NobodyLeftOut, NoneFails
  <2>1. holds[p]["ready_sem"] # 0
    BY DEF StartupInv, InHand
  <2>2. vStep = RunStep /\ holds[p]["ready_sem"] = launch
    BY <2>1, StillActing, Constants
  <2> QED
    BY <2>2 DEF TokenThere
<1> QED
  BY <1>2, <1>3, Invariant, PTL
=============================================================================
