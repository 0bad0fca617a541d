---------------------------- MODULE VinsMain_proofs ----------------------------
(***************************************************************************)
(* Proofs about what main() runs on.  VinsMain: for every number of frames *)
(* and samples, every period, every size of the message queue and every    *)
(* time of SIGINT.  Config: for every number of cameras and every set of   *)
(* faults in the files main() reads the options from.  InitialProblem: the *)
(* poses, rows, factors and blocks of the dynamic initialiser, whatever    *)
(* the database holds.                                                     *)
(***************************************************************************)
EXTENDS VinsMain, Config, InitialProblem, Subsequences_proofs

LEMMA ConstantTypes ==
  /\ Packets \in Nat /\ ImuSamples \in Nat /\ MqMax \in Nat
BY VinsMainAssumption DEF Packets

-----------------------------------------------------------------------------
(* Types *)

(* Only a pair that was popped is worked on.                               *)
PairTaken == pc \in {"catchup", "drain", "feed"} => pair \in (1 .. Packets) \X (1 .. Packets)

TypeInv == TypeOK /\ PairTaken

LEMMA InitType == Init => TypeInv
<1> SUFFICES ASSUME Init PROVE TypeInv
  OBVIOUS
<1> USE DEF Init
<1>1. /\ stop_flag \in BOOLEAN
      /\ camPc \in {"check", "receive", "done"} /\ imuPc \in {"check", "receive", "done"}
      /\ pc \in {"idle", "catchup", "drain", "feed", "join", "done"}
  OBVIOUS
<1>2. sent \in 0 .. Packets /\ got \in Seq(1 .. Packets)
  BY ConstantTypes DEF Stream!Init
<1>3. /\ imuSent \in 0 .. ImuSamples /\ mq \in Seq(1 .. ImuSamples) /\ Len(mq) <= MqMax
      /\ imu_queue \in Seq(1 .. ImuSamples) /\ last_imu_time \in 0 .. ImuSamples
  BY ConstantTypes
<1>4. popped \in 0 .. Len(got)
  BY DEF Stream!Init
<1>5. /\ pair \in (1 .. Packets \cup {1}) \X (1 .. Packets \cup {1})
      /\ fed \in Seq((1 .. Packets) \X (1 .. Packets)) /\ PairTaken
  BY DEF PairTaken
<1> QED
  BY <1>1, <1>2, <1>3, <1>4, <1>5 DEF TypeInv, TypeOK

(* What the camera channel hands over is a packet number.                  *)
LEMMA ReceiveType ==
  ASSUME TypeOK, Stream!Receive
  PROVE  /\ sent' = sent /\ got' \in Seq(1 .. Packets) /\ Len(got') = Len(got) + 1
<1>1. PICK k \in Stream!LastGot + 1 .. sent : got' = Append(got, k)
  BY DEF Stream!Receive
<1>2. Stream!LastGot \in Nat
  <2>1. CASE got = <<>>
    BY <2>1 DEF Stream!LastGot
  <2>2. CASE got # <<>>
    <3>1. Len(got) \in 1 .. Len(got)
      BY <2>2, EmptySeq, LenProperties DEF TypeOK
    <3>2. got[Len(got)] \in 1 .. Packets
      BY <3>1, ElementOfSeq DEF TypeOK
    <3> QED
      BY <2>2, <3>2 DEF Stream!LastGot
  <2> QED
    BY <2>1, <2>2
<1>3. k \in 1 .. Packets
  BY <1>2, ConstantTypes DEF TypeOK
<1> QED
  BY <1>1, <1>3, AppendProperties DEF TypeOK, Stream!Receive

LEMMA StepType == TypeInv /\ [Next]_vars => TypeInv'
<1> SUFFICES ASSUME TypeInv, [Next]_vars PROVE TypeInv'
  OBVIOUS
<1> USE ConstantTypes DEF TypeInv, TypeOK, PairTaken, camVars, imuVars, mainVars
<1>1. CASE ImuSend
  <2>1. imuSent' \in 1 .. ImuSamples /\ mq' = Append(mq, imuSent') /\ Len(mq) < MqMax
    BY <1>1 DEF ImuSend
  <2>2. mq' \in Seq(1 .. ImuSamples) /\ Len(mq') = Len(mq) + 1
    BY <2>1, AppendProperties
  <2>3. Len(mq') <= MqMax
    BY <2>1, <2>2, LenProperties
  <2> QED
    BY <1>1, <2>1, <2>2, <2>3 DEF ImuSend
<1>2. CASE CamSend
  <2>1. sent' \in 0 .. Packets /\ got' = got
    BY <1>2 DEF CamSend, Stream!Send
  <2> QED
    BY <1>2, <2>1 DEF CamSend
<1>3. CASE SignalHandler
  BY <1>3 DEF SignalHandler
<1>4. CASE ImuCheck \/ ImuTimeout
  BY <1>4 DEF ImuCheck, ImuTimeout
<1>5. CASE ImuReceive
  <2>1. /\ Head(mq) \in 1 .. ImuSamples /\ mq' \in Seq(1 .. ImuSamples) /\ Len(mq') = Len(mq) - 1
        /\ imu_queue' \in Seq(1 .. ImuSamples)
    BY <1>5, HeadTailProperties, AppendProperties DEF ImuReceive
  <2>2. Len(mq') <= MqMax
    BY <2>1, LenProperties
  <2> QED
    BY <1>5, <2>1, <2>2 DEF ImuReceive
<1>6. CASE CamCheck \/ CamTimeout
  BY <1>6 DEF CamCheck, CamTimeout
<1>7. CASE CamReceive
  <2>1. sent' = sent /\ got' \in Seq(1 .. Packets) /\ Len(got') = Len(got) + 1
    BY <1>7, ReceiveType DEF CamReceive
  <2>2. popped \in 0 .. Len(got')
    BY <2>1, LenProperties
  <2> QED
    BY <1>7, <2>1, <2>2 DEF CamReceive
<1>8. CASE MainStop \/ DrainEnd \/ Join
  BY <1>8 DEF MainStop, DrainEnd, Join
<1>9. CASE TakePair
  <2>1. /\ Len(got) - popped >= 2 /\ popped' = popped + 2 /\ got' = got
        /\ \/ pc' = "catchup" /\ pair' = <<got[popped + 1], got[popped + 2]>>
           \/ pc' = "idle" /\ pair' = pair
    BY <1>9 DEF TakePair
  <2>2. popped \in Nat /\ Len(got) \in Nat
    BY LenProperties
  <2>3. popped + 1 \in 1 .. Len(got) /\ popped + 2 \in 1 .. Len(got)
    BY <2>1, <2>2
  <2>4. got[popped + 1] \in 1 .. Packets /\ got[popped + 2] \in 1 .. Packets
    BY <2>3, ElementOfSeq
  <2>5. popped' \in 0 .. Len(got')
    BY <2>1, <2>2
  <2>6. pc' \in {"catchup", "idle"}
    BY <2>1
  <2>7. CASE pc' = "catchup"
    <3>1. pair' = <<got[popped + 1], got[popped + 2]>>
      BY <2>1, <2>7
    <3>2. pair' \in (1 .. Packets) \X (1 .. Packets)
      BY <2>4, <3>1
    <3>3. pair' \in (1 .. Packets \cup {1}) \X (1 .. Packets \cup {1})
      BY <2>4, <3>1
    <3> QED
      BY <1>9, <2>5, <2>6, <3>2, <3>3 DEF TakePair
  <2>8. CASE pc' = "idle"
    <3>1. pair' \in (1 .. Packets \cup {1}) \X (1 .. Packets \cup {1})
      <4>1. CASE pair' = pair
        BY <4>1
      <4>2. CASE pair' # pair
        BY <2>1, <2>8, <4>2
      <4> QED
        BY <4>1, <4>2
    <3> QED
      BY <1>9, <2>5, <2>8, <3>1 DEF TakePair
  <2> QED
    BY <2>6, <2>7, <2>8
<1>10. CASE CatchUp
  BY <1>10 DEF CatchUp
<1>11. CASE DrainOne
  <2>1. Head(imu_queue) \in 1 .. ImuSamples /\ Tail(imu_queue) \in Seq(1 .. ImuSamples)
    BY <1>11, HeadTailProperties DEF DrainOne
  <2> QED
    BY <1>11, <2>1 DEF DrainOne
<1>12. CASE FeedCamera
  <2>1. fed' \in Seq((1 .. Packets) \X (1 .. Packets))
    BY <1>12, AppendProperties DEF FeedCamera
  <2> QED
    BY <1>12, <2>1 DEF FeedCamera
<1>13. CASE UNCHANGED vars
  BY <1>13 DEF vars
<1> QED
  BY <1>1, <1>2, <1>3, <1>4, <1>5, <1>6, <1>7, <1>8, <1>9, <1>10, <1>11, <1>12, <1>13
     DEF Next, ImuThread, CamThread, MainLoop

LEMMA TypeInvariant == Spec => []TypeInv
BY InitType, StepType, PTL DEF Spec

(* The bounded message queue stays within mq_maxmsg, the main loop never   *)
(* pops more packets than arrived, and what it works on and feeds are      *)
(* packets that were sent.                                                 *)
THEOREM TypeCorrect == Spec => []TypeOK
<1>1. TypeInv => TypeOK
  BY DEF TypeInv
<1> QED
  BY <1>1, TypeInvariant, PTL

-----------------------------------------------------------------------------
(* The IMU samples on their way *)

(* ImuStreamIntact queue by queue.                                         *)
InLine ==
  /\ Len(imu_queue) + Len(mq) = imuSent - last_imu_time
  /\ \A i \in 1 .. Len(imu_queue) : imu_queue[i] = last_imu_time + i
  /\ \A i \in 1 .. Len(mq) : mq[i] = last_imu_time + Len(imu_queue) + i

LEMMA QueueTypes ==
  ASSUME TypeOK
  PROVE  /\ imuSent \in Nat /\ last_imu_time \in Nat
         /\ Len(imu_queue) \in Nat /\ Len(mq) \in Nat
BY ConstantTypes, LenProperties DEF TypeOK

LEMMA StepInLine == TypeOK /\ InLine /\ [Next]_vars => InLine'
<1> SUFFICES ASSUME TypeOK, InLine, [Next]_vars PROVE InLine'
  OBVIOUS
<1>0. /\ imuSent \in Nat /\ last_imu_time \in Nat /\ Len(imu_queue) \in Nat /\ Len(mq) \in Nat
      /\ imu_queue \in Seq(1 .. ImuSamples) /\ mq \in Seq(1 .. ImuSamples)
  BY QueueTypes DEF TypeOK
<1>1. CASE UNCHANGED <<imuSent, mq, imu_queue, last_imu_time>>
  BY <1>1 DEF InLine
<1>2. CASE ImuSend
  <2>1. /\ imuSent' = imuSent + 1 /\ mq' = Append(mq, imuSent')
        /\ imuSent' \in 1 .. ImuSamples /\ UNCHANGED <<imu_queue, last_imu_time>>
    BY <1>0, <1>2, ConstantTypes DEF ImuSend, mainVars
  <2>2. /\ Len(mq') = Len(mq) + 1 /\ \A i \in 1 .. Len(mq) : mq'[i] = mq[i]
        /\ mq'[Len(mq) + 1] = imuSent + 1
    BY <1>0, <2>1, AppendProperties
  <2>3. imuSent + 1 = last_imu_time + Len(imu_queue) + (Len(mq) + 1)
    BY <1>0 DEF InLine
  <2>4. \A i \in 1 .. Len(mq') : mq'[i] = last_imu_time + Len(imu_queue) + i
    <3>1. \A i \in 1 .. Len(mq') : i \in 1 .. Len(mq) \/ i = Len(mq) + 1
      BY <1>0, <2>2
    <3> QED
      BY <2>2, <2>3, <3>1 DEF InLine
  <2>5. Len(imu_queue) + Len(mq') = imuSent' - last_imu_time
    BY <1>0, <2>1, <2>2 DEF InLine
  <2> QED
    BY <2>1, <2>4, <2>5 DEF InLine
<1>3. CASE ImuReceive
  <2>1. /\ mq # <<>> /\ mq' = Tail(mq) /\ imu_queue' = Append(imu_queue, Head(mq))
        /\ UNCHANGED <<imuSent, last_imu_time>>
    BY <1>3 DEF ImuReceive, mainVars
  <2>2. /\ Len(mq) \in Nat \ {0} /\ Len(mq') = Len(mq) - 1
        /\ \A i \in 1 .. Len(mq') : mq'[i] = mq[i + 1]
        /\ Head(mq) = mq[1] /\ Head(mq) \in 1 .. ImuSamples
    <3>1. Len(mq) # 0
      BY <1>0, <2>1, EmptySeq
    <3>2. /\ Len(mq') = Len(mq) - 1 /\ Head(mq) \in 1 .. ImuSamples
          /\ \A i \in 1 .. Len(mq') : mq'[i] = mq[i + 1]
      BY <1>0, <2>1, HeadTailProperties
    <3>3. Head(mq) = mq[1]
      OBVIOUS
    <3> QED
      BY <1>0, <3>1, <3>2, <3>3
  <2>3. /\ Len(imu_queue') = Len(imu_queue) + 1
        /\ \A i \in 1 .. Len(imu_queue) : imu_queue'[i] = imu_queue[i]
        /\ imu_queue'[Len(imu_queue) + 1] = mq[1]
    BY <1>0, <2>1, <2>2, AppendProperties
  <2>4. mq[1] = last_imu_time + Len(imu_queue) + 1
    BY <1>0, <2>2 DEF InLine
  <2>5. \A i \in 1 .. Len(imu_queue') : imu_queue'[i] = last_imu_time + i
    <3>1. \A i \in 1 .. Len(imu_queue') : i \in 1 .. Len(imu_queue) \/ i = Len(imu_queue) + 1
      BY <1>0, <2>3
    <3>2. last_imu_time + Len(imu_queue) + 1 = last_imu_time + (Len(imu_queue) + 1)
      BY <1>0
    <3> QED
      BY <2>3, <2>4, <3>1, <3>2 DEF InLine
  <2>6. ASSUME NEW i \in 1 .. Len(mq') PROVE mq'[i] = last_imu_time + Len(imu_queue') + i
    <3>1. i + 1 \in 1 .. Len(mq)
      BY <1>0, <2>2
    <3>2. mq'[i] = last_imu_time + Len(imu_queue) + (i + 1)
      BY <2>2, <3>1 DEF InLine
    <3> QED
      BY <1>0, <2>3, <3>2
  <2>7. Len(imu_queue') + Len(mq') = imuSent' - last_imu_time'
    <3>1. Len(imu_queue) + Len(mq) = imuSent - last_imu_time
      BY DEF InLine
    <3>2. \A q, m \in Nat : (q + 1) + (m - 1) = q + m
      OBVIOUS
    <3> QED
      BY <1>0, <2>1, <2>2, <2>3, <3>1, <3>2
  <2> QED
    BY <2>1, <2>5, <2>6, <2>7 DEF InLine
<1>4. CASE DrainOne
  <2>1. /\ imu_queue # <<>> /\ imu_queue' = Tail(imu_queue) /\ last_imu_time' = Head(imu_queue)
        /\ UNCHANGED <<imuSent, mq>>
    BY <1>4 DEF DrainOne, imuVars
  <2>2. /\ Len(imu_queue) \in Nat \ {0} /\ Len(imu_queue') = Len(imu_queue) - 1
        /\ \A i \in 1 .. Len(imu_queue') : imu_queue'[i] = imu_queue[i + 1]
        /\ Head(imu_queue) = imu_queue[1]
    BY <1>0, <2>1, EmptySeq, HeadTailProperties
  <2>3. last_imu_time' = last_imu_time + 1
    BY <1>0, <2>1, <2>2 DEF InLine
  <2>4. ASSUME NEW i \in 1 .. Len(imu_queue') PROVE imu_queue'[i] = last_imu_time' + i
    <3>1. i + 1 \in 1 .. Len(imu_queue)
      BY <1>0, <2>2
    <3>2. imu_queue'[i] = last_imu_time + (i + 1)
      BY <2>2, <3>1 DEF InLine
    <3> QED
      BY <1>0, <2>3, <3>2
  <2>5. last_imu_time + Len(imu_queue) = last_imu_time' + Len(imu_queue')
    BY <1>0, <2>2, <2>3
  <2>6. \A i \in 1 .. Len(mq') : mq'[i] = last_imu_time' + Len(imu_queue') + i
    BY <2>1, <2>5 DEF InLine
  <2>7. Len(imu_queue') + Len(mq') = imuSent' - last_imu_time'
    BY <1>0, <2>1, <2>2, <2>3 DEF InLine
  <2> QED
    BY <2>4, <2>6, <2>7 DEF InLine
<1>5. CASE CamSend \/ SignalHandler \/ ImuCheck \/ ImuTimeout \/ CamThread
  BY <1>1, <1>5 DEF CamSend, SignalHandler, ImuCheck, ImuTimeout, CamThread, CamCheck, CamReceive,
                    CamTimeout, imuVars, mainVars
<1>6. CASE MainStop \/ TakePair \/ CatchUp \/ DrainEnd \/ FeedCamera \/ Join
  BY <1>1, <1>6 DEF MainStop, TakePair, CatchUp, DrainEnd, FeedCamera, Join, imuVars
<1>7. CASE UNCHANGED vars
  BY <1>1, <1>7 DEF vars, imuVars, mainVars
<1> QED
  BY <1>2, <1>3, <1>4, <1>5, <1>6, <1>7 DEF Next, ImuThread, MainLoop

LEMMA InLineIsIntact == TypeOK /\ InLine => ImuStreamIntact
<1> SUFFICES ASSUME TypeOK, InLine PROVE ImuStreamIntact
  OBVIOUS
<1> DEFINE waiting == imu_queue \o mq
<1>0. /\ imuSent \in Nat /\ last_imu_time \in Nat /\ Len(imu_queue) \in Nat /\ Len(mq) \in Nat
      /\ imu_queue \in Seq(1 .. ImuSamples) /\ mq \in Seq(1 .. ImuSamples)
  BY QueueTypes DEF TypeOK
<1>1. /\ Len(waiting) = Len(imu_queue) + Len(mq)
      /\ \A i \in 1 .. Len(imu_queue) + Len(mq) :
           waiting[i] = IF i <= Len(imu_queue) THEN imu_queue[i] ELSE mq[i - Len(imu_queue)]
  BY <1>0, ConcatProperties
<1>2. ASSUME NEW i \in 1 .. Len(waiting) PROVE waiting[i] = last_imu_time + i
  <2>1. CASE i <= Len(imu_queue)
    BY <1>0, <1>1, <2>1 DEF InLine
  <2>2. CASE ~(i <= Len(imu_queue))
    <3>1. i - Len(imu_queue) \in 1 .. Len(mq) /\ waiting[i] = mq[i - Len(imu_queue)]
      BY <1>0, <1>1, <2>2
    <3>2. waiting[i] = last_imu_time + Len(imu_queue) + (i - Len(imu_queue))
      BY <3>1 DEF InLine
    <3> QED
      BY <1>0, <1>1, <3>2
  <2> QED
    BY <2>1, <2>2
<1>3. Len(waiting) = imuSent - last_imu_time
  BY <1>1 DEF InLine
<1> QED
  BY <1>2, <1>3 DEF ImuStreamIntact

(* Whatever the threads interleave, however small the message queue and    *)
(* whenever SIGINT comes, feed_measurement_imu gets every sample once and  *)
(* in order, up to those that are still queued.                            *)
THEOREM ImuArrivesInOrder == Spec => []ImuStreamIntact
<1>1. Init => InLine
  BY DEF Init, InLine
<1>2. Spec => []InLine
  BY <1>1, StepInLine, TypeCorrect, PTL DEF Spec
<1> QED
  BY <1>2, InLineIsIntact, TypeCorrect, PTL

-----------------------------------------------------------------------------
(* The images on their way *)

Working == pc \in {"catchup", "drain", "feed"}

(* The pair in hand is the last one taken, the pairs handed on were taken  *)
(* before it.                                                              *)
Rising == \A i, j \in 1 .. Len(got) : i < j => got[i] < got[j]

Taken ==
  Working => /\ popped >= 2 /\ pair = <<got[popped - 1], got[popped]>>
             /\ CamTime(got[popped - 1]) = CamTime(got[popped])

HandedOn ==
  \A n \in 1 .. Len(fed) :
    /\ CamOf(fed[n][1]) = 0 /\ fed[n][2] = fed[n][1] + 1
    /\ \E i \in 1 .. Len(got) : /\ i <= popped /\ fed[n][2] = got[i]
                                /\ Working => i <= popped - 2

OrderInv == Rising /\ Taken /\ HandedOn /\ FramesInOrder

(* Two packets of one moment are a left and a right image, and a pair that *)
(* begins behind another one is of a later moment.                         *)
LEMMA TimesAreFrames ==
  ASSUME NEW x \in Nat, NEW y \in Nat
  PROVE  /\ x * Period = y * Period => x = y
         /\ x < y => x * Period < y * Period
<1>1. Period \in Nat /\ Period > 0
  BY VinsMainAssumption
<1>2. ASSUME NEW a \in Nat, NEW b \in Nat, a < b PROVE a * Period < b * Period
  <2> DEFINE d == b - a
  <2>1. d \in Nat /\ d >= 1 /\ b = a + d
    BY <1>2
  <2>2. b * Period = a * Period + d * Period
    <3> HIDE DEF d
    <3> QED
      BY <1>1, <2>1
  <2>3. d * Period >= Period
    <3> HIDE DEF d
    <3> QED
      BY <1>1, <2>1
  <2>4. a * Period \in Nat /\ d * Period \in Nat
    <3> HIDE DEF d
    <3> QED
      BY <1>1, <2>1
  <2> QED
    BY <1>1, <2>2, <2>3, <2>4
<1>3. x * Period \in Nat /\ y * Period \in Nat
  BY <1>1
<1>4. x = y \/ x < y \/ y < x
  OBVIOUS
<1> QED
  BY <1>2, <1>3, <1>4

LEMMA StereoPairs ==
  ASSUME NEW a \in Nat, NEW b \in Nat, a < b
  PROVE  /\ CamTime(a) = CamTime(b) => CamOf(a) = 0 /\ b = a + 1
         /\ CamOf(a) = 0 /\ a + 1 < b => CamTime(a) < CamTime(b)
<1>1. FrameOf(a) \in Nat /\ FrameOf(b) \in Nat
  BY DEF FrameOf
<1>2. FrameOf(a) = FrameOf(b) => CamOf(a) = 0 /\ b = a + 1
  BY DEF FrameOf, CamOf
<1>3. CamOf(a) = 0 /\ a + 1 < b => FrameOf(a) < FrameOf(b)
  BY DEF FrameOf, CamOf
<1> QED
  BY <1>1, <1>2, <1>3, TimesAreFrames DEF CamTime

LEMMA StepOrder == TypeOK /\ OrderInv /\ [Next]_vars => OrderInv'
<1> SUFFICES ASSUME TypeOK, OrderInv, [Next]_vars PROVE OrderInv'
  OBVIOUS
<1>0. /\ got \in Seq(1 .. Packets) /\ Len(got) \in Nat /\ popped \in 0 .. Len(got) /\ popped \in Nat
      /\ fed \in Seq((1 .. Packets) \X (1 .. Packets)) /\ Len(fed) \in Nat
      /\ \A i \in 1 .. Len(got) : got[i] \in Nat
  <2>1. \A i \in 1 .. Len(got) : got[i] \in 1 .. Packets
    BY ElementOfSeq DEF TypeOK
  <2> QED
    BY <2>1, ConstantTypes, LenProperties DEF TypeOK
<1>1. CASE /\ UNCHANGED <<got, popped, fed, pair>> /\ (Working' <=> Working)
           /\ pc' = "feed" => stop_flag' \/ CaughtUp'
  BY <1>1 DEF OrderInv, Rising, Taken, HandedOn, FramesInOrder
<1>2. CASE ImuSend \/ CamSend \/ SignalHandler \/ ImuThread \/ CamCheck \/ CamTimeout \/ UNCHANGED vars
  <2>1. UNCHANGED <<got, popped, fed, pair, pc, last_imu_time>> /\ (stop_flag => stop_flag')
    BY <1>2 DEF ImuSend, CamSend, Stream!Send, SignalHandler, ImuThread, ImuCheck, ImuReceive, ImuTimeout,
                CamCheck, CamTimeout, vars, camVars, mainVars
  <2> QED
    BY <1>1, <2>1 DEF Working, OrderInv, FramesInOrder, CaughtUp
<1>3. CASE CamReceive
  <2>1. PICK k \in Stream!LastGot + 1 .. sent : got' = Append(got, k)
    BY <1>3 DEF CamReceive, Stream!Receive
  <2>2. UNCHANGED <<popped, fed, pair, pc, last_imu_time, stop_flag>>
    BY <1>3 DEF CamReceive, mainVars
  <2>3. got' \in Seq(1 .. Packets) /\ Len(got') = Len(got) + 1
    BY <1>3, ReceiveType DEF CamReceive
  <2>4. /\ \A i \in 1 .. Len(got) : got'[i] = got[i]
        /\ got'[Len(got) + 1] = k
    <3>1. k \in Int /\ got \in Seq(Int)
      <4>1. sent \in Int
        BY ConstantTypes DEF TypeOK
      <4>2. Stream!LastGot \in Int
        <5>1. CASE got = <<>>
          BY <5>1 DEF Stream!LastGot
        <5>2. CASE got # <<>>
          <6>1. Len(got) \in 1 .. Len(got)
            BY <1>0, <5>2, EmptySeq
          <6> QED
            BY <1>0, <5>2, <6>1 DEF Stream!LastGot
        <5> QED
          BY <5>1, <5>2
      <4>3. k \in Int
        BY <2>1, <4>1, <4>2
      <4> QED
        BY <1>0, <4>3, ConstantTypes
    <3> QED
      BY <2>1, <3>1, AppendProperties
  <2>5. \A i \in 1 .. Len(got) : got[i] < k
    <3> SUFFICES ASSUME NEW i \in 1 .. Len(got) PROVE got[i] < k
      OBVIOUS
    <3>1. Len(got) \in 1 .. Len(got) /\ got # <<>>
      BY <1>0, EmptySeq
    <3>2. Stream!LastGot = got[Len(got)] /\ got[Len(got)] \in Nat
      BY <1>0, <3>1 DEF Stream!LastGot
    <3>3. got[i] <= got[Len(got)]
      BY <1>0, <3>1 DEF OrderInv, Rising
    <3>4. k > got[Len(got)] /\ k \in Int
      BY <2>1, <3>2, ConstantTypes DEF TypeOK
    <3> QED
      BY <1>0, <3>2, <3>3, <3>4
  <2>6. Rising'
    <3> SUFFICES ASSUME NEW i \in 1 .. Len(got'), NEW j \in 1 .. Len(got'), i < j PROVE got'[i] < got'[j]
      BY DEF Rising
    <3>1. i \in Int /\ j \in Int /\ i >= 1 /\ j <= Len(got) + 1
      BY <2>3
    <3>2. i \in 1 .. Len(got) /\ (j \in 1 .. Len(got) \/ j = Len(got) + 1)
      <4>1. \A L \in Nat, a, b \in Int :
              a >= 1 /\ a < b /\ b <= L + 1 => a \in 1 .. L /\ (b \in 1 .. L \/ b = L + 1)
        OBVIOUS
      <4>2. Len(got) \in Nat
        BY <1>0
      <4> QED
        BY <3>1, <4>1, <4>2
    <3> QED
      BY <1>0, <2>4, <2>5, <3>2 DEF OrderInv, Rising
  <2>7. Taken'
    <3> SUFFICES ASSUME Working' PROVE popped' >= 2 /\ pair' = <<got'[popped' - 1], got'[popped']>>
                                       /\ CamTime(got'[popped' - 1]) = CamTime(got'[popped'])
      BY DEF Taken
    <3>1. Working
      BY <2>2 DEF Working
    <3>2. popped - 1 \in 1 .. Len(got) /\ popped \in 1 .. Len(got)
      BY <1>0, <3>1 DEF OrderInv, Taken
    <3> QED
      BY <2>2, <2>4, <3>1, <3>2 DEF OrderInv, Taken
  <2>8. HandedOn'
    BY <1>0, <2>2, <2>3, <2>4 DEF OrderInv, HandedOn, Working
  <2> QED
    BY <2>2, <2>6, <2>7, <2>8 DEF OrderInv, FramesInOrder, CaughtUp
<1>4. CASE TakePair
  <2>1. /\ pc = "idle" /\ Len(got) - popped >= 2 /\ popped' = popped + 2
        /\ UNCHANGED <<got, fed, last_imu_time, stop_flag>>
        /\ \/ /\ CamTime(got[popped + 1]) = CamTime(got[popped + 2])
              /\ pc' = "catchup" /\ pair' = <<got[popped + 1], got[popped + 2]>>
           \/ UNCHANGED <<pc, pair>>
    BY <1>4 DEF TakePair, SameTime, camVars
  <2>2. Rising'
    BY <2>1 DEF OrderInv, Rising
  <2>3. Taken'
    <3>1. popped' - 1 = popped + 1
      BY <1>0, <2>1
    <3> QED
      BY <1>0, <2>1, <3>1 DEF Taken, Working
  <2>4. HandedOn'
    BY <1>0, <2>1 DEF OrderInv, HandedOn, Working
  <2>5. FramesInOrder'
    BY <2>1 DEF OrderInv, FramesInOrder
  <2> QED
    BY <2>2, <2>3, <2>4, <2>5 DEF OrderInv
<1>5. CASE CatchUp
  <2>1. /\ pc = "catchup" /\ pc' \in {"feed", "drain"} /\ UNCHANGED <<got, popped, fed, pair, stop_flag, last_imu_time>>
        /\ pc' = "feed" => stop_flag \/ CaughtUp
    BY <1>5 DEF CatchUp, camVars
  <2> QED
    BY <1>1, <2>1 DEF Working, CaughtUp
<1>6. CASE DrainOne \/ DrainEnd
  <2>1. pc = "drain" /\ pc' \in {"drain", "catchup"} /\ UNCHANGED <<got, popped, fed, pair>>
    BY <1>6 DEF DrainOne, DrainEnd, camVars
  <2> QED
    BY <1>1, <2>1 DEF Working
<1>7. CASE MainStop \/ Join
  <2>1. pc \in {"idle", "join"} /\ pc' \in {"join", "done"} /\ UNCHANGED <<got, popped, fed, pair>>
    BY <1>7 DEF MainStop, Join, camVars
  <2> QED
    BY <1>1, <2>1 DEF Working
<1>8. CASE FeedCamera
  <2>1. /\ pc = "feed" /\ pc' = "idle" /\ fed' = Append(fed, pair) /\ UNCHANGED <<got, popped>>
    BY <1>8 DEF FeedCamera, camVars
  <2>2. /\ popped >= 2 /\ pair = <<got[popped - 1], got[popped]>>
        /\ CamTime(got[popped - 1]) = CamTime(got[popped])
    BY <2>1 DEF OrderInv, Taken, Working
  <2>3. popped - 1 \in 1 .. Len(got) /\ popped \in 1 .. Len(got) /\ popped - 1 < popped
    BY <1>0, <2>2
  <2>4. got[popped - 1] < got[popped] /\ got[popped - 1] \in Nat /\ got[popped] \in Nat
    BY <1>0, <2>3 DEF OrderInv, Rising
  <2>5. CamOf(got[popped - 1]) = 0 /\ got[popped] = got[popped - 1] + 1
    BY <2>2, <2>4, StereoPairs
  <2>6. pair \in (1 .. Packets) \X (1 .. Packets)
    <3>1. got[popped - 1] \in 1 .. Packets /\ got[popped] \in 1 .. Packets
      BY <2>3, ElementOfSeq DEF TypeOK
    <3> QED
      BY <2>2, <3>1
  <2>7. /\ Len(fed') = Len(fed) + 1 /\ \A n \in 1 .. Len(fed) : fed'[n] = fed[n]
        /\ fed'[Len(fed) + 1] = <<got[popped - 1], got[popped]>>
    BY <1>0, <2>1, <2>2, <2>6, AppendProperties
  <2>8. \A n \in 1 .. Len(fed') : n \in 1 .. Len(fed) \/ n = Len(fed) + 1
    BY <1>0, <2>7
  <2>9. ASSUME NEW m \in 1 .. Len(fed) PROVE CamTime(fed[m][1]) < CamTime(got[popped - 1])
    <3>1. CamOf(fed[m][1]) = 0 /\ fed[m][2] = fed[m][1] + 1
      BY DEF OrderInv, HandedOn
    <3>2. PICK i \in 1 .. Len(got) : i <= popped - 2 /\ fed[m][2] = got[i]
      BY <2>1 DEF OrderInv, HandedOn, Working
    <3>3. got[i] < got[popped - 1]
      BY <1>0, <2>3, <3>2 DEF OrderInv, Rising
    <3>4. fed[m] \in (1 .. Packets) \X (1 .. Packets)
      BY <1>0, ElementOfSeq
    <3>5. fed[m][1] \in Nat
      BY <3>4, ConstantTypes
    <3>6. fed[m][1] + 1 < got[popped - 1]
      BY <3>1, <3>2, <3>3
    <3>7. fed[m][1] < got[popped - 1]
      BY <2>4, <3>5, <3>6
    <3> QED
      BY <2>4, <3>1, <3>5, <3>6, <3>7, StereoPairs
  <2>10. FramesInOrder'
    <3>1. ASSUME NEW n \in 1 .. Len(fed') PROVE CamOf(fed'[n][1]) = 0 /\ fed'[n][2] = fed'[n][1] + 1
      <4>1. CASE n \in 1 .. Len(fed)
        BY <2>7, <4>1 DEF OrderInv, FramesInOrder
      <4>2. CASE n = Len(fed) + 1
        BY <2>5, <2>7, <4>2
      <4> QED
        BY <2>8, <4>1, <4>2
    <3>2. ASSUME NEW m \in 1 .. Len(fed'), NEW n \in 1 .. Len(fed'), m < n
          PROVE  CamTime(fed'[m][1]) < CamTime(fed'[n][1])
      <4>1. m \in 1 .. Len(fed)
        BY <1>0, <2>7, <3>2
      <4>2. CASE n \in 1 .. Len(fed)
        BY <2>7, <3>2, <4>1, <4>2 DEF OrderInv, FramesInOrder
      <4>3. CASE n = Len(fed) + 1
        BY <2>7, <2>9, <4>1, <4>3
      <4> QED
        BY <2>8, <4>2, <4>3
    <3> QED
      BY <2>1, <3>1, <3>2 DEF FramesInOrder
  <2>11. HandedOn'
    <3> SUFFICES ASSUME NEW n \in 1 .. Len(fed')
                 PROVE  /\ CamOf(fed'[n][1]) = 0 /\ fed'[n][2] = fed'[n][1] + 1
                        /\ \E i \in 1 .. Len(got') : i <= popped' /\ fed'[n][2] = got'[i]
      BY <2>1 DEF HandedOn, Working
    <3>1. CASE n \in 1 .. Len(fed)
      BY <2>1, <2>7, <3>1 DEF OrderInv, HandedOn
    <3>2. CASE n = Len(fed) + 1
      BY <2>1, <2>3, <2>5, <2>7, <3>2
    <3> QED
      BY <2>8, <3>1, <3>2
  <2> QED
    BY <2>1, <2>10, <2>11 DEF OrderInv, Rising, Taken, Working
<1> QED
  BY <1>2, <1>3, <1>4, <1>5, <1>6, <1>7, <1>8 DEF Next, CamThread, MainLoop

(* Whatever packets the camera channel loses and whenever SIGINT comes,    *)
(* main() calls feed_measurement_camera with the two images of one moment, *)
(* in the order of time and never twice with one, after the IMU data they  *)
(* need: the order of images that InOrderSpec of SlidingWindow assumes.    *)
THEOREM FramesArriveInOrder == Spec => []FramesInOrder
<1>1. Init => OrderInv
  BY DEF Init, Stream!Init, OrderInv, Rising, Taken, HandedOn, FramesInOrder, Working
<1>2. OrderInv => FramesInOrder
  BY DEF OrderInv
<1> QED
  BY <1>1, <1>2, StepOrder, TypeCorrect, PTL DEF Spec

-----------------------------------------------------------------------------
(* Config *)

Sections == DOMAIN After \ {"open"}
Rank ==
  [main |-> 1, state_options |-> 2, initializer |-> 3, init_noise |-> 4, init_state |-> 5, estimator |-> 6,
   trackers |-> 7, noise |-> 8, state |-> 9, construct |-> 10, constructed |-> 11]
Earlier(l) == {s \in Sections : Rank[s] < Rank[l]}

(* What the file says, whoever reads it.                                   *)
N == IF Stored(MaxCamerasKey) THEN file.max_cameras ELSE 1
Says(p) == IF Stored(p) THEN Value(p) ELSE "default"
TheRig ==
  [i \in 0 .. N - 1 |->
    [values |-> [name \in CameraParams |-> Says(<<"cam", i, name>>)],
     halved |-> file.downsample_cameras /\ Stored(DownsampleKey)]]
Asked(s) == Fixed(s) \cup PerCamera(s, N) \cup Optional(s)

Where == loading \in DOMAIN Rank \cup {"open", "exited"}
Under == \* still before the end
  loading \in DOMAIN Rank
OnlyStored == \A o, p : <<o, p>> \in loaded => Stored(p)
AllStored ==
  Under => \A s \in Earlier(loading) : \A p \in Asked(s) : Stored(p) => <<Owner(s), p>> \in loaded
Rigs ==
  /\ DOMAIN rigs = {"init", "vio"}
  /\ Under /\ "init_state" \in Earlier(loading) => rigs["init"] = TheRig
  /\ Under /\ "state" \in Earlier(loading) => rigs["vio"] = TheRig
Flag ==
  Under =>
    /\ successful => \A s \in Earlier(loading) : \A p \in Fixed(s) \cup PerCamera(s, N) : Stored(p)
    /\ ~successful => \E s \in Earlier(loading) : \E p \in Asked(s) : ~Stored(p)
Common ==
  [cameras |-> TheRig, dt |-> Says(<<"cam", 0, "timeshift_cam_imu">>), sigmas |-> [p \in NoiseDensities |-> Says(p)],
   squares |-> [p \in NoiseDensities |-> Says(p)], gravity |-> Says(GravityKey),
   pixels |-> Says(<<"config", 0, "up_slam_sigma_px">>)]
Handed ==
  loading = "constructed" =>
    /\ \A p \in DOMAIN parts : DOMAIN parts[p] \subseteq DOMAIN Common /\ \A x \in DOMAIN parts[p] : parts[p][x] = Common[x]
    /\ "state" \in DOMAIN parts /\ parts["state"].cameras = TheRig

ConfigInvariant == Where /\ OnlyStored /\ AllStored /\ Rigs /\ Flag /\ Handed /\ file \in Files
(* Before the first function nothing is loaded nor reported.               *)
Fresh == loading = "open" => loaded = {} /\ successful = TRUE
Inductive == ConfigInvariant /\ Fresh /\ successful \in BOOLEAN

LEMMA SectionFacts ==
  /\ Sections = {"main", "state_options", "initializer", "init_noise", "init_state", "estimator", "trackers", "noise", "state"}
  /\ DOMAIN Rank = Sections \cup {"construct", "constructed"}
  /\ \A s \in Sections : After[s] \in DOMAIN Rank /\ After[s] # "constructed" /\ Rank[After[s]] = Rank[s] + 1
  /\ \A s \in DOMAIN Rank : Rank[s] \in Nat
  /\ \A s, t \in DOMAIN Rank : Rank[s] = Rank[t] => s = t
  /\ After["open"] = "main"
BY SMTT(30) DEF Sections, After, Rank

LEMMA PassedNext ==
  ASSUME NEW s \in Sections
  PROVE  Earlier(After[s]) = Earlier(s) \cup {s}
<1>1. ASSUME NEW t \in Sections PROVE Rank[t] < Rank[After[s]] <=> Rank[t] < Rank[s] \/ t = s
  <2>1. Rank[After[s]] = Rank[s] + 1 BY SectionFacts
  <2>2. s \in DOMAIN Rank /\ t \in DOMAIN Rank BY SectionFacts
  <2>3. Rank[s] \in Nat /\ Rank[t] \in Nat BY <2>2, SectionFacts
  <2>4. Rank[s] = Rank[t] => s = t BY <2>2, SectionFacts
  <2>5. Rank[t] < Rank[s] + 1 <=> Rank[t] < Rank[s] \/ Rank[t] = Rank[s] BY <2>3
  <2> QED BY <2>1, <2>4, <2>5
<1> QED BY <1>1 DEF Earlier

LEMMA FixedIs ==
  /\ Fixed("state_options") = StateOptionParams /\ Fixed("init_state") = InitStateParams
  /\ Fixed("trackers") = TrackerParams
  /\ Fixed("noise") = NoiseParams /\ Fixed("init_noise") = InitNoiseParams
  /\ Fixed("state") = StateParameters
  /\ Optional("init_state") = Cam(0, {"timeshift_cam_imu"}) /\ Optional("state") = Cam(0, {"timeshift_cam_imu"})
BY DEF Fixed, Optional

LEMMA KeysAsked ==
  /\ MaxCamerasKey \in Fixed("state_options") /\ MaxCamerasKey \in Fixed("init_state")
  /\ DownsampleKey \in Fixed("trackers") /\ DownsampleKey \in Fixed("init_state")
  /\ NoiseDensities \subseteq Fixed("noise") /\ NoiseDensities \subseteq Fixed("init_noise")
  /\ GravityKey \in Fixed("state") /\ GravityKey \in Fixed("init_state")
  /\ <<"config", 0, "up_slam_sigma_px">> \in Fixed("noise") /\ <<"config", 0, "up_slam_sigma_px">> \in Fixed("init_noise")
  /\ \A s \in {"init_state", "state"} : <<"cam", 0, "timeshift_cam_imu">> \in Optional(s)
<1>1. MaxCamerasKey \in StateOptionParams BY DEF MaxCamerasKey, StateOptionParams, Config
<1>2. MaxCamerasKey \in InitStateParams /\ DownsampleKey \in InitStateParams /\ GravityKey \in InitStateParams
  BY DEF MaxCamerasKey, DownsampleKey, GravityKey, InitStateParams, Config
<1>3. DownsampleKey \in TrackerParams BY DEF DownsampleKey, TrackerParams, Config
<1>4. NoiseDensities \subseteq NoiseParams /\ NoiseDensities \subseteq InitNoiseParams BY Zenon DEF NoiseParams, InitNoiseParams
<1>5. <<"config", 0, "up_slam_sigma_px">> \in Config({"up_msckf_sigma_px", "up_msckf_chi2_multipler", "up_slam_sigma_px", "up_slam_chi2_multipler",
                      "up_aruco_sigma_px", "up_aruco_chi2_multipler", "zupt_chi2_multipler"}) BY DEF Config
<1>6. <<"config", 0, "up_slam_sigma_px">> \in Config({"up_slam_sigma_px"}) BY DEF Config
<1>7. GravityKey \in StateParameters BY Zenon DEF StateParameters
<1>8. <<"cam", 0, "timeshift_cam_imu">> \in Cam(0, {"timeshift_cam_imu"}) BY DEF Cam
<1> HIDE DEF StateOptionParams, InitStateParams, TrackerParams
<1>9. <<"config", 0, "up_slam_sigma_px">> \in NoiseParams BY <1>5, Zenon DEF NoiseParams
<1>10. <<"config", 0, "up_slam_sigma_px">> \in InitNoiseParams BY <1>6, Zenon DEF InitNoiseParams
<1> QED BY <1>1, <1>2, <1>3, <1>4, <1>7, <1>8, <1>9, <1>10, FixedIs

LEMMA Owners ==
  \A s \in Sections : Owner(s) = IF s \in {"initializer", "init_noise", "init_state"} THEN "init" ELSE "vio"
BY DEF Owner

LEMMA FetchedIs ==
  ASSUME NEW o, NEW P, NEW q, NEW x
  PROVE  <<q, x>> \in Fetched(o, P) <=> q = o /\ x \in P /\ Stored(x)
BY DEF Fetched

(* The cameras are counted before they are asked for.                      *)
LEMMA CamerasCounted ==
  ASSUME ConfigInvariant, NEW s \in {"init_state", "state"}, loading = s
  PROVE  num_cameras(Owner(s), loaded \cup Fetched(Owner(s), Fixed(s))) = N
<1> DEFINE o == Owner(s)
           L == loaded \cup Fetched(o, Fixed(s))
<1>1. s \in Sections BY SectionFacts
<1>2. <<o, MaxCamerasKey>> \in L => Stored(MaxCamerasKey)
  BY FetchedIs DEF ConfigInvariant, OnlyStored
<1>3. Stored(MaxCamerasKey) => <<o, MaxCamerasKey>> \in L
  <2>1. CASE s = "init_state"
    BY <2>1, KeysAsked, FetchedIs
  <2>2. CASE s = "state"
    <3>1. "state_options" \in Earlier("state") BY SectionFacts DEF Earlier, Rank
    <3>2. MaxCamerasKey \in Asked("state_options") BY KeysAsked DEF Asked
    <3>3. loading \in DOMAIN Rank BY <1>1, SectionFacts
    <3>4. Owner("state_options") = o BY <2>2 DEF Owner
    <3> HIDE DEF o
    <3> QED BY <2>2, <3>1, <3>2, <3>3, <3>4 DEF ConfigInvariant, AllStored, Under
  <2> QED BY <2>1, <2>2
<1>4. <<o, MaxCamerasKey>> \in L <=> Stored(MaxCamerasKey) BY <1>2, <1>3
<1> HIDE DEF o, L
<1>5. num_cameras(o, L) = N BY <1>4 DEF num_cameras, N
<1> QED BY <1>5 DEF o, L

LEMMA NeededIs ==
  ASSUME ConfigInvariant, NEW s \in Sections, loading = s
  PROVE  Needed(s) = Fixed(s) \cup PerCamera(s, N)
<1>1. CASE s \in {"init_state", "state"} BY <1>1, CamerasCounted DEF Needed
<1>2. CASE s \notin {"init_state", "state"} BY <1>2 DEF Needed, PerCamera
<1> QED BY <1>1, <1>2

(* After a section its members are what the file says.                     *)
LEMMA LoadedIs ==
  ASSUME ConfigInvariant, NEW s \in Sections, loading = s
  PROVE  /\ \A o, p : <<o, p>> \in Loaded(s) => Stored(p)
         /\ \A p \in Asked(s) : Stored(p) => <<Owner(s), p>> \in Loaded(s)
         /\ loaded \subseteq Loaded(s)
<1>1. Loaded(s) = loaded \cup Fetched(Owner(s), Asked(s)) BY NeededIs DEF Loaded, Asked
<1> QED BY <1>1, FetchedIs DEF ConfigInvariant, OnlyStored

(* The options that were passed, after section s.                          *)
LEMMA KnownAfter ==
  ASSUME ConfigInvariant, NEW s \in Sections, loading = s, NEW t \in Earlier(s) \cup {s}, NEW p \in Asked(t)
  PROVE  <<Owner(t), p>> \in Loaded(s) <=> Stored(p)
<1>1. loading \in DOMAIN Rank BY SectionFacts
<1>2. t \in Earlier(s) /\ Stored(p) => <<Owner(t), p>> \in loaded BY <1>1 DEF ConfigInvariant, AllStored, Under
<1> QED BY <1>2, LoadedIs

LEMMA CameraAsked ==
  ASSUME NEW s \in {"init_state", "state"}, NEW i \in 0 .. N - 1, NEW name \in CameraParams
  PROVE  <<"cam", i, name>> \in Asked(s)
<1>1. <<"cam", i, name>> \in Cam(i, CameraParams) BY DEF Cam
<1>2. <<"cam", i, name>> \in PerCamera(s, N) BY <1>1 DEF PerCamera
<1> QED BY <1>2 DEF Asked

LEMMA RigIs ==
  ASSUME ConfigInvariant, NEW s \in {"init_state", "state"}, loading = s
  PROVE  Rig(Owner(s), Loaded(s)) = TheRig
<1> DEFINE o == Owner(s)
           L == Loaded(s)
<1>1. s \in Sections BY SectionFacts
<1>2. PICK t \in Earlier(s) \cup {s} : MaxCamerasKey \in Asked(t) /\ Owner(t) = o
  <2>1. CASE s = "init_state" BY <2>1, KeysAsked DEF Asked
  <2>2. CASE s = "state"
    <3>1. "state_options" \in Earlier("state") BY SectionFacts DEF Earlier, Rank
    <3> QED BY <2>2, <3>1, KeysAsked DEF Asked, Owner
  <2> QED BY <2>1, <2>2
<1>3. PICK u \in Earlier(s) \cup {s} : DownsampleKey \in Asked(u) /\ Owner(u) = o
  <2>1. CASE s = "init_state" BY <2>1, KeysAsked DEF Asked
  <2>2. CASE s = "state"
    <3>1. "trackers" \in Earlier("state") BY SectionFacts DEF Earlier, Rank
    <3> QED BY <2>2, <3>1, KeysAsked DEF Asked, Owner
  <2> QED BY <2>1, <2>2
<1>4. <<o, MaxCamerasKey>> \in L <=> Stored(MaxCamerasKey) BY <1>1, <1>2, KnownAfter
<1>5. <<o, DownsampleKey>> \in L <=> Stored(DownsampleKey) BY <1>1, <1>3, KnownAfter
<1>6. ASSUME NEW i \in 0 .. N - 1, NEW name \in CameraParams
      PROVE  <<o, <<"cam", i, name>>>> \in L <=> Stored(<<"cam", i, name>>)
  <2>1. <<"cam", i, name>> \in Asked(s) BY CameraAsked
  <2> QED BY <1>1, <2>1, KnownAfter
<1> HIDE DEF o, L
<1>7. num_cameras(o, L) = N BY <1>4 DEF num_cameras, N
<1>8. downsample(o, L) = (file.downsample_cameras /\ Stored(DownsampleKey)) BY <1>5 DEF downsample
<1>9. ASSUME NEW i \in 0 .. N - 1
      PROVE  [name \in CameraParams |-> Source(o, <<"cam", i, name>>, L)] = [name \in CameraParams |-> Says(<<"cam", i, name>>)]
  <2>1. \A name \in CameraParams : Source(o, <<"cam", i, name>>, L) = Says(<<"cam", i, name>>) BY <1>6 DEF Source, Says
  <2> QED BY <2>1
<1>10. Rig(o, L) = TheRig BY <1>7, <1>8, <1>9 DEF Rig, TheRig
<1> QED BY <1>10 DEF o, L

-----------------------------------------------------------------------------
(* The steps *)

(* What is asked of the files stays the same while they do.                *)
LEMMA FileStays ==
  ASSUME file' = file
  PROVE  /\ \A p : Stored(p)' <=> Stored(p)
         /\ \A s : Asked(s)' = Asked(s) /\ (Fixed(s) \cup PerCamera(s, N))' = Fixed(s) \cup PerCamera(s, N)
         /\ TheRig' = TheRig /\ Common' = Common
<1>1. \A p : Found(p)' <=> Found(p) BY DEF Found
<1>2. \A p : Stored(p)' <=> Stored(p) BY <1>1 DEF Stored
<1>3. N' = N BY <1>2 DEF N
<1>4. \A s : PerCamera(s, N)' = PerCamera(s, N) BY <1>3 DEF PerCamera
<1>5. \A s : Fixed(s)' = Fixed(s) /\ Optional(s)' = Optional(s) BY DEF Fixed, Optional
<1>6. \A p : Says(p)' = Says(p) BY <1>2 DEF Says, Value
<1>7. TheRig' = TheRig BY <1>2, <1>3, <1>6 DEF TheRig
<1>8. Common' = Common BY <1>6, <1>7 DEF Common
<1> QED BY <1>2, <1>3, <1>4, <1>5, <1>7, <1>8 DEF Asked

LEMMA ReportedIs ==
  ASSUME NEW p
  PROVE  /\ Reported(p, TRUE) <=> ~Stored(p)
         /\ Reported(p, FALSE) => ~Stored(p)
BY DEF Reported, Stored, Found

LEMMA LoadKeeps ==
  ASSUME Inductive, Load
  PROVE  Inductive'
<1>1. CASE Ends
  <2>1. loading' = "exited" /\ UNCHANGED <<file, successful, loaded, rigs, parts>> BY <1>1 DEF Load, Exit
  <2>2. ~Under' BY <2>1, SectionFacts DEF Under
  <2>3. Where' /\ Fresh' /\ Handed' BY <2>1 DEF Where, Fresh, Handed
  <2>4. OnlyStored' BY <2>1, FileStays DEF Inductive, ConfigInvariant, OnlyStored
  <2>5. AllStored' /\ Flag' BY <2>2 DEF AllStored, Flag
  <2>6. Rigs' BY <2>1, <2>2 DEF Rigs, Inductive, ConfigInvariant
  <2> QED BY <2>1, <2>3, <2>4, <2>5, <2>6 DEF Inductive, ConfigInvariant
<1>2. CASE ~Ends
  <2> DEFINE s == loading
  <2>1. s \in Sections BY DEF Load, Sections
  <2>2. /\ loading' = After[s] /\ loaded' = Loaded(s) /\ successful' = (successful /\ ~Complains(s))
        /\ rigs' = (IF s \in {"init_state", "state"} THEN [rigs EXCEPT ![Owner(s)] = Rig(Owner(s), loaded')] ELSE rigs)
        /\ file' = file
    BY <1>2 DEF Load
  <2>3. ConfigInvariant BY DEF Inductive
  <2>4. s \in DOMAIN Rank /\ After[s] \in DOMAIN Rank /\ After[s] # "constructed" /\ loading' # "open" BY <2>1, <2>2, SectionFacts
  <2>5. Under BY <2>4 DEF Under
  <2>6. \A t \in Earlier(s) \cup {s} : t \in Sections BY <2>1 DEF Earlier
  <2>7. Earlier(After[s]) = Earlier(s) \cup {s} BY <2>1, PassedNext
  <2>8. Where' /\ Fresh' /\ Handed' BY <2>2, <2>4 DEF Where, Fresh, Handed
  <2>9. OnlyStored'
    <3>1. ASSUME NEW o, NEW p, <<o, p>> \in Loaded(s) PROVE Stored(p) BY <2>1, <2>3, <3>1, LoadedIs
    <3> QED BY <2>2, <3>1, FileStays DEF OnlyStored
  <2>10. AllStored'
    <3>1. ASSUME NEW t \in Earlier(s) \cup {s}, NEW p \in Asked(t), Stored(p) PROVE <<Owner(t), p>> \in Loaded(s)
      BY <2>1, <2>3, <3>1, KnownAfter
    <3> QED BY <2>2, <2>7, <3>1, FileStays DEF AllStored
  <2>11. Rigs'
    <3> DEFINE o == Owner(s)
    <3>1. DOMAIN rigs = {"init", "vio"} BY <2>3 DEF ConfigInvariant, Rigs
    <3>2. Owner("init_state") = "init" /\ Owner("state") = "vio" BY DEF Owner
    <3>3. s \in {"init_state", "state"} => Rig(o, loaded') = TheRig BY <2>2, <2>3, RigIs
    <3>4. /\ "init_state" \in Earlier(s) => rigs["init"] = TheRig
          /\ "state" \in Earlier(s) => rigs["vio"] = TheRig
      BY <2>3, <2>5 DEF ConfigInvariant, Rigs
    <3>5. CASE s = "init_state"
      <4>1. rigs' = [rigs EXCEPT !["init"] = TheRig] BY <2>2, <3>2, <3>3, <3>5
      <4>2. DOMAIN rigs' = {"init", "vio"} /\ rigs'["init"] = TheRig /\ rigs'["vio"] = rigs["vio"] BY <3>1, <4>1
      <4> HIDE DEF s
      <4> QED BY <2>2, <2>7, <3>4, <3>5, <4>2, FileStays DEF Rigs
    <3>6. CASE s = "state"
      <4>1. rigs' = [rigs EXCEPT !["vio"] = TheRig] BY <2>2, <3>2, <3>3, <3>6
      <4>2. DOMAIN rigs' = {"init", "vio"} /\ rigs'["vio"] = TheRig /\ rigs'["init"] = rigs["init"] BY <3>1, <4>1
      <4> HIDE DEF s
      <4> QED BY <2>2, <2>7, <3>4, <3>6, <4>2, FileStays DEF Rigs
    <3>7. CASE s \notin {"init_state", "state"}
      <4>1. rigs' = rigs BY <2>2, <3>7
      <4> HIDE DEF s
      <4> QED BY <2>2, <2>7, <3>1, <3>4, <3>7, <4>1, FileStays DEF Rigs
    <3> QED BY <3>5, <3>6, <3>7
  <2>12. Flag'
    <3>1. Complains(s) <=> \/ \E p \in Fixed(s) \cup PerCamera(s, N) : ~Stored(p)
                           \/ \E p \in Optional(s) : Reported(p, FALSE)
      BY <2>1, <2>3, NeededIs, ReportedIs DEF Complains
    <3>2. successful' => \A t \in Earlier(s) \cup {s} : \A p \in Fixed(t) \cup PerCamera(t, N) : Stored(p)
      BY <2>2, <2>3, <2>5, <3>1 DEF ConfigInvariant, Flag
    <3>3. ~successful' => \E t \in Earlier(s) \cup {s} : \E p \in Asked(t) : ~Stored(p)
      <4>1. CASE ~successful BY <2>3, <2>5, <4>1 DEF ConfigInvariant, Flag
      <4>2. CASE Complains(s)
        <5>1. \E p \in Asked(s) : ~Stored(p) BY <3>1, <4>2, ReportedIs DEF Asked
        <5> QED BY <5>1
      <4> QED BY <2>2, <4>1, <4>2
    <3> HIDE DEF s
    <3> QED BY <2>2, <2>7, <3>2, <3>3, FileStays DEF Flag
  <2>13. successful' \in BOOLEAN BY <2>2
  <2> HIDE DEF s
  <2> QED BY <2>2, <2>3, <2>8, <2>9, <2>10, <2>11, <2>12, <2>13 DEF Inductive, ConfigInvariant
<1> QED BY <1>1, <1>2

LEMMA OpenKeeps ==
  ASSUME Inductive, Open
  PROVE  Inductive'
<1>1. loading = "open" /\ loaded = {} /\ successful = TRUE BY DEF Inductive, Fresh, Open
<1>2. loading' \in {"main", "exited"} /\ UNCHANGED <<file, successful, loaded, rigs, parts>>
  BY SectionFacts DEF Open, Exit
<1>3. Earlier("main") = {}
  <2>1. \A t \in Sections : ~(Rank[t] < Rank["main"]) BY SectionFacts DEF Rank
  <2> QED BY <2>1 DEF Earlier
<1>4. Under' => loading' = "main" BY <1>2, SectionFacts DEF Under
<1>5. Where' /\ Fresh' /\ Handed' BY <1>2, SectionFacts DEF Where, Fresh, Handed
<1>6. OnlyStored' BY <1>1, <1>2 DEF OnlyStored
<1>7. AllStored' BY <1>3, <1>4 DEF AllStored
<1>8. Flag' BY <1>1, <1>2, <1>3, <1>4 DEF Flag
<1>9. Rigs' BY <1>2, <1>3, <1>4 DEF Rigs, Inductive, ConfigInvariant
<1> QED BY <1>2, <1>5, <1>6, <1>7, <1>8, <1>9 DEF Inductive, ConfigInvariant

(* What the members are when all functions have run.                       *)
LEMMA AllPassed ==
  ASSUME ConfigInvariant, loading \in {"construct", "constructed"}
  PROVE  /\ Under /\ Earlier(loading) = Sections
         /\ \A s \in Sections : \A p \in Asked(s) : <<Owner(s), p>> \in loaded <=> Stored(p)
<1>1. Under BY SectionFacts DEF Under
<1>2. \A s \in Sections : Rank[s] < Rank["construct"] /\ Rank[s] < Rank["constructed"] BY SectionFacts DEF Rank
<1>3. Earlier(loading) = Sections BY <1>2 DEF Earlier
<1> QED BY <1>1, <1>3 DEF ConfigInvariant, AllStored, OnlyStored

LEMMA SourceIs ==
  ASSUME ConfigInvariant, loading \in {"construct", "constructed"}, NEW s \in Sections, NEW p \in Asked(s)
  PROVE  Source(Owner(s), p, loaded) = Says(p)
BY AllPassed DEF Source, Says

LEMMA OwnerCameras ==
  ASSUME ConfigInvariant, loading \in {"construct", "constructed"}, NEW o \in {"init", "vio"}
  PROVE  num_cameras(o, loaded) = N
<1>1. PICK s \in {"state_options", "init_state"} : Owner(s) = o BY DEF Owner
<1>2. MaxCamerasKey \in Asked(s) /\ s \in Sections BY KeysAsked, SectionFacts DEF Asked
<1>3. <<o, MaxCamerasKey>> \in loaded <=> Stored(MaxCamerasKey) BY <1>1, <1>2, AllPassed
<1> QED BY <1>3 DEF num_cameras, N

LEMMA ConstructKeeps ==
  ASSUME Inductive, ConstructManager
  PROVE  Inductive'
<1>1. loading = "construct" /\ ConfigInvariant /\ UNCHANGED <<file, successful, loaded, rigs>>
      /\ loading' \in {"constructed", "exited"}
  BY DEF ConstructManager, Exit, Inductive
<1>2. Under /\ Earlier("construct") = Sections /\ Earlier("constructed") = Sections
  <2>1. \A s \in Sections : Rank[s] < Rank["constructed"] BY SectionFacts DEF Rank
  <2> QED BY <1>1, <2>1, AllPassed DEF Earlier
<1>3. Earlier(loading) = Sections BY <1>1, <1>2
<1>4. Under' => Earlier(loading)' = Sections BY <1>1, <1>2, SectionFacts DEF Under, Earlier
<1>5. Where' /\ Fresh' BY <1>1, SectionFacts DEF Where, Fresh
<1>6. OnlyStored' BY <1>1, FileStays DEF ConfigInvariant, OnlyStored
<1>7. AllStored' BY <1>1, <1>2, <1>3, <1>4, FileStays DEF ConfigInvariant, AllStored
<1>8. Flag' BY <1>1, <1>2, <1>3, <1>4, FileStays DEF ConfigInvariant, Flag
<1>9. Rigs' BY <1>1, <1>2, <1>3, <1>4, FileStays DEF ConfigInvariant, Rigs
<1>10. Handed'
  <2> SUFFICES ASSUME loading' = "constructed" PROVE Handed' BY DEF Handed
  <2>1. rigs["init"] = TheRig /\ rigs["vio"] = TheRig
    BY <1>2, <1>3, <1>1, SectionFacts DEF ConfigInvariant, Rigs
  <2>2. Timeshift("init") = Common.dt /\ Timeshift("vio") = Common.dt
    <3>1. <<"cam", 0, "timeshift_cam_imu">> \in Asked("init_state") /\ <<"cam", 0, "timeshift_cam_imu">> \in Asked("state")
      BY KeysAsked DEF Asked
    <3>2. Owner("init_state") = "init" /\ Owner("state") = "vio" BY DEF Owner
    <3>3. "init_state" \in Sections /\ "state" \in Sections BY SectionFacts
    <3> QED BY <1>1, <3>1, <3>2, <3>3, SourceIs DEF Timeshift, Common
  <2>3. Sigmas("init") = Common.sigmas /\ Sigmas("vio") = Common.sigmas /\ Common.squares = Common.sigmas
    <3>1. \A p \in NoiseDensities : p \in Asked("init_noise") /\ p \in Asked("noise") BY KeysAsked DEF Asked
    <3>2. Owner("init_noise") = "init" /\ Owner("noise") = "vio" BY DEF Owner
    <3>3. "init_noise" \in Sections /\ "noise" \in Sections BY SectionFacts
    <3>4. \A p \in NoiseDensities : Source("init", p, loaded) = Says(p) /\ Source("vio", p, loaded) = Says(p)
      BY <1>1, <3>1, <3>2, <3>3, SourceIs
    <3> QED BY <3>4 DEF Sigmas, Common
  <2>4. GravityOf("init") = Common.gravity /\ GravityOf("vio") = Common.gravity
    <3>1. GravityKey \in Asked("init_state") /\ GravityKey \in Asked("state") BY KeysAsked DEF Asked
    <3>2. Owner("init_state") = "init" /\ Owner("state") = "vio" BY DEF Owner
    <3>3. "init_state" \in Sections /\ "state" \in Sections BY SectionFacts
    <3> QED BY <1>1, <3>1, <3>2, <3>3, SourceIs DEF GravityOf, Common
  <2>5. Pixels("init") = Common.pixels /\ Pixels("vio") = Common.pixels
    <3>1. <<"config", 0, "up_slam_sigma_px">> \in Asked("init_noise") /\ <<"config", 0, "up_slam_sigma_px">> \in Asked("noise")
      BY KeysAsked DEF Asked
    <3>2. Owner("init_noise") = "init" /\ Owner("noise") = "vio" BY DEF Owner
    <3>3. "init_noise" \in Sections /\ "noise" \in Sections BY SectionFacts
    <3> QED BY <1>1, <3>1, <3>2, <3>3, SourceIs DEF Pixels, Common
  <2>6. Common.cameras = TheRig BY DEF Common
  <2>7. DOMAIN Common = {"cameras", "dt", "sigmas", "squares", "gravity", "pixels"} BY DEF Common
  <2>8. parts' =
          [state       |-> [cameras |-> TheRig, dt |-> Common.dt],
           tracker     |-> [cameras |-> TheRig],
           propagator  |-> [sigmas |-> Common.sigmas, squares |-> Common.squares, gravity |-> Common.gravity],
           zupt        |-> [sigmas |-> Common.sigmas, squares |-> Common.squares, gravity |-> Common.gravity],
           slam        |-> [pixels |-> Common.pixels],
           initializer |-> [cameras |-> TheRig, dt |-> Common.dt, sigmas |-> Common.sigmas,
                            pixels |-> Common.pixels, gravity |-> Common.gravity]]
    BY <1>1, <2>1, <2>2, <2>3, <2>4, <2>5 DEF ConstructManager, Exit
  <2>9. Common' = Common /\ TheRig' = TheRig BY <1>1, FileStays
  <2> HIDE DEF Common, TheRig
  <2>10. ASSUME NEW p \in DOMAIN parts'
         PROVE  DOMAIN parts'[p] \subseteq DOMAIN Common /\ \A x \in DOMAIN parts'[p] : parts'[p][x] = Common[x]
    <3>1. CASE p \in {"state", "tracker", "slam"} BY <2>6, <2>7, <2>8, <3>1
    <3>2. CASE p \in {"propagator", "zupt"} BY <2>7, <2>8, <3>2
    <3>3. CASE p = "initializer" BY <2>6, <2>7, <2>8, <3>3
    <3> QED BY <2>8, <3>1, <3>2, <3>3
  <2>11. "state" \in DOMAIN parts' /\ parts'["state"].cameras = TheRig BY <2>8
  <2> QED BY <2>9, <2>10, <2>11 DEF Handed
<1> QED BY <1>1, <1>5, <1>6, <1>7, <1>8, <1>9, <1>10 DEF Inductive, ConfigInvariant

LEMMA Invariance == ConfigSpec => []Inductive
<1>1. ConfigInit => Inductive
  <2> SUFFICES ASSUME ConfigInit PROVE Inductive OBVIOUS
  <2>1. loading = "open" /\ ~Under BY SectionFacts DEF ConfigInit, Under
  <2>2. Where /\ OnlyStored /\ AllStored /\ Rigs /\ Flag /\ Handed
    BY <2>1 DEF ConfigInit, Where, OnlyStored, AllStored, Rigs, Flag, Handed
  <2> QED BY <2>2 DEF ConfigInit, Inductive, ConfigInvariant, Fresh
<1>2. Inductive /\ [ConfigNext]_configVars => Inductive'
  <2> SUFFICES ASSUME Inductive, [ConfigNext]_configVars PROVE Inductive' OBVIOUS
  <2>1. CASE Open BY <2>1, OpenKeeps
  <2>2. CASE Load BY <2>2, LoadKeeps
  <2>3. CASE ConstructManager BY <2>3, ConstructKeeps
  <2>4. CASE UNCHANGED configVars
    <3>1. UNCHANGED <<file, loading, successful, loaded, rigs, parts>> BY <2>4 DEF configVars
    <3>2. Where' /\ Under' = Under /\ Fresh' /\ Earlier(loading)' = Earlier(loading)
      BY <3>1 DEF Inductive, ConfigInvariant, Where, Under, Fresh, Earlier
    <3>3. OnlyStored' BY <3>1, FileStays DEF Inductive, ConfigInvariant, OnlyStored
    <3>4. AllStored' BY <3>1, <3>2, FileStays DEF Inductive, ConfigInvariant, AllStored
    <3>5. Flag' BY <3>1, <3>2, FileStays DEF Inductive, ConfigInvariant, Flag
    <3>6. Rigs' BY <3>1, <3>2, FileStays DEF Inductive, ConfigInvariant, Rigs
    <3>7. Handed' BY <3>1, FileStays DEF Inductive, ConfigInvariant, Handed
    <3> QED BY <3>1, <3>2, <3>3, <3>4, <3>5, <3>6, <3>7 DEF Inductive, ConfigInvariant
  <2> QED BY <2>1, <2>2, <2>3, <2>4 DEF ConfigNext
<1> QED BY <1>1, <1>2, PTL DEF ConfigSpec

-----------------------------------------------------------------------------
(* The results *)

(* However the files are broken, when VioManager is constructed its parts  *)
(* and the initialiser have the same rig, noises and gravity.              *)
THEOREM RigIsShared == ConfigSpec => []OneRig
<1>1. ASSUME Inductive PROVE OneRig
  <2> SUFFICES ASSUME loading = "constructed"
               PROVE  /\ \A p, q \in DOMAIN parts : \A x \in DOMAIN parts[p] \cap DOMAIN parts[q] : parts[p][x] = parts[q][x]
                      /\ DOMAIN parts["state"].cameras = 0 .. num_cameras("vio", loaded) - 1
    BY DEF OneRig
  <2>1. ConfigInvariant BY <1>1 DEF Inductive
  <2>2. \A p, q \in DOMAIN parts : \A x \in DOMAIN parts[p] \cap DOMAIN parts[q] : parts[p][x] = parts[q][x]
    BY <2>1 DEF ConfigInvariant, Handed
  <2>3. num_cameras("vio", loaded) = N BY <2>1, OwnerCameras
  <2>4. DOMAIN TheRig = 0 .. N - 1 BY DEF TheRig
  <2>5. parts["state"].cameras = TheRig BY <2>1 DEF ConfigInvariant, Handed
  <2> QED BY <2>2, <2>3, <2>4, <2>5
<1> QED BY <1>1, Invariance, PTL

(* successful() tells what was not assigned.  While it is true every       *)
(* required parameter, of every camera in use, was assigned from a file,   *)
(* if only with what OpenCV makes of text; once it is false something that *)
(* was asked for was not.                                                  *)
THEOREM FlagIsExact == ConfigSpec => []MissingIsReported
<1>1. ASSUME Inductive PROVE MissingIsReported
  <2> SUFFICES ASSUME loading = "constructed"
      PROVE /\ successful => \A o \in {"init", "vio"} : {o} \X RequiredBy(o) \subseteq loaded
            /\ ~successful => \E o \in {"init", "vio"} : ~({o} \X (RequiredBy(o) \cup OptionalOf(o)) \subseteq loaded)
    BY DEF MissingIsReported
  <2>1. ConfigInvariant BY <1>1 DEF Inductive
  <2>2. Earlier(loading) = Sections /\ Under BY <2>1, AllPassed
  <2>3. \A s \in Sections : \A p \in Asked(s) : <<Owner(s), p>> \in loaded <=> Stored(p) BY <2>1, AllPassed
  <2>4. \A o \in {"init", "vio"} : num_cameras(o, loaded) = N BY <2>1, OwnerCameras
  <2>5. \A o \in {"init", "vio"} : RequiredBy(o) = UNION {Fixed(s) \cup PerCamera(s, N) : s \in {s \in Sections : Owner(s) = o}}
    BY <2>4 DEF RequiredBy, Sections
  <2>6. ASSUME successful, NEW o \in {"init", "vio"} PROVE {o} \X RequiredBy(o) \subseteq loaded
    <3>1. ASSUME NEW p \in RequiredBy(o) PROVE <<o, p>> \in loaded
      <4>1. PICK s \in Sections : Owner(s) = o /\ p \in Fixed(s) \cup PerCamera(s, N) BY <2>5, <3>1
      <4>2. Stored(p) BY <2>1, <2>2, <2>6, <4>1 DEF ConfigInvariant, Flag
      <4>3. p \in Asked(s) BY <4>1 DEF Asked
      <4> QED BY <2>3, <4>1, <4>2, <4>3
    <3> QED BY <3>1
  <2>7. ASSUME ~successful PROVE \E o \in {"init", "vio"} : ~({o} \X (RequiredBy(o) \cup OptionalOf(o)) \subseteq loaded)
    <3>1. PICK s \in Sections : \E p \in Asked(s) : ~Stored(p) BY <2>1, <2>2, <2>7 DEF ConfigInvariant, Flag
    <3>2. PICK p \in Asked(s) : ~Stored(p) BY <3>1
    <3>3. <<Owner(s), p>> \notin loaded BY <2>3, <3>2
    <3>4. Owner(s) \in {"init", "vio"} BY DEF Owner
    <3>5. p \in RequiredBy(Owner(s)) \cup OptionalOf(Owner(s))
      <4>1. CASE p \in Fixed(s) \cup PerCamera(s, N) BY <2>5, <3>4, <4>1
      <4>2. CASE p \in Optional(s) BY <4>2 DEF OptionalOf, Sections
      <4> QED BY <3>2, <4>1, <4>2 DEF Asked
    <3>6. <<Owner(s), p>> \in {Owner(s)} \X (RequiredBy(Owner(s)) \cup OptionalOf(Owner(s))) BY <3>5
    <3> QED BY <3>3, <3>4, <3>6
  <2> QED BY <2>6, <2>7
<1> QED BY <1>1, Invariance, PTL

-----------------------------------------------------------------------------
(* InitialProblem *)

Chosen == {"integrate", "build", "solve", "optimize", "covariance"}
Known == camera_times \cup TimesOf(times)
Near(s, t) == s # t /\ Distance(s, t) < PoseGap

(* Outside a call there are no locals; in one, the poses are NewestTime    *)
(* and the times of what was counted.                                      *)
Shape ==
  /\ phase \in {"idle", "select", "look", "returned", "aborted"} \cup Chosen
  /\ phase \in {"idle", "returned", "aborted"} => features = {} /\ valid = {}
  /\ phase \notin {"idle", "returned", "aborted"} =>
       features \in Databases /\ camera_times = {NewestTime} \cup TimesOf(counted)
  /\ phase # "look" => times = {} /\ pending = {}

(* Every measurement belongs to one stage: counted with a valid feature,   *)
(* accepted for the feature at hand, or not looked at.                     *)
Stages ==
  /\ counted \subseteq features /\ times \subseteq features
  /\ \A m \in counted : m.feat \in valid
  /\ \A m \in times : m.feat = feat
  /\ \A m \in pending : m \in features /\ m.feat = feat
  /\ valid \cap unvisited = {}
  /\ phase = "look" => feat \notin valid /\ feat \notin unvisited

Numbers == num_measurements = 2 * Cardinality(counted)

(* Poses, also those to come from the feature at hand, keep their gap.     *)
Spaced == \A s, t \in Known : s # t => Distance(s, t) >= PoseGap

(* What was not accepted is too near to a pose to ever be one.             *)
Complete ==
  /\ \A m \in features : m.feat \in valid => m \in counted \/ \E s \in camera_times : Near(s, m.time)
  /\ phase = "look" =>
       \A m \in features : m.feat = feat => m \in pending \/ m \in times \/ \E s \in Known : Near(s, m.time)

Poses == phase \in Chosen => Cardinality(camera_times) >= NumPoses

Filled == phase \in {"solve", "optimize", "covariance"} => index_meas = num_measurements

ProblemInv == Shape /\ Stages /\ Numbers /\ Spaced /\ Complete /\ Poses /\ Filled

-----------------------------------------------------------------------------
LEMMA DatabaseFacts ==
  ASSUME NEW d \in Databases
  PROVE  IsFiniteSet(d) /\ \A m \in d : m.time \in Nat /\ m.time < NewestTime + PoseGap
  BY ProblemAssumption

(* The times the selection works with. *)
LEMMA KnownTimes ==
  ASSUME Shape, Stages, phase \notin {"idle", "returned", "aborted"}
  PROVE  Known \subseteq Nat /\ \A t \in Known : t < NewestTime + PoseGap
<1>1. \A m \in features : m.time \in Nat /\ m.time < NewestTime + PoseGap
  BY DatabaseFacts DEF Shape
<1>2. NewestTime \in Nat /\ NewestTime < NewestTime + PoseGap
  BY ProblemAssumption
<1> QED
  BY <1>1, <1>2 DEF Shape, Stages, Known, TimesOf

(* A rejected measurement has a pose near it. *)
LEMMA RejectedIsNear ==
  ASSUME NEW t, ~AtPose(t), Known \subseteq Nat, t \in Nat
  PROVE  \E s \in Known : Near(s, t)
<1>1. t \notin Known /\ \E s \in Known : ~(Distance(s, t) >= PoseGap)
  BY DEF AtPose, Known
<1>2. PICK s \in Known : ~(Distance(s, t) >= PoseGap)
  BY <1>1
<1>3. s # t /\ Distance(s, t) < PoseGap
  BY <1>1, <1>2, ProblemAssumption DEF Distance
<1> QED
  BY <1>3 DEF Near

(* An accepted one keeps the gap. *)
LEMMA AcceptedIsSpaced ==
  ASSUME NEW t \in Nat, AtPose(t), Spaced, Known \subseteq Nat
  PROVE  \A s, u \in Known \cup {t} : s # u => Distance(s, u) >= PoseGap
<1>1. t \in Known \/ \A s \in Known : Distance(s, t) >= PoseGap
  BY DEF AtPose, Known
<1>2. \A s \in Known : s \in Nat /\ Distance(s, t) = Distance(t, s)
  BY DEF Distance
<1>3. ASSUME NEW s \in Known \cup {t}, NEW u \in Known \cup {t}, s # u
      PROVE  Distance(s, u) >= PoseGap
  <2>1. CASE t \in Known
    BY <2>1, <1>3 DEF Spaced
  <2>2. CASE t \notin Known /\ s = t
    BY <2>2, <1>1, <1>2, <1>3
  <2>3. CASE t \notin Known /\ u = t
    BY <2>3, <1>1, <1>3
  <2>4. CASE t \notin Known /\ s # t /\ u # t
    BY <2>4, <1>3 DEF Spaced
  <2> QED
    BY <2>1, <2>2, <2>3, <2>4
<1> QED
  BY <1>3

-----------------------------------------------------------------------------
LEMMA InitProblem == ProblemInit => ProblemInv
<1> SUFFICES ASSUME ProblemInit PROVE ProblemInv
  OBVIOUS
<1>1. Cardinality({}) = 0
  BY FS_EmptySet
<1>2. Shape /\ Stages /\ Numbers /\ Complete /\ Poses /\ Filled
  BY <1>1 DEF ProblemInit, Shape, Stages, Numbers, Complete, Poses, Filled, Chosen
<1>3. Spaced
  BY DEF ProblemInit, Spaced, Known, TimesOf
<1> QED
  BY <1>2, <1>3 DEF ProblemInv

LEMMA ReturnKeeps ==
  ASSUME NEW to \in {"idle", "returned", "aborted"}, Return(to)
  PROVE  ProblemInv'
<1>1. Cardinality({}) = 0
  BY FS_EmptySet
<1>2. Shape' /\ Stages' /\ Numbers' /\ Complete' /\ Poses' /\ Filled'
  BY <1>1 DEF Return, Shape, Stages, Numbers, Complete, Poses, Filled, Chosen
<1>3. Spaced'
  BY DEF Return, Spaced, Known, TimesOf
<1> QED
  BY <1>2, <1>3 DEF ProblemInv

LEMMA CopyKeeps == ProblemInv /\ Copy => ProblemInv'
<1> SUFFICES ASSUME ProblemInv, Copy PROVE ProblemInv'
  OBVIOUS
<1>1. /\ times = {} /\ pending = {} /\ valid = {} /\ counted = {} /\ num_measurements = 2 * Cardinality(counted)
      /\ times' = times /\ pending' = pending /\ valid' = valid /\ counted' = counted
      /\ num_measurements' = num_measurements /\ phase' = "select"
      /\ features' \in Databases /\ camera_times' = {NewestTime}
  BY DEF ProblemInv, Shape, Stages, Numbers, Copy
<1>2. Shape' /\ Numbers' /\ Poses' /\ Filled'
  BY <1>1 DEF Shape, Numbers, Poses, Filled, Chosen, TimesOf
<1>3. Stages' /\ Complete'
  BY <1>1 DEF Stages, Complete
<1>4. Spaced'
  BY <1>1 DEF Spaced, Known, TimesOf
<1> QED
  BY <1>2, <1>3, <1>4 DEF ProblemInv

LEMMA VisitKeeps == ASSUME ProblemInv, NEW f \in unvisited, Visit(f) PROVE ProblemInv'
<1>1. /\ phase = "select" /\ phase' = "look" /\ feat' = f /\ unvisited' = unvisited \ {f}
      /\ pending' = {m \in features : m.feat = f} /\ times' = {} /\ times = {}
      /\ UNCHANGED <<features, valid, camera_times, num_measurements, counted>>
  BY DEF ProblemInv, Shape, Visit
<1>2. Shape' /\ Numbers' /\ Poses' /\ Filled'
  BY <1>1 DEF ProblemInv, Shape, Numbers, Poses, Filled, Chosen, TimesOf
<1>3. Stages'
  BY <1>1 DEF ProblemInv, Stages
<1>4. Complete'
  BY <1>1 DEF ProblemInv, Complete, Near
<1>5. Spaced'
  BY <1>1 DEF ProblemInv, Spaced, Known, TimesOf
<1> QED
  BY <1>2, <1>3, <1>4, <1>5 DEF ProblemInv

LEMMA LookKeeps == ASSUME ProblemInv, NEW m \in pending, Look(m) PROVE ProblemInv'
<1>1. /\ phase = "look" /\ phase' = phase /\ pending' = pending \ {m}
      /\ times' = IF AtPose(m.time) THEN times \cup {m} ELSE times
      /\ UNCHANGED <<features, unvisited, feat, valid, camera_times, num_measurements, counted>>
  BY DEF Look
<1>2. m \in features /\ m.feat = feat /\ features \in Databases /\ Known \subseteq Nat
  BY <1>1, KnownTimes DEF ProblemInv, Shape, Stages
<1>3. m.time \in Nat
  BY <1>2, DatabaseFacts
<1>4. Shape' /\ Numbers' /\ Poses' /\ Filled'
  BY <1>1 DEF ProblemInv, Shape, Numbers, Poses, Filled, Chosen, TimesOf
<1>5. Stages'
  BY <1>1, <1>2 DEF ProblemInv, Stages
<1>6. Known' = IF AtPose(m.time) THEN Known \cup {m.time} ELSE Known
  BY <1>1 DEF Known, TimesOf
<1>7. Spaced'
  <2>1. CASE AtPose(m.time)
    BY <2>1, <1>2, <1>3, <1>6, AcceptedIsSpaced DEF ProblemInv, Spaced, Distance
  <2>2. CASE ~AtPose(m.time)
    BY <2>2, <1>6 DEF ProblemInv, Spaced, Distance
  <2> QED
    BY <2>1, <2>2
<1>8. Complete'
  <2>1. \A k \in features : k.feat = feat =>
          k \in pending \/ k \in times \/ \E s \in Known : Near(s, k.time)
    BY <1>1 DEF ProblemInv, Complete
  <2>2. m \in times' \/ \E s \in Known : Near(s, m.time)
    BY <1>1, <1>2, <1>3, RejectedIsNear
  <2>3. Known \subseteq Known' /\ times \subseteq times'
    BY <1>1, <1>6
  <2>4. ASSUME NEW k \in features, k.feat = feat
        PROVE  k \in pending' \/ k \in times' \/ \E s \in Known' : Near(s, k.time)
    BY <2>1, <2>2, <2>3, <2>4, <1>1
  <2> QED
    BY <2>4, <1>1 DEF ProblemInv, Complete, Near
<1> QED
  BY <1>4, <1>5, <1>7, <1>8 DEF ProblemInv

LEMMA SkipKeeps == ProblemInv /\ Skip => ProblemInv'
<1> SUFFICES ASSUME ProblemInv, Skip PROVE ProblemInv'
  OBVIOUS
<1>1. /\ phase = "look" /\ phase' = "select" /\ pending = {} /\ pending' = {} /\ times' = {}
      /\ UNCHANGED <<features, unvisited, valid, camera_times, num_measurements, counted>>
  BY DEF Skip
<1>2. Shape' /\ Numbers' /\ Poses' /\ Filled'
  BY <1>1 DEF ProblemInv, Shape, Numbers, Poses, Filled, Chosen, TimesOf
<1>3. Stages'
  BY <1>1 DEF ProblemInv, Stages
<1>4. Complete'
  BY <1>1 DEF ProblemInv, Complete, Near
<1>5. Known' \subseteq Known
  BY <1>1 DEF Known, TimesOf
<1>6. Spaced'
  BY <1>5 DEF ProblemInv, Spaced, Distance
<1> QED
  BY <1>2, <1>3, <1>4, <1>6 DEF ProblemInv

LEMMA UseKeeps == ProblemInv /\ Use => ProblemInv'
<1> SUFFICES ASSUME ProblemInv, Use PROVE ProblemInv'
  OBVIOUS
<1>1. /\ phase = "look" /\ phase' = "select" /\ pending = {} /\ pending' = {} /\ times' = {}
      /\ valid' = valid \cup {feat} /\ camera_times' = camera_times \cup TimesOf(times)
      /\ num_measurements' = num_measurements + 2 * Cardinality(times)
      /\ counted' = counted \cup times
      /\ UNCHANGED <<features, unvisited>>
  BY DEF Use
<1>2. features \in Databases
  BY <1>1 DEF ProblemInv, Shape
<1>3. Known' = Known /\ camera_times' = Known
  BY <1>1 DEF Known, TimesOf
<1>4. Shape' /\ Poses' /\ Filled'
  BY <1>1 DEF ProblemInv, Shape, Poses, Filled, Chosen, TimesOf
<1>5. Stages'
  BY <1>1 DEF ProblemInv, Stages
<1>6. Spaced'
  BY <1>3 DEF ProblemInv, Spaced, Distance
<1>7. Numbers'
  <2>1. IsFiniteSet(counted) /\ IsFiniteSet(times)
    BY <1>2, DatabaseFacts, FS_Subset DEF ProblemInv, Stages
  <2>2. counted \cap times = {}
    BY <1>1 DEF ProblemInv, Stages
  <2>3. Cardinality(counted \cup times) = Cardinality(counted) + Cardinality(times)
    <3>1. Cardinality(counted \cup times)
            = Cardinality(counted) + Cardinality(times) - Cardinality(counted \cap times)
      BY <2>1, FS_Union
    <3>2. Cardinality(counted \cap times) = 0
      BY <2>2, FS_EmptySet
    <3>3. Cardinality(counted) \in Nat /\ Cardinality(times) \in Nat
      BY <2>1, FS_CardinalityType
    <3> QED
      BY <3>1, <3>2, <3>3
  <2>4. Cardinality(counted) \in Nat /\ Cardinality(times) \in Nat
    BY <2>1, FS_CardinalityType
  <2> QED
    BY <2>3, <2>4, <1>1 DEF ProblemInv, Numbers
<1>8. Complete'
  <2>1. ASSUME NEW m \in features, m.feat \in valid \cup {feat}
        PROVE  m \in counted \cup times \/ \E s \in Known : Near(s, m.time)
    <3>1. CASE m.feat \in valid
      BY <3>1 DEF ProblemInv, Complete, Known
    <3>2. CASE m.feat = feat
      BY <3>2, <1>1 DEF ProblemInv, Complete
    <3> QED
      BY <3>1, <3>2, <2>1
  <2> QED
    BY <2>1, <1>1, <1>3 DEF Complete, Near
<1> QED
  BY <1>4, <1>5, <1>6, <1>7, <1>8 DEF ProblemInv

(* A step that leaves the selection as it is. *)
LEMMA LaterKeeps ==
  ASSUME ProblemInv, phase \notin {"idle", "look", "returned", "aborted"}, phase' \in Chosen,
         UNCHANGED <<features, unvisited, feat, pending, times, valid, camera_times, num_measurements, counted>>,
         Cardinality(camera_times) >= NumPoses,
         Filled'
  PROVE  ProblemInv'
<1>1. Shape' /\ Numbers' /\ Poses'
  BY DEF ProblemInv, Shape, Numbers, Poses, Chosen, TimesOf
<1>2. Stages'
  BY DEF ProblemInv, Stages, Chosen
<1>3. Complete'
  BY DEF ProblemInv, Complete, Near, Chosen
<1>4. Spaced'
  BY DEF ProblemInv, Spaced, Known, TimesOf, Distance
<1> QED
  BY <1>1, <1>2, <1>3, <1>4 DEF ProblemInv

(* What the system is made of is what was counted. *)
LEMMA SystemIsCounted ==
  ASSUME ProblemInv, phase \in Chosen
  PROVE  {m \in features : InSystem(m)} = counted
<1>1. /\ features \in Databases /\ times = {} /\ camera_times = {NewestTime} \cup TimesOf(counted)
      /\ Known \subseteq Nat
  BY KnownTimes DEF ProblemInv, Shape, Chosen
<1>2. ASSUME NEW m \in counted PROVE m \in features /\ InSystem(m)
  BY <1>1 DEF ProblemInv, Stages, InSystem, TimesOf
<1>3. ASSUME NEW m \in features, InSystem(m) PROVE m \in counted
  <2>1. m.feat \in valid /\ m.time \in camera_times
    BY <1>3 DEF InSystem
  <2>2. \A s \in camera_times : ~Near(s, m.time)
    <3>1. \A s \in camera_times : s \in Nat /\ (s # m.time => Distance(s, m.time) >= PoseGap)
      BY <2>1, <1>1 DEF ProblemInv, Spaced, Known
    <3>2. m.time \in Nat
      BY <2>1, <3>1
    <3> QED
      BY <3>1, <3>2, ProblemAssumption DEF Near, Distance
  <2> QED
    BY <2>1, <2>2 DEF ProblemInv, Complete
<1> QED
  BY <1>2, <1>3

LEMMA BuildKeeps == ProblemInv /\ BuildSystem => ProblemInv'
<1> SUFFICES ASSUME ProblemInv, BuildSystem PROVE ProblemInv'
  OBVIOUS
<1>1. CASE \E m \in features : InSystem(m) /\ m.uv = "none"
  BY <1>1, ReturnKeeps DEF BuildSystem
<1>2. CASE ~\E m \in features : InSystem(m) /\ m.uv = "none"
  <2>1. index_meas' = 2 * Cardinality(counted)
    BY <1>2, SystemIsCounted DEF BuildSystem, Chosen
  <2>2. Filled'
    BY <1>2, <2>1 DEF ProblemInv, Numbers, BuildSystem, Filled
  <2> QED
    BY <1>2, <2>2, LaterKeeps DEF BuildSystem, ProblemInv, Poses, Chosen
<1> QED
  BY <1>1, <1>2

LEMMA SelectedKeeps == ProblemInv /\ Selected => ProblemInv'
<1> SUFFICES ASSUME ProblemInv, Selected PROVE ProblemInv'
  OBVIOUS
<1>1. CASE Enough
  BY <1>1, LaterKeeps DEF Selected, Enough, locals, Chosen, Filled
<1>2. CASE ~Enough
  BY <1>2, ReturnKeeps DEF Selected
<1> QED
  BY <1>1, <1>2

LEMMA RecoverKeeps == ProblemInv /\ Recover => ProblemInv'
<1> SUFFICES ASSUME ProblemInv, Recover PROVE ProblemInv'
  OBVIOUS
<1>1. PICK front \in SUBSET valid :
        \/ Return("idle") \/ Return("aborted")
        \/ /\ phase' = "optimize"
           /\ UNCHANGED <<features, unvisited, feat, pending, times, valid, camera_times, camera_ids,
                          num_measurements, counted, index_meas>>
  BY DEF Recover
<1>2. CASE Return("idle") \/ Return("aborted")
  BY <1>2, ReturnKeeps
<1>3. CASE /\ phase' = "optimize"
           /\ UNCHANGED <<features, unvisited, feat, pending, times, valid, camera_times, camera_ids,
                          num_measurements, counted, index_meas>>
  BY <1>3, LaterKeeps DEF Recover, ProblemInv, Poses, Filled, Chosen
<1> QED
  BY <1>1, <1>2, <1>3

LEMMA StillKeeps == ProblemInv /\ (Integrate \/ Optimize) => ProblemInv'
<1> SUFFICES ASSUME ProblemInv, Integrate \/ Optimize PROVE ProblemInv'
  OBVIOUS
<1> QED
  BY LaterKeeps DEF Integrate, Optimize, locals, ProblemInv, Poses, Filled, Chosen

LEMMA StutterKeeps == ProblemInv /\ UNCHANGED problemVars => ProblemInv'
<1> SUFFICES ASSUME ProblemInv, UNCHANGED problemVars PROVE ProblemInv'
  OBVIOUS
<1>1. Shape' /\ Stages' /\ Numbers'
  BY DEF ProblemInv, Shape, Stages, Numbers, Chosen, TimesOf, problemVars, locals
<1>2. Spaced' /\ Poses' /\ Filled'
  BY DEF ProblemInv, Spaced, Poses, Filled, Known, TimesOf, Distance, Chosen, problemVars, locals
<1>3. Complete'
  BY DEF ProblemInv, Complete, Known, TimesOf, Near, Distance, problemVars, locals
<1> QED
  BY <1>1, <1>2, <1>3 DEF ProblemInv

LEMMA ProblemInvariant == ProblemSpec => []ProblemInv
<1>1. ProblemInv /\ [ProblemNext]_problemVars => ProblemInv'
  BY CopyKeeps, SkipKeeps, UseKeeps, SelectedKeeps, StillKeeps, BuildKeeps, RecoverKeeps, ReturnKeeps,
     VisitKeeps, LookKeeps, StutterKeeps
     DEF ProblemNext, Succeed, Fail
<1> QED
  BY InitProblem, <1>1, PTL DEF ProblemSpec

(* The poses have a first one, and it is not the newest. *)
LEMMA OldestExists ==
  ASSUME ProblemInv, phase \in Chosen
  PROVE  \E t \in camera_times : IsOldest(t) /\ t < NewestTime /\ \A s \in camera_times : t <= s
<1>1. /\ camera_times = {NewestTime} \cup TimesOf(counted)
      /\ camera_times \subseteq Nat /\ \A t \in camera_times : t < NewestTime + PoseGap
  BY KnownTimes DEF ProblemInv, Shape, Chosen, Known
<1>2. \A t \in camera_times : t # NewestTime => t < NewestTime
  BY <1>1, ProblemAssumption DEF ProblemInv, Spaced, Known, Distance
<1>3. camera_times # {NewestTime}
  <2>1. Cardinality({NewestTime}) = 1
    BY FS_Singleton
  <2>2. Cardinality(camera_times) >= NumPoses
    BY DEF ProblemInv, Poses
  <2>3. NumPoses > 1
    BY ProblemAssumption
  <2>4. NumPoses \in Int
    BY ProblemAssumption
  <2> QED
    BY <2>1, <2>2, <2>3, <2>4
<1>4. PICK u \in camera_times : u # NewestTime
  BY <1>1, <1>3
<1>5. PICK t \in camera_times : \A s \in camera_times : t <= s
  BY <1>1, LeastExists
<1>6. t < NewestTime
  BY <1>1, <1>2, <1>4, <1>5, ProblemAssumption
<1>7. IsOldest(t)
  BY <1>1, <1>5, <1>6, ProblemAssumption DEF IsOldest
<1> QED
  BY <1>5, <1>6, <1>7

-----------------------------------------------------------------------------
(* The linear system has a row for every row that was allocated, and no    *)
(* more: the measurements with a pose at the end are those that were       *)
(* counted when their feature was chosen, in whatever order the hash map   *)
(* yields the features and however they compete for the poses.             *)
THEOREM SystemFilled == ProblemSpec => []SystemIsFull
<1>1. ProblemInv => SystemIsFull
  BY DEF ProblemInv, Filled, SystemIsFull
<1> QED
  BY ProblemInvariant, <1>1, PTL

(* The oldest time counted is the first of the sorted poses and earlier    *)
(* than the newest: the asserts in front of the integration and of the     *)
(* IMU factors hold.                                                       *)
THEOREM ChainStartsAtOldest == ProblemSpec => []OldestIsFirst
<1>1. ProblemInv => OldestIsFirst
  BY OldestExists DEF OldestIsFirst, Chosen
<1> QED
  BY ProblemInvariant, <1>1, PTL

-----------------------------------------------------------------------------
(* The optimisation problem as a graph *)

Elements(r) == {r[i] : i \in DOMAIN r}

LEMMA ElementsOfPriors ==
  /\ \A t : Elements(FirstPrior(t).params)
              = {<<"ori", t>>, <<"pos", t>>, <<"bias_g", t>>, <<"bias_a", t>>}
  /\ \A c : Elements(ExtrinsicPrior(c).params) = {<<"calib_ori", c>>, <<"calib_pos", c>>}
  /\ \A c : Elements(IntrinsicPrior(c).params) = {<<"calib_cam", c>>}
<1>1. \A a, b, c, d : Elements(<<a, b, c, d>>) = {a, b, c, d}
  BY DEF Elements
<1>2. \A a, b : Elements(<<a, b>>) = {a, b}
  BY DEF Elements
<1>3. \A a : Elements(<<a>>) = {a}
  BY DEF Elements
<1>4. ASSUME NEW t PROVE FirstPrior(t).params = <<<<"ori", t>>, <<"pos", t>>, <<"bias_g", t>>, <<"bias_a", t>>>>
  BY DEF FirstPrior
<1>5. ASSUME NEW c
      PROVE  /\ ExtrinsicPrior(c).params = <<<<"calib_ori", c>>, <<"calib_pos", c>>>>
             /\ IntrinsicPrior(c).params = <<<<"calib_cam", c>>>>
  BY DEF ExtrinsicPrior, IntrinsicPrior
<1>6. ASSUME NEW t
      PROVE  Elements(FirstPrior(t).params)
               = {<<"ori", t>>, <<"pos", t>>, <<"bias_g", t>>, <<"bias_a", t>>}
  <2>1. Elements(<<<<"ori", t>>, <<"pos", t>>, <<"bias_g", t>>, <<"bias_a", t>>>>)
          = {<<"ori", t>>, <<"pos", t>>, <<"bias_g", t>>, <<"bias_a", t>>}
    BY <1>1
  <2> QED
    BY <1>4, <2>1, Zenon
<1>7. ASSUME NEW c
      PROVE  /\ Elements(ExtrinsicPrior(c).params) = {<<"calib_ori", c>>, <<"calib_pos", c>>}
             /\ Elements(IntrinsicPrior(c).params) = {<<"calib_cam", c>>}
  BY <1>2, <1>3, <1>5
<1> QED
  BY <1>6, <1>7

LEMMA ElementsOfImage ==
  ASSUME NEW t, NEW f, NEW c
  PROVE  Elements(ImageParams(t, f, c))
           = {<<"ori", t>>, <<"pos", t>>, <<"feat", f>>,
              <<"calib_ori", c>>, <<"calib_pos", c>>, <<"calib_cam", c>>}
<1>1. \A u, v, w, x, y, z : Elements(<<u, v, w, x, y, z>>) = {u, v, w, x, y, z}
  BY DEF Elements
<1> QED
  BY <1>1 DEF ImageParams

LEMMA ElementsOfState ==
  ASSUME NEW T, NEW t \in T
  PROVE  StateParams(t) \in Seq(StateKinds \X T) /\ Elements(StateParams(t)) = StateBlocks({t})
<1>1. \A v, w, x, y, z : Elements(<<v, w, x, y, z>>) = {v, w, x, y, z}
  BY DEF Elements
<1>2. Elements(StateParams(t)) = {<<"ori", t>>, <<"bias_g", t>>, <<"vel", t>>, <<"bias_a", t>>, <<"pos", t>>}
  BY <1>1 DEF StateParams
<1>3. StateParams(t) \in Seq(StateKinds \X T)
  BY DEF StateParams, StateKinds
<1> QED
  BY <1>2, <1>3 DEF StateBlocks, StateKinds

LEMMA ElementsOfImu ==
  ASSUME NEW s, NEW t
  PROVE  Elements(ImuParams(s, t)) = StateBlocks({s, t})
<1> DEFINE a == StateParams(s)
           b == StateParams(t)
           S == StateKinds \X {s, t}
<1>1. a \in Seq(S) /\ b \in Seq(S)
  <2>1. s \in {s, t} /\ t \in {s, t}
    OBVIOUS
  <2> QED
    BY <2>1, ElementsOfState, Zenon
<1>2. Elements(a) = StateBlocks({s}) /\ Elements(b) = StateBlocks({t})
  <2>1. s \in {s} /\ t \in {t}
    OBVIOUS
  <2> QED
    BY <2>1, ElementsOfState, Zenon
<1> HIDE DEF a, b
<1>3. ASSUME NEW q \in Seq(S), NEW r \in Seq(S)
      PROVE  Elements(q \o r) = Elements(q) \cup Elements(r)
  <2>1. /\ q \o r \in Seq(S) /\ Len(q \o r) = Len(q) + Len(r)
        /\ \A i \in 1 .. Len(q) + Len(r) :
             (q \o r)[i] = IF i <= Len(q) THEN q[i] ELSE r[i - Len(q)]
    BY ConcatProperties
  <2>2. /\ DOMAIN q = 1 .. Len(q) /\ DOMAIN r = 1 .. Len(r) /\ Len(q) \in Nat /\ Len(r) \in Nat
        /\ DOMAIN (q \o r) = 1 .. Len(q) + Len(r)
    BY <2>1, LenProperties
  <2>3. ASSUME NEW i \in DOMAIN (q \o r) PROVE (q \o r)[i] \in Elements(q) \cup Elements(r)
    <3>1. CASE i <= Len(q)
      BY <2>1, <2>2, <3>1 DEF Elements
    <3>2. CASE ~(i <= Len(q))
      <4>1. i - Len(q) \in DOMAIN r /\ (q \o r)[i] = r[i - Len(q)]
        BY <2>1, <2>2, <3>2
      <4> QED
        BY <4>1 DEF Elements
    <3> QED
      BY <3>1, <3>2
  <2>4. ASSUME NEW i \in DOMAIN q PROVE q[i] \in Elements(q \o r)
    <3>1. i \in DOMAIN (q \o r) /\ (q \o r)[i] = q[i]
      BY <2>1, <2>2
    <3> QED
      BY <3>1 DEF Elements
  <2>5. ASSUME NEW i \in DOMAIN r PROVE r[i] \in Elements(q \o r)
    <3>1. i + Len(q) \in 1 .. Len(q) + Len(r) /\ ~(i + Len(q) <= Len(q)) /\ (i + Len(q)) - Len(q) = i
      BY <2>2
    <3>2. i + Len(q) \in DOMAIN (q \o r) /\ (q \o r)[i + Len(q)] = r[i]
      BY <2>1, <2>2, <3>1
    <3> QED
      BY <3>2 DEF Elements
  <2> QED
    BY <2>3, <2>4, <2>5 DEF Elements
<1>4. Elements(a \o b) = StateBlocks({s}) \cup StateBlocks({t})
  BY <1>1, <1>2, <1>3
<1>5. ImuParams(s, t) = a \o b
  BY DEF ImuParams, a, b
<1>6. StateBlocks({s}) \cup StateBlocks({t}) = StateBlocks({s, t})
  BY DEF StateBlocks
<1> QED
  BY <1>4, <1>5, <1>6

(* The cameras the problem knows are those of what was counted.            *)
CamerasInv == camera_ids = {m.cam : m \in counted}

LEMMA CamerasKept == CamerasInv /\ [ProblemNext]_problemVars => CamerasInv'
<1> SUFFICES ASSUME CamerasInv, [ProblemNext]_problemVars PROVE CamerasInv'
  OBVIOUS
<1> USE DEF CamerasInv
<1>1. CASE UNCHANGED <<camera_ids, counted>>
  BY <1>1
<1>2. ASSUME NEW to, Return(to) PROVE CamerasInv'
  BY <1>2 DEF Return
<1>3. CASE Copy \/ Skip \/ Integrate \/ BuildSystem \/ Optimize
  BY <1>1, <1>2, <1>3 DEF Copy, Skip, Integrate, BuildSystem, Optimize, locals
<1>4. CASE Use
  BY <1>4 DEF Use
<1>5. CASE Selected
  BY <1>1, <1>2, <1>5 DEF Selected, locals
<1>6. CASE Recover
  BY <1>1, <1>2, <1>6 DEF Recover
<1>7. CASE Succeed \/ Fail
  BY <1>2, <1>7 DEF Succeed, Fail
<1>8. ASSUME NEW f \in unvisited, Visit(f) PROVE CamerasInv'
  BY <1>1, <1>8 DEF Visit
<1>9. ASSUME NEW m \in pending, Look(m) PROVE CamerasInv'
  BY <1>1, <1>9 DEF Look
<1>10. CASE UNCHANGED problemVars
  BY <1>1, <1>10 DEF problemVars, locals
<1> QED
  BY <1>3, <1>4, <1>5, <1>6, <1>7, <1>8, <1>9, <1>10 DEF ProblemNext

(* The time before and the time after, in the order of the poses.          *)
LEMMA Neighbours ==
  ASSUME ProblemInv, phase \in Chosen, NEW t \in camera_times
  PROVE  /\ IsOldest(t) \/ \E s \in camera_times : <<s, t>> \in IitoIi1
         /\ \/ \E s \in camera_times : <<s, t>> \in IitoIi1
            \/ \E s \in camera_times : <<t, s>> \in IitoIi1
<1>1. camera_times \subseteq Nat /\ NewestTime \in camera_times
  BY KnownTimes DEF ProblemInv, Shape, Chosen, Known
<1>2. PICK o \in camera_times : IsOldest(o) /\ o < NewestTime /\ \A s \in camera_times : o <= s
  BY OldestExists
<1>3. \A u : IsOldest(u) => u = o
  <2>1. TimesOf(counted) \subseteq Nat
    BY <1>1 DEF ProblemInv, Shape, Chosen
  <2> QED
    BY <1>2, <2>1 DEF IsOldest
<1>4. CASE t # o
  <2> DEFINE Smaller == {s \in camera_times : s < t}
  <2>1. o \in Smaller /\ ~IsOldest(t)
    BY <1>1, <1>2, <1>3, <1>4
  <2>2. PICK s \in Smaller : \A u \in Smaller : u <= s
    <3>1. Smaller \subseteq Nat /\ Smaller # {} /\ t \in Nat /\ \A n \in Smaller : n < t
      BY <1>1, <2>1
    <3> HIDE DEF Smaller
    <3>2. Smaller \subseteq Int /\ t \in Int /\ \A n \in Smaller : n <= t
      <4>1. \A n \in Smaller : n \in Nat /\ n < t
        BY <3>1
      <4>2. \A n \in Smaller : n <= t
        BY <3>1, <4>1
      <4> QED
        BY <3>1, <4>2
    <3> QED
      BY <3>1, <3>2, GreatestExists
  <2>3. \A u \in camera_times : u <= s \/ t <= u
    BY <1>1, <2>2
  <2>4. <<s, t>> \in IitoIi1
    BY <2>1, <2>2, <2>3 DEF IitoIi1
  <2> QED
    BY <2>4
<1>5. CASE t = o
  <2> DEFINE Later == {s \in camera_times : o < s}
  <2>1. NewestTime \in Later
    BY <1>1, <1>2
  <2>2. PICK s \in Later : \A u \in Later : s <= u
    <3>1. Later \subseteq Nat /\ Later # {}
      BY <1>1, <2>1
    <3> QED
      BY <3>1, LeastExists
  <2>3. \A u \in camera_times : u <= t \/ s <= u
    BY <1>1, <1>5, <2>2
  <2>4. ~IsOldest(s)
    BY <1>1, <1>3, <2>2
  <2>5. <<t, s>> \in IitoIi1
    BY <1>5, <2>2, <2>3, <2>4 DEF IitoIi1
  <2> QED
    BY <1>2, <1>5, <2>5
<1> QED
  BY <1>4, <1>5

(* The optimisation problem is whole: every factor's parameters were added *)
(* as blocks, and every block is a parameter of a factor, so that nothing  *)
(* Ceres solves for floats; the poses form one chain of integrations from  *)
(* the first to the newest, whatever measurements competed for them.       *)
THEOREM NothingFloats == ProblemSpec => []GraphIsWhole
<1>1. ASSUME ProblemInv, CamerasInv, phase = "optimize" PROVE GraphIsWhole
  <2> DEFINE InResiduals == UNION {Elements(r) : r \in Residuals}
  <2>0. phase \in Chosen
    BY <1>1 DEF Chosen
  <2>1. /\ {m \in features : InSystem(m)} = counted
        /\ NewestTime \in camera_times
    BY <1>1, <2>0, SystemIsCounted DEF ProblemInv, Shape, Chosen
  <2>2. ASSUME NEW m \in ImageFactors
        PROVE  m.time \in camera_times /\ m.cam \in camera_ids /\ m.feat \in FeaturesOf(ImageFactors)
    BY <1>1, <2>1, <2>2 DEF ImageFactors, InSystem, CamerasInv, FeaturesOf
  <2>3. ASSUME NEW r \in Residuals PROVE Elements(r) \subseteq Blocks
    <3>1. CASE \E t \in camera_times : r = FirstPrior(t).params
      <4>1. PICK t \in camera_times : r = FirstPrior(t).params
        BY <3>1
      <4>2. Elements(r) = {<<"ori", t>>, <<"pos", t>>, <<"bias_g", t>>, <<"bias_a", t>>}
        BY <4>1, ElementsOfPriors
      <4> QED
        BY <4>2 DEF Blocks, StateBlocks, StateKinds
    <3>2. CASE \E c \in camera_ids : r \in {ExtrinsicPrior(c).params, IntrinsicPrior(c).params}
      <4>1. PICK c \in camera_ids : r \in {ExtrinsicPrior(c).params, IntrinsicPrior(c).params}
        BY <3>2
      <4>2. Elements(r) \subseteq {<<"calib_ori", c>>, <<"calib_pos", c>>, <<"calib_cam", c>>}
        BY <4>1, ElementsOfPriors
      <4> QED
        BY <4>2 DEF Blocks, CalibBlocks, CalibKinds
    <3>3. CASE \E p \in IitoIi1 : r = ImuParams(p[1], p[2])
      <4>1. PICK p \in IitoIi1 : r = ImuParams(p[1], p[2])
        BY <3>3
      <4>2. p[1] \in camera_times /\ p[2] \in camera_times
        BY DEF IitoIi1
      <4>3. Elements(r) = StateBlocks({p[1], p[2]})
        BY <4>1, ElementsOfImu
      <4> QED
        BY <4>2, <4>3 DEF Blocks, StateBlocks
    <3>4. CASE \E m \in ImageFactors : r = ImageParams(m.time, m.feat, m.cam)
      <4>1. PICK m \in ImageFactors : r = ImageParams(m.time, m.feat, m.cam)
        BY <3>4
      <4>2. Elements(r) = {<<"ori", m.time>>, <<"pos", m.time>>, <<"feat", m.feat>>,
                           <<"calib_ori", m.cam>>, <<"calib_pos", m.cam>>, <<"calib_cam", m.cam>>}
        BY <4>1, ElementsOfImage
      <4> QED
        BY <2>2, <4>2 DEF Blocks, StateBlocks, StateKinds, CalibBlocks, CalibKinds, FeatureBlocks
    <3> QED
      BY <3>1, <3>2, <3>3, <3>4 DEF Residuals, PriorFactors
  <2>4. ASSUME NEW t \in camera_times PROVE StateBlocks({t}) \subseteq InResiduals
    <3>1. PICK p \in IitoIi1 : t \in {p[1], p[2]}
      <4>1. PICK s \in camera_times : <<s, t>> \in IitoIi1 \/ <<t, s>> \in IitoIi1
        BY <1>1, <2>0, Neighbours
      <4> QED
        BY <4>1
    <3>2. ImuParams(p[1], p[2]) \in Residuals
      BY DEF Residuals
    <3>3. Elements(ImuParams(p[1], p[2])) = StateBlocks({p[1], p[2]})
      BY ElementsOfImu
    <3>4. StateBlocks({t}) \subseteq StateBlocks({p[1], p[2]})
      BY <3>1 DEF StateBlocks
    <3> QED
      BY <3>2, <3>3, <3>4
  <2>5. ASSUME NEW c \in camera_ids PROVE CalibBlocks({c}) \subseteq InResiduals
    <3>1. ExtrinsicPrior(c).params \in Residuals /\ IntrinsicPrior(c).params \in Residuals
      BY DEF Residuals, PriorFactors
    <3>2. CalibBlocks({c}) = Elements(ExtrinsicPrior(c).params) \cup Elements(IntrinsicPrior(c).params)
      BY ElementsOfPriors DEF CalibBlocks, CalibKinds
    <3> QED
      BY <3>1, <3>2
  <2>6. ASSUME NEW f \in FeaturesOf(ImageFactors) PROVE <<"feat", f>> \in InResiduals
    <3>1. PICK m \in ImageFactors : f = m.feat
      BY DEF FeaturesOf
    <3>2. ImageParams(m.time, m.feat, m.cam) \in Residuals
      BY DEF Residuals
    <3>3. <<"feat", f>> \in Elements(ImageParams(m.time, m.feat, m.cam))
      BY <3>1, ElementsOfImage
    <3> QED
      BY <3>2, <3>3
  <2>7. Blocks \subseteq InResiduals
    <3>1. StateBlocks(camera_times) \subseteq InResiduals
      BY <2>4 DEF StateBlocks
    <3>2. CalibBlocks(camera_ids) \subseteq InResiduals
      BY <2>5 DEF CalibBlocks
    <3>3. FeatureBlocks(FeaturesOf(ImageFactors)) \subseteq InResiduals
      BY <2>6 DEF FeatureBlocks
    <3> QED
      BY <3>1, <3>2, <3>3 DEF Blocks
  <2>8. InResiduals = Blocks
    BY <2>3, <2>7
  <2>9. \A t \in camera_times : IsOldest(t) \/ \E s \in camera_times : <<s, t>> \in IitoIi1
    BY <1>1, <2>0, Neighbours
  <2> QED
    BY <2>1, <2>8, <2>9 DEF GraphIsWhole, Elements
<1>2. ProblemInv /\ CamerasInv => GraphIsWhole
  BY <1>1 DEF GraphIsWhole
<1>3. ProblemInit => CamerasInv
  BY DEF ProblemInit, CamerasInv
<1> QED
  BY <1>2, <1>3, ProblemInvariant, CamerasKept, PTL DEF ProblemSpec

-----------------------------------------------------------------------------
(* The factors and the lists they are built from *)

(* The definition of Sum is one: a function that satisfies it exists. *)
LEMMA SumOneByOne ==
  ASSUME NEW s, Len(s) \in Nat
  PROVE  \E upTo : /\ upTo[0] = 0 /\ \A i \in 1 .. Len(s) : upTo[i] = upTo[i - 1] + s[i]
                   /\ Sum(s) = upTo[Len(s)]
<1> DEFINE Solves(f, k) == f = [i \in 0 .. k |-> IF i = 0 THEN 0 ELSE f[i - 1] + s[i]]
           S == {k \in Nat : \E f : Solves(f, k)}
<1>1. 0 \in S
  <2> DEFINE f == [i \in 0 .. 0 |-> 0]
  <2>1. Solves(f, 0)
    OBVIOUS
  <2> QED
    BY <2>1
<1>2. ASSUME NEW k \in Nat, k \in S PROVE k + 1 \in S
  <2>1. PICK f : Solves(f, k)
    BY <1>2
  <2> DEFINE g == [i \in 0 .. k + 1 |-> IF i = k + 1 THEN f[k] + s[k + 1] ELSE f[i]]
  <2>2. \A i \in 0 .. k : g[i] = f[i]
    OBVIOUS
  <2>3. ASSUME NEW i \in 0 .. k + 1, i # 0 PROVE g[i] = g[i - 1] + s[i]
    <3>1. CASE i = k + 1
      <4>1. g[i] = f[k] + s[k + 1] /\ i - 1 = k /\ k \in 0 .. k
        BY <3>1
      <4> QED
        BY <2>2, <3>1, <4>1
    <3>2. CASE i # k + 1
      <4>1. i \in 0 .. k /\ i - 1 \in 0 .. k
        BY <2>3, <3>2
      <4>2. f[i] = f[i - 1] + s[i]
        BY <2>1, <2>3, <4>1
      <4> QED
        BY <2>2, <4>1, <4>2
    <3> QED
      BY <3>1, <3>2
  <2>4. g[0] = 0
    BY <2>1, <2>2
  <2>5. Solves(g, k + 1)
    BY <2>3, <2>4
  <2>6. \E f1 : Solves(f1, k + 1)
    <3> HIDE DEF Solves, g
    <3> QED
      BY <2>5
  <2>7. k + 1 \in Nat
    OBVIOUS
  <2> QED
    BY <2>6, <2>7
<1>3. \E f : Solves(f, Len(s))
  <2> HIDE DEF S
  <2>1. Len(s) \in S
    BY <1>1, <1>2, Induction
  <2> QED
    BY <2>1 DEF S
<1> DEFINE upTo == CHOOSE f : Solves(f, Len(s))
<1>4. Solves(upTo, Len(s))
  BY <1>3
<1>5. Sum(s) = upTo[Len(s)]
  BY DEF Sum
<1>6. upTo[0] = 0 /\ \A i \in 1 .. Len(s) : upTo[i] = upTo[i - 1] + s[i]
  <2>1. upTo = [i \in 0 .. Len(s) |-> IF i = 0 THEN 0 ELSE upTo[i - 1] + s[i]]
    BY <1>4
  <2>2. 0 \in 0 .. Len(s) /\ \A i \in 1 .. Len(s) : i \in 0 .. Len(s) /\ i # 0
    OBVIOUS
  <2> HIDE DEF upTo, Solves, S
  <2> QED
    BY <2>1, <2>2
<1> HIDE DEF upTo, Solves, S
<1> QED
  BY <1>5, <1>6

(* x runs through the totals of s. *)
Totals(x, s) == x[1] = 0 /\ \A i \in 1 .. Len(s) : x[i + 1] = x[i] + s[i]

(* A sum is the last of them. *)
LEMMA SumIsTotal ==
  ASSUME NEW s, NEW x, Len(s) \in Nat, Totals(x, s)
  PROVE  Sum(s) = x[Len(s) + 1]
<1> USE DEF Totals
<1>1. PICK upTo : /\ upTo[0] = 0 /\ \A i \in 1 .. Len(s) : upTo[i] = upTo[i - 1] + s[i]
                  /\ Sum(s) = upTo[Len(s)]
  BY SumOneByOne
<1> DEFINE S == {n \in Nat : n <= Len(s) => upTo[n] = x[n + 1]}
<1>2. 0 \in S
  BY <1>1
<1>3. ASSUME NEW n \in Nat, n \in S PROVE n + 1 \in S
  <2>1. n + 1 <= Len(s) => n <= Len(s) /\ n + 1 \in 1 .. Len(s) /\ (n + 1) - 1 = n
    OBVIOUS
  <2>2. n + 1 <= Len(s) => upTo[n + 1] = upTo[n] + s[n + 1]
    BY <1>1, <2>1
  <2>3. n + 1 <= Len(s) => upTo[n] = x[n + 1]
    BY <1>3, <2>1
  <2>4. n + 1 <= Len(s) => x[(n + 1) + 1] = x[n + 1] + s[n + 1]
    BY <2>1
  <2> QED
    BY <2>2, <2>3, <2>4
<1>4. Len(s) \in S
  <2> HIDE DEF S
  <2> QED
    BY <1>2, <1>3, Induction
<1> QED
  BY <1>1, <1>4

(* So is the sum of what stands before an element. *)
LEMMA BeforeIsTotal ==
  ASSUME NEW s, NEW x, Len(s) \in Nat, Totals(x, s), NEW i \in 1 .. Len(s)
  PROVE  Before(s, i) = x[i]
<1> DEFINE t == SubSeq(s, 1, i - 1)
           S == {s[k] : k \in 1 .. Len(s)}
<1>1. \A k \in 1 .. Len(s) : s[k] \in S
  OBVIOUS
<1>2. Len(t) = i - 1 /\ \A k \in 1 .. i - 1 : t[k] = s[k]
  <2>1. \A k \in 1 .. i - 1 : s[k] \in S
    BY <1>1
  <2>2. /\ Len(t) = IF 1 <= i - 1 THEN (i - 1) - 1 + 1 ELSE 0
        /\ \A k \in 1 .. (i - 1) - 1 + 1 : t[k] = s[1 + k - 1]
    BY <1>1, <2>1, SubSeqProperties
  <2>3. \A k \in 1 .. i - 1 : 1 + k - 1 = k
    OBVIOUS
  <2> HIDE DEF t
  <2> QED
    BY <1>1, <2>2, <2>3
<1>3. Before(s, i) = Sum(t)
  BY DEF Before
<1> HIDE DEF t, S
<1>4. Len(t) \in Nat /\ Totals(x, t)
  BY <1>2 DEF Totals
<1>5. Sum(t) = x[Len(t) + 1]
  BY <1>4, SumIsTotal
<1> QED
  BY <1>1, <1>2, <1>3, <1>5

(* The totals of the sizes of a prior's variables, of their errors and of  *)
(* the blocks of its information matrix are those it was written with.     *)
WrittenWith(P, n, m, x, e, y) ==
  /\ DOMAIN P.types = 1 .. n /\ DOMAIN P.info = 1 .. m
  /\ x[1] = 0 /\ e[1] = 0 /\ y[1] = 0
  /\ \A i \in 1 .. n : /\ P.x_lin[i] = x[i]
                       /\ x[i + 1] = x[i] + PriorSize(P.types[i])
                       /\ e[i + 1] = e[i] + PriorError(P.types[i])
  /\ \A j \in 1 .. m : P.info[j][1] = y[j] /\ y[j + 1] = y[j] + P.info[j][2]
  /\ P.x_rows = x[n + 1] /\ P.info_rows = e[n + 1] /\ P.info_rows = y[m + 1]

LEMMA PriorFitsByTotals ==
  ASSUME NEW P, NEW n \in Nat, NEW m \in Nat, NEW x, NEW e, NEW y, WrittenWith(P, n, m, x, e, y),
         \A i \in 1 .. n : PriorSize(P.types[i]) = BlockSize(P.params[i][1])
  PROVE  PriorFits(P)
<1> DEFINE s == Sizes(P)
           t == Errors(P)
<1>1. Len(s) = n /\ \A i \in 1 .. n : s[i] = PriorSize(P.types[i])
  <2>1. s = [i \in 1 .. n |-> PriorSize(P.types[i])]
    BY DEF Sizes, WrittenWith
  <2> HIDE DEF s
  <2> QED
    BY <2>1
<1>2. Len(t) = n /\ \A i \in 1 .. n : t[i] = PriorError(P.types[i])
  <2>1. t = [i \in 1 .. n |-> PriorError(P.types[i])]
    BY DEF Errors, WrittenWith
  <2> HIDE DEF t
  <2> QED
    BY <2>1
<1> HIDE DEF s, t
<1>3. Len(s) \in Nat /\ Totals(x, s) /\ Len(t) \in Nat /\ Totals(e, t)
  BY <1>1, <1>2 DEF Totals, WrittenWith
<1>4. Sum(s) = P.x_rows
  <2>1. Sum(s) = x[Len(s) + 1]
    BY <1>3, SumIsTotal
  <2> QED
    BY <1>1, <2>1 DEF WrittenWith
<1>5. Sum(t) = P.info_rows
  <2>1. Sum(t) = e[Len(t) + 1]
    BY <1>3, SumIsTotal
  <2> QED
    BY <1>2, <2>1 DEF WrittenWith
<1>6. ASSUME NEW i \in 1 .. n PROVE GlobalIt(P, i) = P.x_lin[i]
  <2>1. i \in 1 .. Len(s)
    BY <1>1
  <2>2. Before(s, i) = x[i]
    BY <1>3, <2>1, BeforeIsTotal
  <2> QED
    BY <2>2 DEF GlobalIt, WrittenWith, s
<1>7. ASSUME NEW k \in 0 .. m PROVE Sum([j \in 1 .. k |-> P.info[j][2]]) = y[k + 1]
  <2> DEFINE info == [j \in 1 .. k |-> P.info[j][2]]
  <2>1. Len(info) = k /\ \A j \in 1 .. k : info[j] = P.info[j][2]
    OBVIOUS
  <2> HIDE DEF info
  <2>2. Len(info) \in Nat /\ Totals(y, info)
    <3>1. y[1] = 0 /\ \A j \in 1 .. m : y[j + 1] = y[j] + P.info[j][2]
      BY DEF WrittenWith
    <3>2. \A j \in 1 .. k : y[j + 1] = y[j] + info[j]
      BY <2>1, <3>1
    <3> QED
      BY <2>1, <3>1, <3>2 DEF Totals
  <2>3. Sum(info) = y[Len(info) + 1]
    BY <2>2, SumIsTotal
  <2> QED
    BY <2>1, <2>3 DEF info
<1>8. \A j \in 1 .. m : P.info[j][1] = Sum([k \in 1 .. j - 1 |-> P.info[k][2]])
  <2> SUFFICES ASSUME NEW j \in 1 .. m PROVE P.info[j][1] = Sum([k \in 1 .. j - 1 |-> P.info[k][2]])
    OBVIOUS
  <2>1. j - 1 \in 0 .. m /\ (j - 1) + 1 = j
    OBVIOUS
  <2>2. Sum([k \in 1 .. j - 1 |-> P.info[k][2]]) = y[(j - 1) + 1]
    BY <1>7, <2>1
  <2> QED
    BY <2>1, <2>2 DEF WrittenWith
<1>9. DOMAIN P.types = 1 .. n /\ DOMAIN P.info = 1 .. m
  BY DEF WrittenWith
<1>10. Sum([k \in DOMAIN P.info |-> P.info[k][2]]) = P.info_rows
  <2>1. Sum([k \in 1 .. m |-> P.info[k][2]]) = y[m + 1]
    <3>1. m \in 0 .. m
      OBVIOUS
    <3> QED
      BY <1>7, <3>1
  <2> QED
    BY <1>9, <2>1 DEF WrittenWith
<1> QED
  BY <1>4, <1>5, <1>6, <1>8, <1>9, <1>10 DEF PriorFits, s, t

(* The three priors that are added. *)
LEMMA FirstPriorFits ==
  ASSUME NEW t
  PROVE  PriorFits(FirstPrior(t))
<1> DEFINE P == FirstPrior(t)
           x == <<0, 4, 7, 10, 13>>
           e == <<0, 1, 4, 7, 10>>
           y == <<0, 4, 7, 10>>
<1>1. /\ DOMAIN P.types = 1 .. 4 /\ DOMAIN P.info = 1 .. 3
      /\ P.x_rows = x[4 + 1] /\ P.info_rows = e[4 + 1] /\ P.info_rows = y[3 + 1]
      /\ x[1] = 0 /\ e[1] = 0 /\ y[1] = 0
  BY DEF FirstPrior
<1>2. \A i \in 1 .. 4 : PriorSize(P.types[i]) = BlockSize(P.params[i][1])
  BY DEF FirstPrior, PriorSize, BlockSize
<1>3. \A i \in 1 .. 4 : P.x_lin[i] = x[i] /\ x[i + 1] = x[i] + PriorSize(P.types[i])
  BY DEF FirstPrior, PriorSize
<1>4. \A i \in 1 .. 4 : e[i + 1] = e[i] + PriorError(P.types[i])
  BY DEF FirstPrior, PriorError
<1>5. \A j \in 1 .. 3 : P.info[j][1] = y[j] /\ y[j + 1] = y[j] + P.info[j][2]
  BY DEF FirstPrior
<1>6. 4 \in Nat /\ 3 \in Nat
  OBVIOUS
<1> HIDE DEF P, x, e, y
<1>7. WrittenWith(P, 4, 3, x, e, y)
  BY <1>1, <1>3, <1>4, <1>5 DEF WrittenWith
<1>8. PriorFits(P)
  BY <1>2, <1>6, <1>7, PriorFitsByTotals
<1> QED
  BY <1>8 DEF P

LEMMA ExtrinsicPriorFits ==
  ASSUME NEW cam
  PROVE  PriorFits(ExtrinsicPrior(cam))
<1> DEFINE P == ExtrinsicPrior(cam)
           x == <<0, 4, 7>>
           e == <<0, 3, 6>>
           y == <<0, 3, 6>>
<1>1. /\ DOMAIN P.types = 1 .. 2 /\ DOMAIN P.info = 1 .. 2
      /\ P.x_rows = x[2 + 1] /\ P.info_rows = e[2 + 1] /\ P.info_rows = y[2 + 1]
      /\ x[1] = 0 /\ e[1] = 0 /\ y[1] = 0
  BY DEF ExtrinsicPrior
<1>2. \A i \in 1 .. 2 : PriorSize(P.types[i]) = BlockSize(P.params[i][1])
  BY DEF ExtrinsicPrior, PriorSize, BlockSize
<1>3. \A i \in 1 .. 2 : P.x_lin[i] = x[i] /\ x[i + 1] = x[i] + PriorSize(P.types[i])
  BY DEF ExtrinsicPrior, PriorSize
<1>4. \A i \in 1 .. 2 : e[i + 1] = e[i] + PriorError(P.types[i])
  BY DEF ExtrinsicPrior, PriorError
<1>5. \A j \in 1 .. 2 : P.info[j][1] = y[j] /\ y[j + 1] = y[j] + P.info[j][2]
  BY DEF ExtrinsicPrior
<1>6. 2 \in Nat /\ 2 \in Nat
  OBVIOUS
<1> HIDE DEF P, x, e, y
<1>7. WrittenWith(P, 2, 2, x, e, y)
  BY <1>1, <1>3, <1>4, <1>5 DEF WrittenWith
<1>8. PriorFits(P)
  BY <1>2, <1>6, <1>7, PriorFitsByTotals
<1> QED
  BY <1>8 DEF P

LEMMA IntrinsicPriorFits ==
  ASSUME NEW cam
  PROVE  PriorFits(IntrinsicPrior(cam))
<1> DEFINE P == IntrinsicPrior(cam)
           x == <<0, 8>>
           e == <<0, 8>>
           y == <<0, 4, 8>>
<1>1. /\ DOMAIN P.types = 1 .. 1 /\ DOMAIN P.info = 1 .. 2
      /\ P.x_rows = x[1 + 1] /\ P.info_rows = e[1 + 1] /\ P.info_rows = y[2 + 1]
      /\ x[1] = 0 /\ e[1] = 0 /\ y[1] = 0
  BY DEF IntrinsicPrior
<1>2. \A i \in 1 .. 1 : PriorSize(P.types[i]) = BlockSize(P.params[i][1])
  BY DEF IntrinsicPrior, PriorSize, BlockSize
<1>3. \A i \in 1 .. 1 : P.x_lin[i] = x[i] /\ x[i + 1] = x[i] + PriorSize(P.types[i])
  BY DEF IntrinsicPrior, PriorSize
<1>4. \A i \in 1 .. 1 : e[i + 1] = e[i] + PriorError(P.types[i])
  BY DEF IntrinsicPrior, PriorError
<1>5. \A j \in 1 .. 2 : P.info[j][1] = y[j] /\ y[j + 1] = y[j] + P.info[j][2]
  BY DEF IntrinsicPrior
<1>6. 1 \in Nat /\ 2 \in Nat
  OBVIOUS
<1> HIDE DEF P, x, e, y
<1>7. WrittenWith(P, 1, 2, x, e, y)
  BY <1>1, <1>3, <1>4, <1>5 DEF WrittenWith
<1>8. PriorFits(P)
  BY <1>2, <1>6, <1>7, PriorFitsByTotals
<1> QED
  BY <1>8 DEF P

(* What the IMU factor is given, by position. *)
LEMMA ImuParamsAre ==
  ASSUME NEW k, NEW k1
  PROVE  /\ ImuParams(k, k1)[1] = <<"ori", k>> /\ ImuParams(k, k1)[2] = <<"bias_g", k>>
         /\ ImuParams(k, k1)[3] = <<"vel", k>> /\ ImuParams(k, k1)[4] = <<"bias_a", k>>
         /\ ImuParams(k, k1)[5] = <<"pos", k>>
         /\ ImuParams(k, k1)[6] = <<"ori", k1>> /\ ImuParams(k, k1)[7] = <<"bias_g", k1>>
         /\ ImuParams(k, k1)[8] = <<"vel", k1>> /\ ImuParams(k, k1)[9] = <<"bias_a", k1>>
         /\ ImuParams(k, k1)[10] = <<"pos", k1>>
<1> DEFINE s == StateParams(k)
           t == StateParams(k1)
           S == StateKinds \X {k, k1}
<1>1. s \in Seq(S) /\ t \in Seq(S) /\ Len(s) = 5 /\ Len(t) = 5
  BY DEF StateParams, StateKinds
<1>2. /\ s[1] = <<"ori", k>> /\ s[2] = <<"bias_g", k>> /\ s[3] = <<"vel", k>>
      /\ s[4] = <<"bias_a", k>> /\ s[5] = <<"pos", k>>
      /\ t[1] = <<"ori", k1>> /\ t[2] = <<"bias_g", k1>> /\ t[3] = <<"vel", k1>>
      /\ t[4] = <<"bias_a", k1>> /\ t[5] = <<"pos", k1>>
  BY DEF StateParams
<1>3. ImuParams(k, k1) = s \o t
  BY DEF ImuParams
<1> HIDE DEF s, t, S
<1>4. \A i \in 1 .. Len(s) + Len(t) : (s \o t)[i] = IF i <= Len(s) THEN s[i] ELSE t[i - Len(s)]
  BY <1>1, ConcatProperties
<1>5. ASSUME NEW i \in 1 .. 5 PROVE (s \o t)[i] = s[i] /\ (s \o t)[i + 5] = t[i]
  <2>1. /\ i \in 1 .. Len(s) + Len(t) /\ i <= Len(s)
        /\ i + 5 \in 1 .. Len(s) + Len(t) /\ ~(i + 5 <= Len(s)) /\ (i + 5) - Len(s) = i
    BY <1>1
  <2>2. (s \o t)[i] = s[i]
    BY <1>4, <2>1
  <2>3. (s \o t)[i + 5] = t[(i + 5) - Len(s)]
    BY <1>4, <2>1
  <2> QED
    BY <2>1, <2>2, <2>3
<1>6. \A i \in 1 .. 5 : ImuParams(k, k1)[i] = s[i]
  BY <1>3, <1>5
<1>7. \A i \in 1 .. 5 : ImuParams(k, k1)[i + 5] = t[i]
  BY <1>3, <1>5
<1>8. /\ ImuParams(k, k1)[6] = t[1] /\ ImuParams(k, k1)[7] = t[2] /\ ImuParams(k, k1)[8] = t[3]
      /\ ImuParams(k, k1)[9] = t[4] /\ ImuParams(k, k1)[10] = t[5]
  <2>1. 6 = 1 + 5 /\ 7 = 2 + 5 /\ 8 = 3 + 5 /\ 9 = 4 + 5 /\ 10 = 5 + 5
    OBVIOUS
  <2> QED
    BY <1>7, <2>1
<1> QED
  BY <1>2, <1>6, <1>8

(* Factor_ImuCPIv1 reads each of its ten parameters where it was pushed,   *)
(* and stores the columns its residuals depend on.                         *)
LEMMA ImuFactorsFit ==
  ASSUME NEW k, NEW k1
  PROVE  ImuFits(k, k1)
<1> DEFINE params == ImuParams(k, k1)
           Written(c) == {row \in DOMAIN ImuResidual : <<row, c>> \in ImuJacobian}
           Depends(x) == {row \in DOMAIN ImuResidual : x \in ImuResidual[row]}
<1>1. \A i \in 1 .. 10 : BlockSize(params[i][1]) = ImuSizes[i]
  BY ImuParamsAre DEF BlockSize, ImuSizes
<1>2. DOMAIN ImuResidual = {0, 3, 6, 9, 12}
  BY DEF ImuResidual
<1>3. /\ Written(0) = {0, 6, 12} /\ Written(3) = {0, 3, 6, 12} /\ Written(6) = {6, 12} /\ Written(9) = {6, 9, 12}
      /\ Written(12) = {12} /\ Written(15) = {0} /\ Written(18) = {3} /\ Written(21) = {6} /\ Written(24) = {9}
      /\ Written(27) = {12}
  BY <1>2 DEF ImuJacobian
<1>4. /\ Depends("q_1") = {0, 6, 12} /\ Depends("b_w1") = {0, 3, 6, 12} /\ Depends("v_1") = {6, 12}
      /\ Depends("b_a1") = {6, 9, 12} /\ Depends("p_1") = {12} /\ Depends("q_2") = {0} /\ Depends("b_w2") = {3}
      /\ Depends("v_2") = {6} /\ Depends("b_a2") = {9} /\ Depends("p_2") = {12}
  BY <1>2 DEF ImuResidual
<1>5. DOMAIN ImuReads = {"q_1", "b_w1", "v_1", "b_a1", "p_1", "q_2", "b_w2", "v_2", "b_a2", "p_2"}
  BY DEF ImuReads
<1>6. ASSUME NEW x \in DOMAIN ImuReads
      PROVE  /\ params[ImuReads[x] + 1] = <<TakenFor[x][1], IF TakenFor[x][2] = 1 THEN k ELSE k1>>
             /\ Written(ImuStored[ImuReads[x]]) = Depends(x)
  <2>1. CASE x = "q_1"
    <3>1. ImuReads[x] = 0 /\ TakenFor[x] = <<"ori", 1>> /\ ImuStored[0] = 0
      BY <2>1 DEF ImuReads, TakenFor, ImuStored
    <3>2. params[1] = <<"ori", k>>
      BY ImuParamsAre
    <3> HIDE DEF params, Written, Depends
    <3>3. params[ImuReads[x] + 1] = <<TakenFor[x][1], IF TakenFor[x][2] = 1 THEN k ELSE k1>>
      BY <3>1, <3>2
    <3>4. Written(ImuStored[ImuReads[x]]) = Depends(x)
      BY <1>3, <1>4, <2>1, <3>1
    <3> QED
      BY <3>3, <3>4
  <2>2. CASE x = "b_w1"
    <3>1. ImuReads[x] = 1 /\ TakenFor[x] = <<"bias_g", 1>> /\ ImuStored[1] = 3
      BY <2>2 DEF ImuReads, TakenFor, ImuStored
    <3>2. params[2] = <<"bias_g", k>>
      BY ImuParamsAre
    <3> HIDE DEF params, Written, Depends
    <3>3. params[ImuReads[x] + 1] = <<TakenFor[x][1], IF TakenFor[x][2] = 1 THEN k ELSE k1>>
      BY <3>1, <3>2
    <3>4. Written(ImuStored[ImuReads[x]]) = Depends(x)
      BY <1>3, <1>4, <2>2, <3>1
    <3> QED
      BY <3>3, <3>4
  <2>3. CASE x = "v_1"
    <3>1. ImuReads[x] = 2 /\ TakenFor[x] = <<"vel", 1>> /\ ImuStored[2] = 6
      BY <2>3 DEF ImuReads, TakenFor, ImuStored
    <3>2. params[3] = <<"vel", k>>
      BY ImuParamsAre
    <3> HIDE DEF params, Written, Depends
    <3>3. params[ImuReads[x] + 1] = <<TakenFor[x][1], IF TakenFor[x][2] = 1 THEN k ELSE k1>>
      BY <3>1, <3>2
    <3>4. Written(ImuStored[ImuReads[x]]) = Depends(x)
      BY <1>3, <1>4, <2>3, <3>1
    <3> QED
      BY <3>3, <3>4
  <2>4. CASE x = "b_a1"
    <3>1. ImuReads[x] = 3 /\ TakenFor[x] = <<"bias_a", 1>> /\ ImuStored[3] = 9
      BY <2>4 DEF ImuReads, TakenFor, ImuStored
    <3>2. params[4] = <<"bias_a", k>>
      BY ImuParamsAre
    <3> HIDE DEF params, Written, Depends
    <3>3. params[ImuReads[x] + 1] = <<TakenFor[x][1], IF TakenFor[x][2] = 1 THEN k ELSE k1>>
      BY <3>1, <3>2
    <3>4. Written(ImuStored[ImuReads[x]]) = Depends(x)
      BY <1>3, <1>4, <2>4, <3>1
    <3> QED
      BY <3>3, <3>4
  <2>5. CASE x = "p_1"
    <3>1. ImuReads[x] = 4 /\ TakenFor[x] = <<"pos", 1>> /\ ImuStored[4] = 12
      BY <2>5 DEF ImuReads, TakenFor, ImuStored
    <3>2. params[5] = <<"pos", k>>
      BY ImuParamsAre
    <3> HIDE DEF params, Written, Depends
    <3>3. params[ImuReads[x] + 1] = <<TakenFor[x][1], IF TakenFor[x][2] = 1 THEN k ELSE k1>>
      BY <3>1, <3>2
    <3>4. Written(ImuStored[ImuReads[x]]) = Depends(x)
      BY <1>3, <1>4, <2>5, <3>1
    <3> QED
      BY <3>3, <3>4
  <2>6. CASE x = "q_2"
    <3>1. ImuReads[x] = 5 /\ TakenFor[x] = <<"ori", 2>> /\ ImuStored[5] = 15
      BY <2>6 DEF ImuReads, TakenFor, ImuStored
    <3>2. params[6] = <<"ori", k1>>
      BY ImuParamsAre
    <3> HIDE DEF params, Written, Depends
    <3>3. params[ImuReads[x] + 1] = <<TakenFor[x][1], IF TakenFor[x][2] = 1 THEN k ELSE k1>>
      BY <3>1, <3>2
    <3>4. Written(ImuStored[ImuReads[x]]) = Depends(x)
      BY <1>3, <1>4, <2>6, <3>1
    <3> QED
      BY <3>3, <3>4
  <2>7. CASE x = "b_w2"
    <3>1. ImuReads[x] = 6 /\ TakenFor[x] = <<"bias_g", 2>> /\ ImuStored[6] = 18
      BY <2>7 DEF ImuReads, TakenFor, ImuStored
    <3>2. params[7] = <<"bias_g", k1>>
      BY ImuParamsAre
    <3> HIDE DEF params, Written, Depends
    <3>3. params[ImuReads[x] + 1] = <<TakenFor[x][1], IF TakenFor[x][2] = 1 THEN k ELSE k1>>
      BY <3>1, <3>2
    <3>4. Written(ImuStored[ImuReads[x]]) = Depends(x)
      BY <1>3, <1>4, <2>7, <3>1
    <3> QED
      BY <3>3, <3>4
  <2>8. CASE x = "v_2"
    <3>1. ImuReads[x] = 7 /\ TakenFor[x] = <<"vel", 2>> /\ ImuStored[7] = 21
      BY <2>8 DEF ImuReads, TakenFor, ImuStored
    <3>2. params[8] = <<"vel", k1>>
      BY ImuParamsAre
    <3> HIDE DEF params, Written, Depends
    <3>3. params[ImuReads[x] + 1] = <<TakenFor[x][1], IF TakenFor[x][2] = 1 THEN k ELSE k1>>
      BY <3>1, <3>2
    <3>4. Written(ImuStored[ImuReads[x]]) = Depends(x)
      BY <1>3, <1>4, <2>8, <3>1
    <3> QED
      BY <3>3, <3>4
  <2>9. CASE x = "b_a2"
    <3>1. ImuReads[x] = 8 /\ TakenFor[x] = <<"bias_a", 2>> /\ ImuStored[8] = 24
      BY <2>9 DEF ImuReads, TakenFor, ImuStored
    <3>2. params[9] = <<"bias_a", k1>>
      BY ImuParamsAre
    <3> HIDE DEF params, Written, Depends
    <3>3. params[ImuReads[x] + 1] = <<TakenFor[x][1], IF TakenFor[x][2] = 1 THEN k ELSE k1>>
      BY <3>1, <3>2
    <3>4. Written(ImuStored[ImuReads[x]]) = Depends(x)
      BY <1>3, <1>4, <2>9, <3>1
    <3> QED
      BY <3>3, <3>4
  <2>10. CASE x = "p_2"
    <3>1. ImuReads[x] = 9 /\ TakenFor[x] = <<"pos", 2>> /\ ImuStored[9] = 27
      BY <2>10 DEF ImuReads, TakenFor, ImuStored
    <3>2. params[10] = <<"pos", k1>>
      BY ImuParamsAre
    <3> HIDE DEF params, Written, Depends
    <3>3. params[ImuReads[x] + 1] = <<TakenFor[x][1], IF TakenFor[x][2] = 1 THEN k ELSE k1>>
      BY <3>1, <3>2
    <3>4. Written(ImuStored[ImuReads[x]]) = Depends(x)
      BY <1>3, <1>4, <2>10, <3>1
    <3> QED
      BY <3>3, <3>4
  <2> QED
    BY <1>5, <2>1, <2>2, <2>3, <2>4, <2>5, <2>6, <2>7, <2>8, <2>9, <2>10
<1> QED
  BY <1>1, <1>6 DEF ImuFits

(* So does Factor_ImageReprojCalib with its six. *)
LEMMA ImageFactorsFit ==
  ASSUME NEW t, NEW f, NEW cam
  PROVE  ImageFits(t, f, cam)
<1> DEFINE params == ImageParams(t, f, cam)
<1>1. /\ params[1][1] = "ori" /\ params[2][1] = "pos" /\ params[3][1] = "feat"
      /\ params[4][1] = "calib_ori" /\ params[5][1] = "calib_pos" /\ params[6][1] = "calib_cam"
  BY DEF ImageParams
<1>2. ASSUME NEW i \in 1 .. 6 PROVE BlockSize(params[i][1]) = ImageSizes[i]
  BY <1>1 DEF BlockSize, ImageSizes
<1>3. ASSUME NEW i \in 1 .. 6
      PROVE  ImageWritten[i] = <<TangentSize(params[i][1]), BlockSize(params[i][1]) - TangentSize(params[i][1])>>
  BY <1>1 DEF BlockSize, TangentSize, ImageWritten
<1>4. \A x \in DOMAIN ImageReads : params[ImageReads[x] + 1][1] = ImageTakenFor[x]
  BY <1>1 DEF ImageReads, ImageTakenFor
<1> QED
  BY <1>2, <1>3, <1>4 DEF ImageFits

(* The members of the IMU factor: the argument at its formal's place. *)
LEMMA MemberAt ==
  ASSUME NEW x, NEW i \in 1 .. 13, Formals[i] = Members[x]
  PROVE  Member(x) = Passed[i]
<1>1. DOMAIN Formals = 1 .. 13
  BY DEF Formals
<1>2. \A j \in 1 .. 13 : Formals[j] = Formals[i] => j = i
  BY DEF Formals
<1> QED
  BY <1>1, <1>2 DEF Member

LEMMA MembersAre ==
  /\ Member("q_breve") = "q_k2tau" /\ Member("beta") = "beta_tau" /\ Member("alpha") = "alpha_tau"
  /\ Member("J_q") = "J_q" /\ Member("J_b") = "J_b" /\ Member("J_a") = "J_a"
  /\ Member("H_b") = "H_b" /\ Member("H_a") = "H_a"
  /\ Member("b_a_lin_save") = "b_a_lin" /\ Member("b_w_lin_save") = "b_w_lin"
<1>1. /\ Formals[3] = Members["alpha"] /\ Formals[4] = Members["beta"] /\ Formals[5] = Members["q_breve"]
      /\ Formals[6] = Members["b_a_lin_save"] /\ Formals[7] = Members["b_w_lin_save"]
      /\ Formals[8] = Members["J_q"] /\ Formals[9] = Members["J_b"] /\ Formals[10] = Members["J_a"]
      /\ Formals[11] = Members["H_b"] /\ Formals[12] = Members["H_a"]
  BY DEF Formals, Members
<1>2. /\ Passed[3] = "alpha_tau" /\ Passed[4] = "beta_tau" /\ Passed[5] = "q_k2tau"
      /\ Passed[6] = "b_a_lin" /\ Passed[7] = "b_w_lin" /\ Passed[8] = "J_q" /\ Passed[9] = "J_b"
      /\ Passed[10] = "J_a" /\ Passed[11] = "H_b" /\ Passed[12] = "H_a"
  BY DEF Passed
<1> QED
  BY <1>1, <1>2, MemberAt

(* The order of the statements of feed_IMU. *)
LEMMA StatementsAre ==
  /\ Statement("alpha_tau") = 1 /\ Statement("J_q") = 3 /\ Statement("H_a") = 4 /\ Statement("H_b") = 5
  /\ Statement("J_a") = 6 /\ Statement("J_b") = 7 /\ Statement("P_meas") = 8 /\ Statement("q_k2tau") = 10
<1>1. /\ FeedImu[1].sets = "alpha_tau" /\ FeedImu[2].sets = "beta_tau" /\ FeedImu[3].sets = "J_q"
      /\ FeedImu[4].sets = "H_a" /\ FeedImu[5].sets = "H_b" /\ FeedImu[6].sets = "J_a" /\ FeedImu[7].sets = "J_b"
      /\ FeedImu[8].sets = "P_meas" /\ FeedImu[9].sets = "R_k2tau" /\ FeedImu[10].sets = "q_k2tau"
  BY DEF FeedImu
<1>2. DOMAIN FeedImu = 1 .. 10
  BY DEF FeedImu
<1> QED
  BY <1>1, <1>2 DEF Statement

(* The rows of the factor's residual. *)
LEMMA RowsAre ==
  Row("ori") = 0 /\ Row("bias_g") = 3 /\ Row("vel") = 6 /\ Row("bias_a") = 9 /\ Row("pos") = 12
<1>1. /\ StateParams(1)[1][1] = "ori" /\ StateParams(1)[2][1] = "bias_g" /\ StateParams(1)[3][1] = "vel"
      /\ StateParams(1)[4][1] = "bias_a" /\ StateParams(1)[5][1] = "pos"
  BY DEF StateParams
<1> QED
  BY <1>1 DEF Row

(* The preintegrated values reach the residuals they are the mean and the  *)
(* derivatives of, each read at the time of its mean.                      *)
LEMMA PreintegrationStaysFit == PreintegrationFits
<1> DEFINE row(mean) == CHOOSE r \in DOMAIN Corrections : Member(Corrections[r].mean) = mean
           Derivative(mean) == {Member(d) : d \in {Corrections[row(mean)].by_w, Corrections[row(mean)].by_a} \ {"none"}}
<1>1. /\ DOMAIN Corrections = {0, 6, 12}
      /\ Corrections[0].mean = "q_breve" /\ Corrections[6].mean = "beta" /\ Corrections[12].mean = "alpha"
      /\ Corrections[0].by_w = "J_q" /\ Corrections[0].by_a = "none"
      /\ Corrections[6].by_w = "J_b" /\ Corrections[6].by_a = "H_b"
      /\ Corrections[12].by_w = "J_a" /\ Corrections[12].by_a = "H_a"
  BY DEF Corrections
<1>2. row("q_k2tau") = 0 /\ row("beta_tau") = 6 /\ row("alpha_tau") = 12
  BY <1>1, MembersAre
<1>3. /\ Derivative("q_k2tau") = {"J_q"} /\ Derivative("beta_tau") = {"J_b", "H_b"}
      /\ Derivative("alpha_tau") = {"J_a", "H_a"}
  <2> HIDE DEF row
  <2> QED
    BY <1>1, <1>2, MembersAre
<1>4. /\ FeedImu[3].of = "q_k2tau" /\ FeedImu[7].of = "beta_tau" /\ FeedImu[5].of = "beta_tau"
      /\ FeedImu[6].of = "alpha_tau" /\ FeedImu[4].of = "alpha_tau"
  BY DEF FeedImu
<1> HIDE DEF Derivative
<1>5. \A mean \in {"alpha_tau", "beta_tau", "q_k2tau"} :
        \A d \in Derivative(mean) : FeedImu[Statement(d)].of = mean
  BY <1>3, <1>4, StatementsAre
<1>6. \A b \in {"H_b", "J_b"} : \A a \in {"H_a", "J_a"} :
        b \in FeedImu[Statement(a)].reads => ReadNew(a, b) = ReadNew("alpha_tau", "beta_tau")
  <2>1. ~ReadNew("alpha_tau", "beta_tau")
    BY StatementsAre DEF ReadNew
  <2>2. ~ReadNew("H_a", "H_b")
    BY StatementsAre DEF ReadNew, FeedImu
  <2>3. ~ReadNew("J_a", "J_b")
    BY StatementsAre DEF ReadNew, FeedImu
  <2>4. FeedImu[4].reads = {"H_b", "R_tau12k"} /\ FeedImu[6].reads = {"J_b", "J_q", "R_tau12k"}
    BY DEF FeedImu
  <2>5. ASSUME NEW b \in {"H_b", "J_b"}, NEW a \in {"H_a", "J_a"}, b \in FeedImu[Statement(a)].reads
        PROVE  ~ReadNew(a, b)
    BY <2>2, <2>3, <2>4, <2>5, StatementsAre
  <2>6. \A a, b : ReadNew(a, b) \in BOOLEAN
    BY DEF ReadNew
  <2> QED
    BY <2>1, <2>5, <2>6, Zenon
<1>7. \A x \in {"J_a", "J_b"} : ReadNew(x, "J_q")
  <2>1. FeedImu[3].sets = "J_q"
    BY DEF FeedImu
  <2> QED
    BY <2>1, StatementsAre DEF ReadNew
<1>8. ~ReadNew("P_meas", "R_k2tau")
  BY StatementsAre DEF ReadNew, FeedImu
<1>9. ReadNew("q_k2tau", "R_k2tau")
  <2>1. FeedImu[9].sets = "R_k2tau"
    BY DEF FeedImu
  <2> QED
    BY <2>1, StatementsAre DEF ReadNew
<1>10. CpiF = {<<Row(d[1]), Row(d[2])>> : d \in Motion}
  BY RowsAre DEF CpiF, Motion
<1>11. CpiG = {<<Row(Noise[n]), CpiNoise[n]>> : n \in DOMAIN Noise}
  BY RowsAre DEF CpiG, CpiNoise, Noise
<1> QED
  BY <1>5, <1>6, <1>7, <1>8, <1>9, <1>10, <1>11, MembersAre DEF PreintegrationFits, Derivative

(* Where a state lies in the covariance that is handed back. *)
LEMMA OffsetsAre ==
  Offset("ori") = 0 /\ Offset("pos") = 3 /\ Offset("vel") = 6 /\ Offset("bias_g") = 9 /\ Offset("bias_a") = 12
<1>1. /\ ImuOrder[1] = "ori" /\ ImuOrder[2] = "pos" /\ ImuOrder[3] = "vel" /\ ImuOrder[4] = "bias_g"
      /\ ImuOrder[5] = "bias_a" /\ DOMAIN ImuOrder = 1 .. 5
  BY DEF ImuOrder
<1> QED
  BY <1>1 DEF Offset

(* The tangent space of the constant blocks, a column for every rank. *)
LEMMA CalibrationColumns ==
  ASSUME NEW cams, IsFiniteSet(cams)
  PROVE  Cardinality({p \in CalibBlocks(cams) \X (1 .. 8) : p[2] <= TangentSize(p[1][1])}) = Cardinality(cams) * (6 + 8)
<1> DEFINE S == {p \in CalibBlocks(cams) \X (1 .. 8) : p[2] <= TangentSize(p[1][1])}
           T == cams \X (1 .. 14)
           Shift(kind) == IF kind = "calib_ori" THEN 0 ELSE IF kind = "calib_pos" THEN 3 ELSE 6
           f == [p \in S |-> <<p[1][2], Shift(p[1][1]) + p[2]>>]
<1>1. /\ TangentSize("calib_ori") = 3 /\ TangentSize("calib_pos") = 3 /\ TangentSize("calib_cam") = 8
  BY DEF TangentSize, BlockSize
<1>2. ASSUME NEW p \in S
      PROVE  /\ p[1][1] \in {"calib_ori", "calib_pos", "calib_cam"} /\ p[1][2] \in cams /\ p[2] \in 1 .. 8
             /\ p[2] <= TangentSize(p[1][1]) /\ p = <<<<p[1][1], p[1][2]>>, p[2]>>
  BY DEF CalibBlocks, CalibKinds
<1>3. ASSUME NEW p \in S PROVE Shift(p[1][1]) + p[2] \in 1 .. 14
  BY <1>1, <1>2
<1>4. f \in [S -> T]
  BY <1>2, <1>3
<1>5. ASSUME NEW a \in S, NEW b \in S, f[a] = f[b] PROVE a = b
  <2>1. a[1][2] = b[1][2] /\ Shift(a[1][1]) + a[2] = Shift(b[1][1]) + b[2]
    BY <1>5
  <2>2. a[1][1] = b[1][1] /\ a[2] = b[2]
    BY <1>1, <1>2, <2>1
  <2> QED
    BY <1>2, <2>1, <2>2
<1>6. ASSUME NEW t \in T PROVE \E s \in S : f[s] = t
  <2>1. t[1] \in cams /\ t[2] \in 1 .. 14 /\ t = <<t[1], t[2]>>
    OBVIOUS
  <2>2. ASSUME NEW kind \in CalibKinds, NEW n \in 1 .. 8, n <= TangentSize(kind), Shift(kind) + n = t[2]
        PROVE  \E s \in S : f[s] = t
    <3> DEFINE s == <<<<kind, t[1]>>, n>>
    <3>1. s \in S
      BY <2>1, <2>2 DEF CalibBlocks
    <3>2. f[s] = <<t[1], t[2]>>
      BY <2>2, <3>1
    <3> QED
      BY <2>1, <3>1, <3>2
  <2> HIDE DEF S, T, f, Shift
  <2>3. Shift("calib_ori") = 0 /\ Shift("calib_pos") = 3 /\ Shift("calib_cam") = 6
    BY DEF Shift
  <2>4. "calib_ori" \in CalibKinds /\ "calib_pos" \in CalibKinds /\ "calib_cam" \in CalibKinds
    BY DEF CalibKinds
  <2>5. CASE t[2] \in 1 .. 3
    <3>1. t[2] \in 1 .. 8 /\ t[2] <= 3 /\ 0 + t[2] = t[2]
      BY <2>5
    <3> QED
      BY <1>1, <2>2, <2>3, <2>4, <3>1
  <2>6. CASE t[2] \in 4 .. 6
    <3>1. t[2] - 3 \in 1 .. 8 /\ t[2] - 3 <= 3 /\ 3 + (t[2] - 3) = t[2]
      BY <2>6
    <3> QED
      BY <1>1, <2>2, <2>3, <2>4, <3>1
  <2>7. CASE t[2] \in 7 .. 14
    <3>1. t[2] - 6 \in 1 .. 8 /\ t[2] - 6 <= 8 /\ 6 + (t[2] - 6) = t[2]
      BY <2>7
    <3> QED
      BY <1>1, <2>2, <2>3, <2>4, <3>1
  <2>8. t[2] \in 1 .. 3 \/ t[2] \in 4 .. 6 \/ t[2] \in 7 .. 14
    BY <2>1
  <2> QED
    BY <2>5, <2>6, <2>7, <2>8
<1>7. IsFiniteSet(T) /\ Cardinality(T) = Cardinality(cams) * 14
  <2>1. IsFiniteSet(1 .. 14) /\ Cardinality(1 .. 14) = 14
    <3>1. PICK n \in Nat : n = 14
      OBVIOUS
    <3>2. IsFiniteSet(1 .. n) /\ Cardinality(1 .. n) = IF 1 > n THEN 0 ELSE n - 1 + 1
      BY FS_Interval
    <3>3. Cardinality(1 .. n) = 14
      BY <3>1, <3>2
    <3> QED
      BY <3>1, <3>2, <3>3
  <2>2. IsFiniteSet(T) /\ Cardinality(T) = Cardinality(cams) * Cardinality(1 .. 14)
    BY <2>1, FS_Product
  <2> QED
    BY <2>1, <2>2
<1> HIDE DEF S, T, f
<1>8. Cardinality(S) = Cardinality(T)
  BY <1>4, <1>5, <1>6, <1>7, SameNumber
<1> QED
  BY <1>7, <1>8 DEF S

(* The covariance is read pair by pair into its place, and the rank it is  *)
(* short of is that of the blocks kept constant, for any set of cameras.   *)
LEMMA CovarianceStaysFit ==
  ASSUME NEW cams, IsFiniteSet(cams)
  PROVE  CovarianceFits(cams)
<1>1. ASSUME NEW r \in CovarianceReads
      PROVE  r[1] \in covariance_blocks /\ r[2] = Offset(r[1][1]) /\ r[3] = Offset(r[1][2])
  BY OffsetsAre DEF CovarianceReads, covariance_blocks
<1>2. {<<r[2], r[3]>> : r \in CovarianceReads} \cup {<<r[3], r[2]>> : r \in CovarianceReads}
        = {0, 3, 6, 9, 12} \X {0, 3, 6, 9, 12}
  BY DEF CovarianceReads
<1>3. ASSUME NEW opt_calib \in BOOLEAN
      PROVE  NullSpaceRank(cams, opt_calib) =
               Cardinality({p \in ConstantBlocks(cams, opt_calib) \X (1 .. 8) : p[2] <= TangentSize(p[1][1])})
  <2>1. CASE opt_calib
    <3>1. {p \in ConstantBlocks(cams, opt_calib) \X (1 .. 8) : p[2] <= TangentSize(p[1][1])} = {}
      BY <2>1 DEF ConstantBlocks
    <3> QED
      BY <2>1, <3>1, FS_EmptySet DEF NullSpaceRank
  <2>2. CASE ~opt_calib
    BY <2>2, CalibrationColumns DEF NullSpaceRank, ConstantBlocks
  <2> QED
    BY <2>1, <2>2
<1> QED
  BY <1>1, <1>2, <1>3 DEF CovarianceFits

(* Positions, columns, sizes and ranks agree between the lists of          *)
(* DynamicInitializer, its factors and the filter, for every problem the   *)
(* selection can lead to: any poses, features and set of cameras.          *)
THEOREM FactorsStayFit == ProblemSpec => []FactorsFitGraph
<1>1. ASSUME ProblemInv, CamerasInv, phase = "optimize" PROVE FactorsFitGraph
  <2>1. IsFiniteSet(camera_ids)
    <3>1. IsFiniteSet(counted)
      BY <1>1, DatabaseFacts, FS_Subset DEF ProblemInv, Shape, Stages
    <3> DEFINE f == [m \in counted |-> m.cam]
    <3>2. f \in Surjection(counted, camera_ids)
      BY <1>1 DEF CamerasInv, Surjection
    <3> QED
      BY <3>1, <3>2, FS_Surjection
  <2>2. CovarianceFits(camera_ids)
    BY <2>1, CovarianceStaysFit
  <2> QED
    BY <2>2, FirstPriorFits, ExtrinsicPriorFits, IntrinsicPriorFits, ImuFactorsFit, ImageFactorsFit,
       PreintegrationStaysFit DEF FactorsFitGraph
<1>2. ProblemInv /\ CamerasInv => FactorsFitGraph
  BY <1>1 DEF FactorsFitGraph
<1>3. ProblemInit => CamerasInv
  BY DEF ProblemInit, CamerasInv
<1> QED
  BY <1>2, <1>3, ProblemInvariant, CamerasKept, PTL DEF ProblemSpec
=============================================================================
