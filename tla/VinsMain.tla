------------------------------- MODULE VinsMain -------------------------------
(***************************************************************************)
(* The estimator process (apps/vins/main.cpp) with its two reader threads, *)
(* its main loop, SIGINT, and the IMU producer behind a bounded message    *)
(* queue (apps/imu/main.cpp, include/IpcManager.h).  The camera channel is *)
(* the abstract LossyStream that CamRing implements.                       *)
(*                                                                         *)
(* Time is counted in IMU samples: sample i has timestamp i and frame f    *)
(* has timestamp f * Period.  What the estimator does with its input is    *)
(* left to the modules of the estimator; here only the sequence of calls   *)
(* to feed_measurement_imu and feed_measurement_camera is recorded.        *)
(***************************************************************************)
EXTENDS Naturals, Sequences

CONSTANTS
  Frames,      \* stereo frames the camera process sends
  ImuSamples,  \* IMU samples the IMU process sends
  Period,      \* IMU samples per frame
  MqMax,       \* mq_attr.mq_maxmsg
  EarlyStop    \* SIGINT may arrive before the producers have finished

ASSUME VinsMainAssumption ==
  /\ Frames \in Nat /\ ImuSamples \in Nat
  /\ Period \in Nat \ {0} /\ MqMax \in Nat \ {0}
  /\ EarlyStop \in BOOLEAN

VARIABLES
  stop_flag,
  sent, got, camPc,           \* camera channel and camera_read_thread
  imuSent, mq, imuPc,         \* IMU process, message queue, imu_read_thread
  imu_queue,                  \* ThreadSafeQueue<ImuDataPacket>
  popped,                     \* packets taken from camera_queue so far
  pc, pair,                   \* main loop and the pair it works on
  last_imu_time,              \* 0 stands for the initial -1.0
  fed                         \* frames given to feed_measurement_camera

camVars  == <<sent, got, camPc>>
imuVars  == <<imuSent, mq, imuPc>>
mainVars == <<popped, pc, pair, last_imu_time, fed>>
vars     == <<stop_flag, camVars, imuVars, imu_queue, mainVars>>

Packets      == 2 * Frames
FrameOf(k)   == (k + 1) \div 2
CamOf(k)     == (k + 1) % 2
CamTime(k)   == FrameOf(k) * Period
Stream       == INSTANCE LossyStream

-----------------------------------------------------------------------------
(* Producers and the signal. *)

ImuSend_NoLimit ==
  /\ imuSent < ImuSamples
  /\ imuSent' = imuSent + 1
  /\ mq' = Append(mq, imuSent')
  /\ UNCHANGED <<stop_flag, camVars, imuPc, imu_queue, mainVars>>

(* mq_send blocks while the queue holds mq_maxmsg messages. *)
ImuSend ==
  /\ imuSent < ImuSamples
  /\ Len(mq) < MqMax
  /\ imuSent' = imuSent + 1
  /\ mq' = Append(mq, imuSent')
  /\ UNCHANGED <<stop_flag, camVars, imuPc, imu_queue, mainVars>>

CamSend ==
  /\ Stream!Send
  /\ UNCHANGED <<stop_flag, camPc, imuVars, imu_queue, mainVars>>

(* signalHandler on SIGINT: any time if EarlyStop, otherwise when           *)
(* start_sim.sh sends it, once both producers have exited.                 *)
SignalHandler ==
  /\ ~stop_flag
  /\ EarlyStop \/ (imuSent = ImuSamples /\ sent = Packets)
  /\ stop_flag' = TRUE
  /\ UNCHANGED <<camVars, imuVars, imu_queue, mainVars>>

-----------------------------------------------------------------------------
(* imu_read_thread *)

ImuCheck ==
  /\ imuPc = "check"
  /\ imuPc' = IF stop_flag THEN "done" ELSE "receive"
  /\ UNCHANGED <<stop_flag, camVars, imuSent, mq, imu_queue, mainVars>>

ImuReceive ==
  /\ imuPc = "receive" /\ mq # <<>>
  /\ mq' = Tail(mq)
  /\ imu_queue' = Append(imu_queue, Head(mq))
  /\ imuPc' = "check"
  /\ UNCHANGED <<stop_flag, camVars, imuSent, mainVars>>

ImuTimeout ==
  /\ imuPc = "receive" /\ mq = <<>>
  /\ imuPc' = "check"
  /\ UNCHANGED <<stop_flag, camVars, imuSent, mq, imu_queue, mainVars>>

(* camera_read_thread *)

CamCheck ==
  /\ camPc = "check"
  /\ camPc' = IF stop_flag THEN "done" ELSE "receive"
  /\ UNCHANGED <<stop_flag, sent, got, imuVars, imu_queue, mainVars>>

CamReceive ==
  /\ camPc = "receive"
  /\ Stream!Receive
  /\ camPc' = "check"
  /\ UNCHANGED <<stop_flag, imuVars, imu_queue, mainVars>>

(* No token within a second, or a token without a packet. *)
CamTimeout ==
  /\ camPc = "receive"
  /\ camPc' = "check"
  /\ UNCHANGED <<stop_flag, sent, got, imuVars, imu_queue, mainVars>>

-----------------------------------------------------------------------------
(* Main loop *)

(* Timestamps of a stereo pair are equal; the camera ids are not compared. *)
SameTime(a, b) == CamTime(a) = CamTime(b)

CaughtUp_Beyond == last_imu_time > CamTime(pair[1])
CaughtUp == last_imu_time >= CamTime(pair[1])

MainStop ==
  /\ pc = "idle" /\ stop_flag
  /\ pc' = "join"
  /\ UNCHANGED <<stop_flag, camVars, imuVars, imu_queue, popped, pair, last_imu_time, fed>>

(* Two packets are popped; if they do not match both are gone. *)
TakePair ==
  /\ pc = "idle" /\ ~stop_flag
  /\ Len(got) - popped >= 2
  /\ popped' = popped + 2
  /\ LET p1 == got[popped + 1]
         p2 == got[popped + 2]
     IN IF SameTime(p1, p2)
          THEN pc' = "catchup" /\ pair' = <<p1, p2>>
          ELSE UNCHANGED <<pc, pair>>
  /\ UNCHANGED <<stop_flag, camVars, imuVars, imu_queue, last_imu_time, fed>>

CatchUp_IgnoresStop ==
  /\ pc = "catchup"
  /\ \/ CaughtUp /\ pc' = "feed"
     \/ ~CaughtUp /\ imu_queue # <<>> /\ pc' = "drain"
  /\ UNCHANGED <<stop_flag, camVars, imuVars, imu_queue, popped, pair, last_imu_time, fed>>

(* The outer loop: leave when stopped or caught up, else sleep or drain. *)
CatchUp ==
  /\ pc = "catchup"
  /\ \/ (stop_flag \/ CaughtUp) /\ pc' = "feed"
     \/ ~stop_flag /\ ~CaughtUp /\ imu_queue # <<>> /\ pc' = "drain"
  /\ UNCHANGED <<stop_flag, camVars, imuVars, imu_queue, popped, pair, last_imu_time, fed>>

DrainOne_SkipsLate ==
  /\ pc = "drain" /\ imu_queue # <<>>
  /\ last_imu_time' = IF Head(imu_queue) > CamTime(pair[1]) THEN CamTime(pair[1]) ELSE Head(imu_queue)
  /\ imu_queue' = Tail(imu_queue)
  /\ UNCHANGED <<stop_flag, camVars, imuVars, popped, pc, pair, fed>>

(* The inner loop feeds whatever is queued, later than the frame or not. *)
DrainOne ==
  /\ pc = "drain" /\ imu_queue # <<>>
  /\ last_imu_time' = Head(imu_queue)
  /\ imu_queue' = Tail(imu_queue)
  /\ UNCHANGED <<stop_flag, camVars, imuVars, popped, pc, pair, fed>>

DrainEnd ==
  /\ pc = "drain" /\ imu_queue = <<>>
  /\ pc' = "catchup"
  /\ UNCHANGED <<stop_flag, camVars, imuVars, imu_queue, popped, pair, last_imu_time, fed>>

FeedCamera ==
  /\ pc = "feed"
  /\ fed' = Append(fed, pair)
  /\ pc' = "idle"
  /\ UNCHANGED <<stop_flag, camVars, imuVars, imu_queue, popped, pair, last_imu_time>>

(* Join both threads, then cleanup_all and exit. *)
Join ==
  /\ pc = "join" /\ imuPc = "done" /\ camPc = "done"
  /\ pc' = "done"
  /\ UNCHANGED <<stop_flag, camVars, imuVars, imu_queue, popped, pair, last_imu_time, fed>>

-----------------------------------------------------------------------------
Init ==
  /\ stop_flag = FALSE
  /\ Stream!Init /\ camPc = "check"
  /\ imuSent = 0 /\ mq = <<>> /\ imuPc = "check" /\ imu_queue = <<>>
  /\ popped = 0 /\ pc = "idle" /\ pair = <<1, 1>> /\ last_imu_time = 0 /\ fed = <<>>

ImuThread == ImuCheck \/ ImuReceive \/ ImuTimeout
CamThread == CamCheck \/ CamReceive \/ CamTimeout
MainLoop  == MainStop \/ TakePair \/ CatchUp \/ DrainOne \/ DrainEnd \/ FeedCamera \/ Join

Next == ImuSend \/ CamSend \/ SignalHandler \/ ImuThread \/ CamThread \/ MainLoop

Spec == Init /\ [][Next]_vars

(* Each thread and each process is scheduled; nobody has to send a signal. *)
Fairness == /\ WF_vars(ImuSend) /\ WF_vars(CamSend)
            /\ WF_vars(ImuThread) /\ WF_vars(CamThread) /\ WF_vars(MainLoop)
FairSpec == Spec /\ Fairness

-----------------------------------------------------------------------------
(* Properties *)

TypeOK ==
  /\ stop_flag \in BOOLEAN
  /\ sent \in 0 .. Packets /\ got \in Seq(1 .. Packets)
  /\ camPc \in {"check", "receive", "done"} /\ imuPc \in {"check", "receive", "done"}
  /\ imuSent \in 0 .. ImuSamples /\ mq \in Seq(1 .. ImuSamples) /\ Len(mq) <= MqMax
  /\ imu_queue \in Seq(1 .. ImuSamples)
  /\ popped \in 0 .. Len(got)
  /\ pc \in {"idle", "catchup", "drain", "feed", "join", "done"}
  /\ pair \in (1 .. Packets \cup {1}) \X (1 .. Packets \cup {1})
  /\ last_imu_time \in 0 .. ImuSamples
  /\ fed \in Seq((1 .. Packets) \X (1 .. Packets))

(* Across the message queue, the thread queue and the catch-up loop no IMU *)
(* sample is lost, repeated or reordered: what is queued continues exactly *)
(* where feed_measurement_imu stopped, up to the last sample sent.         *)
ImuStreamIntact ==
  LET pending == imu_queue \o mq
  IN /\ Len(pending) = imuSent - last_imu_time
     /\ \A i \in 1 .. Len(pending) : pending[i] = last_imu_time + i

(* What the filter takes for granted of its images: each pair handed to    *)
(* feed_measurement_camera is the left and the right image of one moment,  *)
(* although the camera ids are not compared, later than every pair before; *)
(* and unless the wait was cut short by SIGINT, the IMU data up to that    *)
(* moment have been fed.                                                   *)
FramesInOrder ==
  /\ \A n \in 1 .. Len(fed) : CamOf(fed[n][1]) = 0 /\ fed[n][2] = fed[n][1] + 1
  /\ \A m, n \in 1 .. Len(fed) : m < n => CamTime(fed[m][1]) < CamTime(fed[n][1])
  /\ pc = "feed" => stop_flag \/ CaughtUp

(* "Not a pair, skip p1 and try again with p2 as the potential first of    *)
(* next pair": two neighbours in the queue that form a stereo pair are not *)
(* thrown away.                                                            *)
NoStereoPairSkipped ==
  pc = "idle" =>
    \A i \in 1 .. popped - 1 :
      (CamOf(got[i]) = 0 /\ got[i + 1] = got[i] + 1) =>
        \E n \in 1 .. Len(fed) : fed[n] = <<got[i], got[i + 1]>>

(* Once interrupted, the estimator gets out of every loop it may be in and *)
(* exits, also when it waits for IMU data that will never come.            *)
ShutsDown == stop_flag ~> pc = "done"

(* Nobody waits for ever while the estimator is not being stopped: the     *)
(* bounded message queue slows the IMU process down but lets it finish,    *)
(* and as long as IMU data go on past the last frame a pair that was taken *)
(* is handed to the estimator.                                             *)
NobodyStarves ==
  /\ <>(imuSent = ImuSamples \/ stop_flag)
  /\ pc = "catchup" ~> pc = "feed"
=============================================================================
