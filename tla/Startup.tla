------------------------------- MODULE Startup -------------------------------
(***************************************************************************)
(* How the processes find each other: the four named IPC objects of        *)
(* include/IpcManager.h, which the estimator unlinks and creates, the      *)
(* readiness semaphore that the producers wait on and relay                *)
(* (apps/imu/main.cpp, apps/camera/main.cpp), and start_sim.sh, which      *)
(* removes leftovers and launches everything.  The estimator may crash at  *)
(* any time (std::exit on an internal error, a signal), which leaves its   *)
(* names behind for the next launch.  Nothing stops the producers of a     *)
(* launch whose estimator is gone: they go on beside the next launch.      *)
(*                                                                         *)
(* A name is bound to the launch that created the object, 0 if to none; a  *)
(* process that has opened an object keeps it whatever happens to the name.*)
(***************************************************************************)
EXTENDS Naturals

CONSTANT MaxLaunches   \* bound on the number of launches of start_sim.sh

ASSUME StartupAssumption == MaxLaunches \in Nat \ {0}

Launches == 1 .. MaxLaunches
Names    == {"mq", "shm", "cam_sem", "ready_sem"}

(* A producer is named by the launch that started it and what it sends.    *)
Producers == Launches \X {"imu", "camera"}
Of(l)     == {p \in Producers : p[1] = l}

(* The objects a producer opens after the handshake, in one failure-prone  *)
(* step each.                                                              *)
Needs(p) == IF p[2] = "imu" THEN {"mq"} ELSE {"shm", "cam_sem"}

(* Names start_sim.sh removes before it starts the estimator.              *)
Removed == {"mq", "shm", "cam_sem"}

(* The estimator's set-up: each object is unlinked, then created.          *)
Opens == <<"mq", "shm", "cam_sem", "ready_sem">>
RingStep == 5  \* the shared memory has been created but not been sized
PostStep == 9  \* sem_post(ready_sem), after 8 set-up steps
RunStep  == 10
DownStep == 11

VARIABLES
  launch,   \* number of the current launch
  bound,    \* name -> launch that created the object it names, or 0
  tokens,   \* launch -> value of the readiness semaphore it created
  ring,     \* launch -> what has become of the shared memory it created
  vStep,    \* progress of the estimator of this launch
  pPc,      \* location of each producer
  holds,    \* producer -> name -> launch of the object it has open, or 0
  crashed,  \* history: launches whose estimator died instead of exiting
  hasty     \* history: launches with a producer that ran before PostReady

estimator == <<launch, vStep>>
objects   == <<bound, tokens, ring>>
producers == <<pPc, holds, hasty>>
vars      == <<estimator, objects, producers, crashed>>

Closed == [n \in Names |-> 0]

-----------------------------------------------------------------------------
(* Estimator *)

(* The estimator's shared memory has its size and its indices.             *)
RingReady == vStep = RingStep => ring[bound["shm"]] = "reset"

Unlink_Skipped ==
  /\ vStep \in {1, 3, 5, 7} /\ RingReady
  /\ vStep' = vStep + 1
  /\ UNCHANGED <<launch, objects, producers, crashed>>

Unlink ==
  /\ vStep \in {1, 3, 5, 7} /\ RingReady
  /\ bound' = [bound EXCEPT ![Opens[(vStep + 1) \div 2]] = 0]
  /\ vStep' = vStep + 1
  /\ UNCHANGED <<launch, tokens, ring, producers, crashed>>

(* O_CREAT without O_EXCL: a name that is still bound opens the old object.*)
(* New shared memory is visible under its name while it is still empty.    *)
Create ==
  /\ vStep \in {2, 4, 6, 8}
  /\ bound' = [bound EXCEPT ![Opens[vStep \div 2]] = IF @ = 0 THEN launch ELSE @]
  /\ ring' = IF vStep = 4 /\ bound["shm"] = 0 THEN [ring EXCEPT ![launch] = "empty"] ELSE ring
  /\ vStep' = vStep + 1
  /\ UNCHANGED <<launch, tokens, producers, crashed>>

(* ftruncate and mmap, and after them the two indices.                     *)
SizeRing ==
  /\ vStep = RingStep /\ ring[bound["shm"]] \in {"empty", "sized"}
  /\ ring' = [ring EXCEPT ![bound["shm"]] = IF @ = "empty" THEN "sized" ELSE "reset"]
  /\ UNCHANGED <<estimator, bound, tokens, producers, crashed>>

PostReady_Twice ==
  /\ vStep = PostStep
  /\ tokens' = [tokens EXCEPT ![launch] = @ + 2]
  /\ vStep' = RunStep
  /\ UNCHANGED <<launch, bound, ring, producers, crashed>>

PostReady ==
  /\ vStep = PostStep
  /\ tokens' = [tokens EXCEPT ![launch] = @ + 1]
  /\ vStep' = RunStep
  /\ UNCHANGED <<launch, bound, ring, producers, crashed>>

VinsExit_WaitsForImu ==
  /\ vStep = RunStep
  /\ pPc[<<launch, "imu">>] \in {"ended", "failed"}
  /\ vStep' = DownStep
  /\ bound' = Closed
  /\ UNCHANGED <<launch, tokens, ring, producers, crashed>>

(* SIGINT from start_sim.sh once both producers of the launch are gone;    *)
(* cleanup_all.                                                            *)
VinsExit ==
  /\ vStep = RunStep
  /\ \A p \in Of(launch) : pPc[p] \in {"ended", "failed"}
  /\ vStep' = DownStep
  /\ bound' = Closed
  /\ UNCHANGED <<launch, tokens, ring, producers, crashed>>

VinsCrash ==
  /\ vStep < DownStep
  /\ vStep' = DownStep
  /\ crashed' = crashed \cup {launch}
  /\ UNCHANGED <<launch, objects, producers>>

-----------------------------------------------------------------------------
(* Producers *)

(* The end of a process closes what it had open.                           *)
Ends(p, how) ==
  /\ pPc' = [pPc EXCEPT ![p] = how]
  /\ holds' = [holds EXCEPT ![p] = Closed]

(* start_sim.sh sleeps three seconds before it starts the producers, which *)
(* may or may not outlast the construction of VioManager.                  *)
OpenReady(p) ==
  /\ pPc[p] = "start"
  /\ hasty' = hasty \cup {l \in {p[1]} : l # launch \/ vStep <= PostStep}
  /\ IF bound["ready_sem"] = 0
     THEN Ends(p, "failed")
     ELSE /\ pPc' = [pPc EXCEPT ![p] = "wait"]
          /\ holds' = [holds EXCEPT ![p]["ready_sem"] = bound["ready_sem"]]
  /\ UNCHANGED <<estimator, objects, crashed>>

WaitReady(p) ==
  /\ pPc[p] = "wait"
  /\ tokens[holds[p]["ready_sem"]] > 0
  /\ tokens' = [tokens EXCEPT ![holds[p]["ready_sem"]] = @ - 1]
  /\ pPc' = [pPc EXCEPT ![p] = "relay"]
  /\ UNCHANGED <<estimator, bound, ring, holds, hasty, crashed>>

Relay(p) ==
  /\ pPc[p] = "relay"
  /\ tokens' = [tokens EXCEPT ![holds[p]["ready_sem"]] = @ + 1]
  /\ pPc' = [pPc EXCEPT ![p] = "attach"]
  /\ UNCHANGED <<estimator, bound, ring, holds, hasty, crashed>>

Attach(p, n) ==
  /\ pPc[p] = "attach" /\ holds[p][n] = 0
  /\ IF bound[n] = 0
     THEN Ends(p, "failed")
     ELSE /\ holds' = [holds EXCEPT ![p][n] = bound[n]]
          /\ pPc' = IF \A m \in Needs(p) \ {n} : holds[p][m] # 0
                    THEN [pPc EXCEPT ![p] = "streaming"] ELSE pPc
  /\ UNCHANGED <<estimator, objects, hasty, crashed>>

EndStream(p) ==
  /\ pPc[p] = "streaming"
  /\ Ends(p, "ended")
  /\ UNCHANGED <<estimator, objects, hasty, crashed>>

(* The camera process touches mapped shared memory that is still empty.    *)
BusError(p) ==
  /\ pPc[p] = "streaming" /\ "shm" \in Needs(p)
  /\ ring[holds[p]["shm"]] = "empty"
  /\ Ends(p, "failed")
  /\ UNCHANGED <<estimator, objects, hasty, crashed>>

-----------------------------------------------------------------------------
(* The producers that a launch of start_sim.sh starts.                     *)
Started(l) == [p \in Producers |-> IF p \in Of(l) THEN "start" ELSE "none"]

(* start_sim.sh run again after the estimator is gone.  If it crashed, its *)
(* producers may still be anywhere, and nothing interrupts them.           *)
Relaunch ==
  /\ vStep = DownStep /\ launch < MaxLaunches
  /\ launch' = launch + 1
  /\ bound' = [n \in Names |-> IF n \in Removed THEN 0 ELSE bound[n]]
  /\ vStep' = 1
  /\ pPc' = [p \in Producers |-> IF p \in Of(launch + 1) THEN "start" ELSE pPc[p]]
  /\ UNCHANGED <<tokens, ring, holds, hasty, crashed>>

Init ==
  /\ launch = 1
  /\ bound = Closed
  /\ tokens = [l \in Launches |-> 0]
  /\ ring = [l \in Launches |-> "none"]
  /\ vStep = 1
  /\ pPc = Started(1)
  /\ holds = [p \in Producers |-> Closed]
  /\ crashed = {} /\ hasty = {}

VinsSetup == Unlink \/ Create \/ SizeRing \/ PostReady
Connect(p) == OpenReady(p) \/ WaitReady(p) \/ Relay(p) \/ \E n \in Needs(p) : Attach(p, n)
Producer(p) == Connect(p) \/ EndStream(p) \/ BusError(p)

Next == \/ VinsSetup \/ VinsExit \/ VinsCrash
        \/ \E p \in Producers : Producer(p)
        \/ Relaunch

Spec == Init /\ [][Next]_vars

(* Processes are scheduled; nothing makes the estimator crash or a user    *)
(* relaunch.  A stream need not end: the sender to a queue that nobody     *)
(* reads blocks.                                                           *)
FairSpec == Spec /\ WF_vars(VinsSetup) /\ \A p \in Producers : WF_vars(Connect(p))

-----------------------------------------------------------------------------
(* Properties *)

TypeOK ==
  /\ launch \in Launches
  /\ bound \in [Names -> 0 .. MaxLaunches]
  /\ tokens \in [Launches -> 0 .. 1]
  /\ ring \in [Launches -> {"none", "empty", "sized", "reset"}]
  /\ vStep \in 1 .. DownStep
  /\ pPc \in [Producers -> {"none", "start", "wait", "relay", "attach", "streaming", "ended", "failed"}]
  /\ holds \in [Producers -> [Names -> 0 .. MaxLaunches]]
  /\ crashed \subseteq Launches /\ hasty \subseteq Launches

(* "Wait for VINS process to be ready": no producer gets past its wait     *)
(* before this launch's estimator has said so.                             *)
ReadyMeansReady ==
  \A p \in Of(launch) :
    pPc[p] \in {"relay", "attach", "streaming", "ended"} => vStep > PostStep

(* Launches whose estimator lives and whose producers start after its      *)
(* sem_post.                                                               *)
Orderly(l) == l \notin crashed \cup hasty

(* No producer of an orderly launch streams with an object of another      *)
(* launch in its hands, or into shared memory whose indices are still to   *)
(* be reset, whatever crashed launches and their producers left behind.    *)
AttachedToThisLaunch ==
  \A p \in Producers : pPc[p] = "streaming" /\ Orderly(p[1]) =>
    /\ \A n \in Needs(p) \cup {"ready_sem"} : holds[p][n] = p[1]
    /\ "shm" \in Needs(p) => ring[holds[p]["shm"]] = "reset"

(* Each launch, also one that meets the names, the tokens and the          *)
(* producers of crashed ones, gets both its producers to stream, unless it *)
(* is not orderly itself: no open fails, and the token reaches both.       *)
AllStream ==
  \A l \in Launches :
    launch = l ~> ~Orderly(l) \/ \A p \in Of(l) : pPc[p] \in {"streaming", "ended"}
=============================================================================
