------------------------------- MODULE CamRing -------------------------------
(***************************************************************************)
(* The camera channel between the camera process and the estimator: a ring *)
(* of BufferSize slots in POSIX shared memory, two plain (non-atomic)      *)
(* indices beside it and one counting semaphore                            *)
(* (include/DataTypes.h, apps/camera/main.cpp, camera_read_thread of       *)
(* apps/vins/main.cpp).                                                    *)
(*                                                                         *)
(* Both processes store into read_idx: the reader after it has copied a    *)
(* slot, the producer when it finds the ring full.  Neither access is      *)
(* atomic, so a load and the store that depends on it are separate steps   *)
(* here, and so are the two halves (header, pixels) of a packet copy.      *)
(* Stores become visible in program order, as on x86 under the -O3 build.  *)
(*                                                                         *)
(* Packets are numbered in the order the producer writes them: 2f-1 and 2f *)
(* are the cam0 and cam1 images of stereo frame f.  Frames that lack an    *)
(* image are skipped before the ring is touched and get no number.         *)
(***************************************************************************)
EXTENDS Naturals, Sequences

CONSTANTS
  BufferSize,   \* ShmRingBuffer::BUFFER_SIZE
  Frames,       \* number of stereo frames the producer sends
  Never         \* content of a slot that was never written

(* With two slots the drop of the only packet lets the reader, when it has *)
(* just pushed that packet, advance past write_idx.                        *)
ASSUME BufferSizeAssumption == BufferSize \in Nat /\ BufferSize >= 3
ASSUME FramesAssumption     == Frames \in Nat
ASSUME NeverAssumption      == Never \notin Nat

VARIABLES
  write_idx, read_idx,  \* the two shared indices
  packets,              \* the shared slots: header and pixels of each
  sem,                  \* vins_cam_sem
  wPc, wPkt, wSeen,     \* producer: location, current packet, loaded read_idx
  rPc, rSeen, rPacket,  \* reader: location, loaded read_idx, local copy
  camera_queue,         \* every packet the reader pushed, oldest first
  drops,                \* history: times the producer took the ring-full branch
  raced                 \* history: one side undid or overran the other (see Overrun)

producerVars == <<wPc, wPkt, wSeen>>
readerVars   == <<rPc, rSeen, rPacket, camera_queue>>
vars == <<write_idx, read_idx, packets, sem, producerVars, readerVars, drops, raced>>

Packet    == 1 .. 2 * Frames
FrameOf(k) == (k + 1) \div 2
CamOf(k)   == (k + 1) % 2
Slot      == 0 .. BufferSize - 1
Content   == [hdr : Packet \cup {Never}, img : Packet \cup {Never}]
Blank     == [hdr |-> Never, img |-> Never]

Next1_NoWrap(i) == i + 1
(* Successor of an index of the ring. *)
Next1(i) == (i + 1) % BufferSize

(* The producer's test, on the value it loaded of read_idx. *)
RingFull(r) == Next1(write_idx) = r

DropTo_Pair(r) == Next1(Next1(r))
(* Where the producer moves the reader's index when the ring is full. *)
DropTo(r) == Next1(r)

(* The reader's test, on the value it loaded of read_idx. *)
HasPacket(r) == r # write_idx

-----------------------------------------------------------------------------
(* Producer: one iteration per packet. *)

(* Load read_idx and compare it with the successor of write_idx. *)
CheckFull ==
  /\ wPc = "check"
  /\ wSeen' = read_idx
  /\ wPc' = IF RingFull(read_idx) THEN "advance" ELSE "header"
  /\ UNCHANGED <<write_idx, read_idx, packets, sem, wPkt, readerVars, drops, raced>>

(* The build may use the value it compared or load read_idx again. *)
ReloadReadIdx ==
  /\ wPc = "advance"
  /\ wSeen # read_idx
  /\ wSeen' = read_idx
  /\ UNCHANGED <<write_idx, read_idx, packets, sem, wPc, wPkt, readerVars, drops, raced>>

(* Ring full: drop the oldest packet by storing into the reader's index. *)
DropOldest ==
  /\ wPc = "advance"
  /\ read_idx' = DropTo(wSeen)
  /\ wPc' = "header"
  /\ drops' = drops + 1
  /\ raced' = (raced \/ ~RingFull(read_idx))
  /\ UNCHANGED <<write_idx, packets, sem, wPkt, wSeen, readerVars>>

(* The slot being filled is the one the reader has decided to copy. *)
Overrun == rPc \in {"compare", "copyHeader", "copyImage"} /\ rSeen = write_idx

FillHeader ==
  /\ wPc = "header"
  /\ packets' = [packets EXCEPT ![write_idx].hdr = wPkt]
  /\ raced' = (raced \/ Overrun)
  /\ wPc' = "image"
  /\ UNCHANGED <<write_idx, read_idx, sem, wPkt, wSeen, readerVars, drops>>

FillImage ==
  /\ wPc = "image"
  /\ packets' = [packets EXCEPT ![write_idx].img = wPkt]
  /\ raced' = (raced \/ Overrun)
  /\ wPc' = "publish"
  /\ UNCHANGED <<write_idx, read_idx, sem, wPkt, wSeen, readerVars, drops>>

Publish ==
  /\ wPc = "publish"
  /\ write_idx' = Next1(write_idx)
  /\ wPc' = "post"
  /\ UNCHANGED <<read_idx, packets, sem, wPkt, wSeen, readerVars, drops, raced>>

Post_Forgotten ==
  /\ wPc = "post"
  /\ wPkt' = wPkt + 1
  /\ wPc' = IF wPkt = 2 * Frames THEN "done" ELSE "check"
  /\ UNCHANGED <<write_idx, read_idx, packets, sem, wSeen, readerVars, drops, raced>>

Post ==
  /\ wPc = "post"
  /\ sem' = sem + 1
  /\ wPkt' = wPkt + 1
  /\ wPc' = IF wPkt = 2 * Frames THEN "done" ELSE "check"
  /\ UNCHANGED <<write_idx, read_idx, packets, wSeen, readerVars, drops, raced>>

-----------------------------------------------------------------------------
(* Reader: one iteration per semaphore token. *)

WaitToken ==
  /\ rPc = "wait"
  /\ sem > 0
  /\ sem' = sem - 1
  /\ rPc' = "load"
  /\ UNCHANGED <<write_idx, read_idx, packets, producerVars, rSeen, rPacket, camera_queue, drops, raced>>

LoadReadIdx ==
  /\ rPc = "load"
  /\ rSeen' = read_idx
  /\ rPc' = "compare"
  /\ UNCHANGED <<write_idx, read_idx, packets, sem, producerVars, rPacket, camera_queue, drops, raced>>

(* A token without a packet behind it is consumed without effect. *)
CompareIdx ==
  /\ rPc = "compare"
  /\ rPc' = IF HasPacket(rSeen) THEN "copyHeader" ELSE "wait"
  /\ UNCHANGED <<write_idx, read_idx, packets, sem, producerVars, rSeen, rPacket, camera_queue, drops, raced>>

CopyHeader ==
  /\ rPc = "copyHeader"
  /\ rPacket' = [rPacket EXCEPT !.hdr = packets[rSeen].hdr]
  /\ rPc' = "copyImage"
  /\ UNCHANGED <<write_idx, read_idx, packets, sem, producerVars, rSeen, camera_queue, drops, raced>>

(* The last half of the copy and the push; the queue is private to the     *)
(* estimator process, so nobody tells these two apart.                     *)
CopyImageAndPush ==
  /\ rPc = "copyImage"
  /\ rPacket' = [rPacket EXCEPT !.img = packets[rSeen].img]
  /\ camera_queue' = Append(camera_queue, rPacket')
  /\ rPc' = "reload"
  /\ UNCHANGED <<write_idx, read_idx, packets, sem, producerVars, rSeen, drops, raced>>

(* The push is an opaque call: read_idx is loaded again to be advanced. *)
LoadForAdvance ==
  /\ rPc = "reload"
  /\ rSeen' = read_idx
  /\ rPc' = "store"
  /\ UNCHANGED <<write_idx, read_idx, packets, sem, producerVars, rPacket, camera_queue, drops, raced>>

AdvanceReadIdx_Forgotten ==
  /\ rPc = "store"
  /\ raced' = (raced \/ rSeen # read_idx)
  /\ rPc' = "wait"
  /\ UNCHANGED <<write_idx, read_idx, packets, sem, producerVars, rSeen, rPacket, camera_queue, drops>>

AdvanceReadIdx ==
  /\ rPc = "store"
  /\ read_idx' = Next1(rSeen)
  /\ raced' = (raced \/ rSeen # read_idx)
  /\ rPc' = "wait"
  /\ UNCHANGED <<write_idx, packets, sem, producerVars, rSeen, rPacket, camera_queue, drops>>

-----------------------------------------------------------------------------
Init ==
  /\ write_idx = 0 /\ read_idx = 0
  /\ packets = [s \in Slot |-> Blank]
  /\ sem = 0
  /\ wPc = (IF Frames = 0 THEN "done" ELSE "check") /\ wPkt = 1 /\ wSeen = 0
  /\ rPc = "wait" /\ rSeen = 0 /\ rPacket = Blank
  /\ camera_queue = <<>>
  /\ drops = 0 /\ raced = FALSE

Producer == \/ CheckFull \/ ReloadReadIdx \/ DropOldest \/ FillHeader
            \/ FillImage \/ Publish \/ Post
Reader   == \/ WaitToken \/ LoadReadIdx \/ CompareIdx \/ CopyHeader
            \/ CopyImageAndPush \/ LoadForAdvance \/ AdvanceReadIdx

Next == Producer \/ Reader

(* Both processes are scheduled by the operating system as long as they    *)
(* have work: weak fairness of each, none of a particular step.            *)
Fairness == WF_vars(Producer) /\ WF_vars(Reader)

Spec     == Init /\ [][Next]_vars
FairSpec == Spec /\ Fairness

-----------------------------------------------------------------------------
(* Properties *)

TypeOK ==
  /\ write_idx \in Slot /\ read_idx \in Slot
  /\ packets \in [Slot -> Content]
  /\ sem \in Nat
  /\ wPc \in {"check", "advance", "header", "image", "publish", "post", "done"}
  /\ wPkt \in 1 .. 2 * Frames + 1 /\ wSeen \in Slot
  /\ rPc \in {"wait", "load", "compare", "copyHeader", "copyImage", "reload", "store"}
  /\ rSeen \in Slot /\ rPacket \in Content
  /\ camera_queue \in Seq(Content)
  /\ drops \in Nat /\ raced \in BOOLEAN

(* Number of packets whose slot the producer has handed over so far. *)
Published == IF wPc = "post" THEN wPkt ELSE wPkt - 1
Quiescent == wPc = "done" /\ rPc = "wait" /\ sem = 0

(* Each time the producer finds the ring full exactly one packet is lost,  *)
(* not a stereo pair: once all is quiet, and without a race, sent minus    *)
(* received is the number of drops.  Surplus tokens lose and invent        *)
(* nothing.                                                                *)
DropsAccounted ==
  Quiescent /\ ~raced => 2 * Frames - Len(camera_queue) = drops

(* The only ways to a torn, repeated or reordered packet are the three     *)
(* races: the producer fills the slot being copied, the producer drops on  *)
(* a stale ring-full test, the reader stores over a drop.  Until the first *)
(* of them every step of the ring is a step, or a stutter, of the lossy    *)
(* in-order stream that the main loop relies on, however often the ring    *)
(* overflows.  A torn packet is none of the stream's.                      *)
Received ==
  [i \in 1 .. Len(camera_queue) |->
     IF camera_queue[i].hdr = camera_queue[i].img THEN camera_queue[i].hdr ELSE 0]
Stream  == INSTANCE LossyStream WITH Packets <- 2 * Frames, sent <- Published, got <- Received
ImplementsStream == Stream!Init /\ [][raced' \/ Stream!Next]_<<Published, Received>>

(* No packet gets stuck in the ring for want of a token: everything comes  *)
(* to rest, and without a race the ring is then empty, although overflows  *)
(* leave more tokens than packets.                                         *)
Drains == <>[](Quiescent /\ (~raced => read_idx = write_idx))
=============================================================================
