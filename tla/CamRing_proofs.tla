---------------------------- MODULE CamRing_proofs ----------------------------
(***************************************************************************)
(* Proofs about CamRing, for every number of slots from three on and of    *)
(* frames.  What happens after a race is left open: the inductive          *)
(* invariant describes the ring until the first one.                       *)
(***************************************************************************)
EXTENDS CamRing, SequenceTheorems, TLAPS

-----------------------------------------------------------------------------
(* The invariant *)

(* The index d places behind w, at most once around the ring. *)
Place(w, d) == IF d <= w THEN w - d ELSE w + BufferSize - d
Behind(d)   == Place(write_idx, d)

(* Packets that are past, received or dropped, and those in the ring. The  *)
(* reader has pushed a packet before it moves the index.                   *)
Pushed   == rPc \in {"reload", "store"}
Consumed == Len(camera_queue) + drops - (IF Pushed THEN 1 ELSE 0)
Lag      == Published - Consumed

Filling == wPc \in {"image", "publish"}
Whole(k) == [hdr |-> k, img |-> k]

(* read_idx is Lag behind, and a producer past its test has a free slot.   *)
IndexInv ==
  /\ Lag \in 0 .. BufferSize - 1
  /\ read_idx = Behind(Lag)
  /\ wPc \in {"header", "image", "publish"} => Lag <= BufferSize - 2
  /\ wPc = "advance" /\ Lag = BufferSize - 1 => wSeen = read_idx

(* The last packets written are in the slots behind write_idx, the oldest  *)
(* one of them until its slot is filled again.                             *)
SlotsInv ==
  /\ \A d \in 1 .. BufferSize :
       d <= Published /\ (d = BufferSize => ~Filling) => packets[Behind(d)] = Whole(Published - d + 1)
  /\ Filling => packets[write_idx].hdr = wPkt
  /\ wPc = "publish" => packets[write_idx].img = wPkt

(* The newest packet received is not newer than what is past.              *)
LastGot == Stream!LastGot

(* The reader that has loaded read_idx, then d behind: packets dropped     *)
(* since leave another one in the ring, it has not been received yet, and  *)
(* there is a token for every one since.                                   *)
ReadingAt(d) ==
  /\ rSeen = Behind(d) /\ d <= Published
  /\ d >= Lag /\ (d > Lag => Lag >= 1)
  /\ d = BufferSize => ~Filling
  /\ LastGot <= Published - d
  /\ d <= sem + 1 + (IF wPc = "post" THEN 1 ELSE 0)
  /\ rPc # "compare" => d >= 1
  /\ rPc = "copyImage" => rPacket.hdr = Published - d + 1

ReaderInv ==
  /\ rPc \in {"compare", "copyHeader", "copyImage"} => \E d \in 0 .. BufferSize : ReadingAt(d)
  /\ Pushed => Lag >= 1
  /\ LastGot \in Nat /\ LastGot <= Consumed + (IF Pushed THEN 1 ELSE 0)
  /\ Lag <= sem + (IF rPc = "wait" THEN 0 ELSE 1) + (IF wPc = "post" THEN 1 ELSE 0)

(* The producer has a packet in hand until it is done. *)
ProducerInv == IF wPc = "done" THEN wPkt = 2 * Frames + 1 ELSE wPkt <= 2 * Frames

Clean == IndexInv /\ SlotsInv /\ ReaderInv
RingInv == TypeOK /\ ProducerInv /\ (~raced => Clean)

-----------------------------------------------------------------------------
(* Indices.  From Next1Value on, nothing but linear arithmetic is left of  *)
(* the ring's modulus.                                                     *)

LEMMA Next1Value ==
  ASSUME NEW i \in Slot
  PROVE  Next1(i) = IF i = BufferSize - 1 THEN 0 ELSE i + 1
<1>1. CASE i = BufferSize - 1
  <2>1. i + 1 = BufferSize
    BY <1>1, BufferSizeAssumption
  <2>2. BufferSize % BufferSize = 0
    BY BufferSizeAssumption
  <2> QED
    BY <2>1, <2>2, <1>1 DEF Next1
<1>2. CASE i # BufferSize - 1
  <2>1. i + 1 \in 0 .. BufferSize - 1
    BY <1>2, BufferSizeAssumption DEF Slot
  <2>2. \A j \in 0 .. BufferSize - 1 : j % BufferSize = j
    BY BufferSizeAssumption
  <2> QED
    BY <2>1, <2>2, <1>2 DEF Next1
<1> QED
  BY <1>1, <1>2

LEMMA Next1Slot ==
  ASSUME NEW i \in Slot
  PROVE  Next1(i) \in Slot
BY Next1Value, BufferSizeAssumption DEF Slot

LEMMA PlaceSlot ==
  ASSUME NEW w \in Slot, NEW d \in 0 .. BufferSize
  PROVE  Place(w, d) \in Slot
BY BufferSizeAssumption DEF Slot, Place

(* Two distances name one slot only when they are the two ends. *)
LEMMA PlaceInjective ==
  ASSUME NEW w \in Slot, NEW d \in 0 .. BufferSize, NEW e \in 0 .. BufferSize,
         Place(w, d) = Place(w, e)
  PROVE  d = e \/ (d = 0 /\ e = BufferSize) \/ (d = BufferSize /\ e = 0)
BY BufferSizeAssumption DEF Slot, Place

LEMMA PlaceEnds ==
  ASSUME NEW w \in Slot
  PROVE  Place(w, 0) = w /\ Place(w, BufferSize) = w
BY BufferSizeAssumption DEF Slot, Place

(* One step of an index is one place nearer to write_idx. *)
LEMMA PlaceNext ==
  ASSUME NEW w \in Slot, NEW d \in 1 .. BufferSize
  PROVE  Next1(Place(w, d)) = Place(w, d - 1)
BY PlaceSlot, Next1Value, BufferSizeAssumption DEF Slot, Place

(* One step of write_idx puts every place one further behind. *)
LEMMA PlaceShift ==
  ASSUME NEW w \in Slot, NEW d \in 1 .. BufferSize
  PROVE  Place(Next1(w), d) = Place(w, d - 1)
BY Next1Value, BufferSizeAssumption DEF Slot, Place

(* The producer's test holds of the index BufferSize - 1 behind. *)
LEMMA FullPlace ==
  ASSUME NEW w \in Slot
  PROVE  Next1(w) = Place(w, BufferSize - 1)
BY Next1Value, BufferSizeAssumption DEF Slot, Place

-----------------------------------------------------------------------------
(* The stream's view of the reader's queue *)

LEMMA ReceivedValue ==
  ASSUME camera_queue \in Seq(Content)
  PROVE  /\ Len(camera_queue) \in Nat
         /\ Received \in Seq(Packet \cup {Never, 0})
         /\ Len(Received) = Len(camera_queue)
         /\ camera_queue = <<>> <=> Received = <<>>
<1>1. Len(camera_queue) \in Nat
  BY LenProperties
<1>2. ASSUME NEW i \in 1 .. Len(camera_queue)
      PROVE  (IF camera_queue[i].hdr = camera_queue[i].img THEN camera_queue[i].hdr ELSE 0)
               \in Packet \cup {Never, 0}
  <2>1. camera_queue[i] \in Content
    BY ElementOfSeq
  <2> QED
    BY <2>1 DEF Content
<1>3. Received \in [1 .. Len(camera_queue) -> Packet \cup {Never, 0}]
  BY <1>2 DEF Received
<1>4. Received \in Seq(Packet \cup {Never, 0})
  BY <1>1, <1>3, SeqDef
<1>5. Len(Received) = Len(camera_queue)
  BY <1>1, <1>3, <1>4, LenProperties
<1>6. camera_queue = <<>> <=> Received = <<>>
  BY <1>1, <1>4, <1>5, EmptySeq
<1> QED
  BY <1>1, <1>4, <1>5, <1>6

(* A whole packet that is pushed is received by the stream, as its last. *)
LEMMA ReceivedPush ==
  ASSUME camera_queue \in Seq(Content), NEW k \in Packet,
         camera_queue' = Append(camera_queue, Whole(k))
  PROVE  Received' = Append(Received, k) /\ LastGot' = k
<1> DEFINE n == Len(camera_queue)
           q == Append(camera_queue, Whole(k))
           R == Packet \cup {Never, 0}
<1>1. n \in Nat /\ Received \in Seq(R) /\ Len(Received) = n
  BY ReceivedValue
<1>2. Whole(k) \in Content /\ Whole(k).hdr = k /\ Whole(k).img = k
  BY DEF Whole, Content
<1>3. q \in Seq(Content) /\ Len(q) = n + 1 /\ q[n + 1] = Whole(k)
      /\ \A i \in 1 .. n : q[i] = camera_queue[i]
  BY <1>1, <1>2, AppendProperties
<1>4. Received' = [i \in 1 .. n + 1 |-> IF q[i].hdr = q[i].img THEN q[i].hdr ELSE 0]
  BY <1>3 DEF Received
<1>5. Append(Received, k) \in Seq(R) /\ Len(Append(Received, k)) = n + 1
      /\ Append(Received, k)[n + 1] = k
      /\ \A i \in 1 .. n : Append(Received, k)[i] = Received[i]
  BY <1>1, AppendProperties
<1>6. \A i \in 1 .. n : Received'[i] = Received[i]
  BY <1>1, <1>3, <1>4 DEF Received
<1>7. Received'[n + 1] = k
  BY <1>1, <1>2, <1>3, <1>4
<1>8. \A i \in 1 .. n + 1 : Received'[i] = Append(Received, k)[i]
  BY <1>1, <1>5, <1>6, <1>7
<1>9. DOMAIN Append(Received, k) = 1 .. n + 1 /\ Append(Received, k) \in [1 .. n + 1 -> R]
  BY <1>5, LenProperties
<1>10. Received' \in [1 .. n + 1 -> R]
  BY <1>4, <1>8, <1>9
<1>11. Received' = Append(Received, k)
  BY <1>8, <1>9, <1>10
<1>12. Received' # <<>>
  BY <1>1, <1>5, <1>11, EmptySeq
<1> QED
  BY <1>1, <1>5, <1>11, <1>12 DEF LastGot, Stream!LastGot

LEMMA ReceivedSame ==
  ASSUME UNCHANGED camera_queue
  PROVE  Received' = Received /\ LastGot' = LastGot
BY DEF Received, LastGot, Stream!LastGot

-----------------------------------------------------------------------------
(* Types *)

USE DEF producerVars, readerVars

LEMMA TypesInit == Init => TypeOK /\ ProducerInv
<1>1. Blank \in Content
  BY DEF Blank, Content
<1>2. <<>> \in Seq(Content)
  BY EmptySeq
<1>3. 0 \in Slot
  BY BufferSizeAssumption DEF Slot
<1> QED
  BY <1>1, <1>2, <1>3, FramesAssumption DEF Init, TypeOK, ProducerInv

LEMMA ProducerTypes ==
  ASSUME TypeOK, ProducerInv, Producer
  PROVE  (TypeOK /\ ProducerInv)'
<1>1. CASE CheckFull
  BY <1>1 DEF CheckFull, TypeOK, ProducerInv
<1>2. CASE ReloadReadIdx
  BY <1>2 DEF ReloadReadIdx, TypeOK, ProducerInv
<1>3. CASE DropOldest
  BY <1>3, Next1Slot DEF DropOldest, DropTo, TypeOK, ProducerInv
<1>4. CASE FillHeader
  <2>1. wPkt \in Packet
    BY <1>4, FramesAssumption DEF FillHeader, TypeOK, ProducerInv, Packet
  <2>2. packets' \in [Slot -> Content]
    BY <1>4, <2>1 DEF FillHeader, TypeOK, Content
  <2> QED
    BY <1>4, <2>2 DEF FillHeader, TypeOK, ProducerInv
<1>5. CASE FillImage
  <2>1. wPkt \in Packet
    BY <1>5, FramesAssumption DEF FillImage, TypeOK, ProducerInv, Packet
  <2>2. packets' \in [Slot -> Content]
    BY <1>5, <2>1 DEF FillImage, TypeOK, Content
  <2> QED
    BY <1>5, <2>2 DEF FillImage, TypeOK, ProducerInv
<1>6. CASE Publish
  BY <1>6, Next1Slot DEF Publish, TypeOK, ProducerInv
<1>7. CASE Post
  BY <1>7, FramesAssumption DEF Post, TypeOK, ProducerInv
<1> QED
  BY <1>1, <1>2, <1>3, <1>4, <1>5, <1>6, <1>7 DEF Producer

LEMMA ReaderTypes ==
  ASSUME TypeOK, ProducerInv, Reader
  PROVE  (TypeOK /\ ProducerInv)'
<1>1. CASE WaitToken
  BY <1>1 DEF WaitToken, TypeOK, ProducerInv
<1>2. CASE LoadReadIdx
  BY <1>2 DEF LoadReadIdx, TypeOK, ProducerInv
<1>3. CASE CompareIdx
  BY <1>3 DEF CompareIdx, TypeOK, ProducerInv
<1>4. CASE CopyHeader
  <2>1. rPacket' \in Content
    BY <1>4 DEF CopyHeader, TypeOK, Content
  <2> QED
    BY <1>4, <2>1 DEF CopyHeader, TypeOK, ProducerInv
<1>5. CASE CopyImageAndPush
  <2>1. rPacket' \in Content
    BY <1>5 DEF CopyImageAndPush, TypeOK, Content
  <2>2. camera_queue' \in Seq(Content)
    BY <1>5, <2>1, AppendProperties DEF CopyImageAndPush, TypeOK
  <2> QED
    BY <1>5, <2>1, <2>2 DEF CopyImageAndPush, TypeOK, ProducerInv
<1>6. CASE LoadForAdvance
  BY <1>6 DEF LoadForAdvance, TypeOK, ProducerInv
<1>7. CASE AdvanceReadIdx
  BY <1>7, Next1Slot DEF AdvanceReadIdx, TypeOK, ProducerInv
<1> QED
  BY <1>1, <1>2, <1>3, <1>4, <1>5, <1>6, <1>7 DEF Reader

LEMMA TypesStep ==
  ASSUME TypeOK, ProducerInv, [Next]_vars
  PROVE  (TypeOK /\ ProducerInv)'
<1>1. CASE UNCHANGED vars
  BY <1>1 DEF vars, TypeOK, ProducerInv
<1> QED
  BY <1>1, ProducerTypes, ReaderTypes DEF Next

(* Every index stays a slot of the ring and every packet copied out of it  *)
(* is made of what was written into it or of what a slot holds before      *)
(* anything is, whatever race occurs.                                      *)
THEOREM TypeCorrect == Spec => []TypeOK
<1>1. Init => TypeOK /\ ProducerInv
  BY TypesInit
<1>2. TypeOK /\ ProducerInv /\ [Next]_vars => (TypeOK /\ ProducerInv)'
  BY TypesStep
<1> QED
  BY <1>1, <1>2, PTL DEF Spec

-----------------------------------------------------------------------------
(* The ring until the first race: what one step needs of the invariant *)

LEMMA CountsValue ==
  ASSUME TypeOK
  PROVE  /\ Len(camera_queue) \in Nat /\ drops \in Nat /\ sem \in Nat
         /\ Published \in Nat /\ Consumed \in Int /\ Lag \in Int
         /\ Published = Consumed + Lag
<1>1. Len(camera_queue) \in Nat /\ drops \in Nat /\ sem \in Nat
  BY ReceivedValue DEF TypeOK
<1>2. wPkt \in Nat /\ wPkt >= 1
  BY FramesAssumption DEF TypeOK
<1>3. Published \in Nat
  BY <1>2 DEF Published
<1>4. Consumed \in Int
  BY <1>1 DEF Consumed
<1> QED
  BY <1>1, <1>3, <1>4 DEF Lag

LEMMA PublishedRange ==
  ASSUME TypeOK, ProducerInv
  PROVE  Published <= 2 * Frames
BY FramesAssumption DEF TypeOK, ProducerInv, Published

LEMMA SlotsSame ==
  ASSUME SlotsInv, UNCHANGED <<write_idx, packets, wPkt, Published, Filling>>,
         wPc' = "publish" => wPc = "publish"
  PROVE  SlotsInv'
BY DEF SlotsInv, Behind, Place, Whole

(* A reader's step outside of its copy leaves the ring itself alone. *)
LEMMA IndexSame ==
  ASSUME TypeOK, IndexInv, UNCHANGED <<write_idx, read_idx, wPc, wSeen, Lag>>
  PROVE  IndexInv'
BY DEF IndexInv, Behind, Place

LEMMA CleanInit ==
  ASSUME Init
  PROVE  Clean
<1>1. Len(camera_queue) = 0 /\ Published = 0 /\ Consumed = 0 /\ Lag = 0
  BY EmptySeq, FramesAssumption DEF Init, Published, Consumed, Lag, Pushed
<1>2. IndexInv
  BY <1>1, BufferSizeAssumption DEF Init, IndexInv, Behind, Place
<1>3. SlotsInv
  BY <1>1, BufferSizeAssumption DEF Init, SlotsInv, Filling
<1>4. LastGot = 0
  <2>1. Received = <<>>
    BY ReceivedValue, EmptySeq DEF Init
  <2> QED
    BY <2>1 DEF LastGot, Stream!LastGot
<1>5. ReaderInv
  BY <1>1, <1>4 DEF Init, ReaderInv, Pushed
<1> QED
  BY <1>2, <1>3, <1>5 DEF Clean

-----------------------------------------------------------------------------
(* The reader's steps *)

(* In every one of them the producer's side of the ring is unchanged. *)
LEMMA ReaderFrame ==
  ASSUME TypeOK, Clean, Reader
  PROVE  /\ UNCHANGED <<write_idx, packets, producerVars, drops, Published, Filling>>
         /\ SlotsInv'
<1>1. UNCHANGED <<write_idx, packets, producerVars, drops>>
  BY DEF Reader, WaitToken, LoadReadIdx, CompareIdx, CopyHeader, CopyImageAndPush,
         LoadForAdvance, AdvanceReadIdx
<1>2. UNCHANGED <<Published, Filling>>
  BY <1>1 DEF Published, Filling
<1> QED
  BY <1>1, <1>2, SlotsSame DEF Clean

LEMMA WaitTokenClean ==
  ASSUME TypeOK, Clean, WaitToken
  PROVE  Clean'
<1> USE DEF WaitToken
<1>1. UNCHANGED <<Published, Consumed, Lag, LastGot>> /\ ~Pushed'
  BY ReceivedSame DEF Published, Consumed, Lag, Pushed
<1>2. IndexInv' /\ SlotsInv'
  BY <1>1, IndexSame, ReaderFrame DEF Clean, Reader
<1>3. ReaderInv'
  BY <1>1, CountsValue DEF Clean, ReaderInv, Pushed
<1> QED
  BY <1>2, <1>3 DEF Clean

LEMMA LoadReadIdxClean ==
  ASSUME TypeOK, Clean, LoadReadIdx
  PROVE  Clean'
<1> USE DEF LoadReadIdx
<1>1. UNCHANGED <<Published, Consumed, Lag, LastGot>> /\ ~Pushed /\ ~Pushed'
  BY ReceivedSame DEF Published, Consumed, Lag, Pushed
<1>2. IndexInv' /\ SlotsInv'
  BY <1>1, IndexSame, ReaderFrame DEF Clean, Reader
<1>3. ReadingAt(Lag)'
  <2>1. rSeen' = Behind(Lag)' /\ Lag < BufferSize
    BY <1>1, BufferSizeAssumption DEF Clean, IndexInv, Behind
  <2>2. Lag <= Published
    BY <1>1, CountsValue DEF Consumed
  <2>3. LastGot <= Published - Lag /\ Lag <= sem + 1 + (IF wPc = "post" THEN 1 ELSE 0)
    BY <1>1, CountsValue DEF Clean, ReaderInv
  <2> QED
    BY <1>1, <2>1, <2>2, <2>3, CountsValue, BufferSizeAssumption DEF ReadingAt
<1>4. ReaderInv'
  <2>1. \E d \in 0 .. BufferSize : ReadingAt(d)'
    BY <1>1, <1>3, BufferSizeAssumption DEF Clean, IndexInv
  <2> QED
    BY <1>1, <2>1, CountsValue DEF Clean, ReaderInv
<1> QED
  BY <1>2, <1>4 DEF Clean

LEMMA CompareIdxClean ==
  ASSUME TypeOK, Clean, CompareIdx
  PROVE  Clean'
<1> USE DEF CompareIdx
<1>1. UNCHANGED <<Published, Consumed, Lag, LastGot>> /\ ~Pushed /\ ~Pushed'
  BY ReceivedSame DEF Published, Consumed, Lag, Pushed
<1>2. IndexInv' /\ SlotsInv'
  BY <1>1, IndexSame, ReaderFrame DEF Clean, Reader
<1>3. PICK d \in 0 .. BufferSize : ReadingAt(d)
  BY DEF Clean, ReaderInv
<1>4. CASE HasPacket(rSeen)
  <2>1. d >= 1
    BY <1>3, <1>4, PlaceEnds DEF HasPacket, ReadingAt, Behind, TypeOK
  <2>2. ReadingAt(d)'
    BY <1>1, <1>3, <1>4, <2>1 DEF ReadingAt, Behind, Place, Filling
  <2> QED
    BY <1>1, <1>2, <1>4, <2>2, CountsValue DEF Clean, ReaderInv
<1>5. CASE ~HasPacket(rSeen)
  <2>1. d = 0 \/ d = BufferSize
    BY <1>3, <1>5, PlaceEnds, PlaceInjective, BufferSizeAssumption
       DEF HasPacket, ReadingAt, Behind, TypeOK
  <2>2. Lag <= sem + (IF wPc = "post" THEN 1 ELSE 0)
    BY <1>3, <2>1, CountsValue, BufferSizeAssumption DEF Clean, IndexInv, ReadingAt
  <2> QED
    BY <1>1, <1>2, <1>5, <2>2, CountsValue DEF Clean, ReaderInv
<1> QED
  BY <1>4, <1>5

(* The slot the reader copies holds the packet it decided to copy. *)
LEMMA SlotOfReading ==
  ASSUME TypeOK, ProducerInv, Clean, NEW d \in 1 .. BufferSize, ReadingAt(d)
  PROVE  packets[rSeen] = Whole(Published - d + 1) /\ Published - d + 1 \in Packet
<1>1. Published - d + 1 \in Packet
  BY CountsValue, PublishedRange, FramesAssumption DEF ReadingAt, Packet
<1>2. packets[Behind(d)] = Whole(Published - d + 1)
  BY DEF Clean, SlotsInv, ReadingAt
<1> QED
  BY <1>1, <1>2 DEF ReadingAt

LEMMA CopyHeaderClean ==
  ASSUME TypeOK, ProducerInv, Clean, CopyHeader
  PROVE  Clean'
<1> USE DEF CopyHeader
<1>1. UNCHANGED <<Published, Consumed, Lag, LastGot>> /\ ~Pushed /\ ~Pushed'
  BY ReceivedSame DEF Published, Consumed, Lag, Pushed
<1>2. IndexInv' /\ SlotsInv'
  BY <1>1, IndexSame, ReaderFrame DEF Clean, Reader
<1>3. PICK d \in 0 .. BufferSize : ReadingAt(d)
  BY DEF Clean, ReaderInv
<1>4. d \in 1 .. BufferSize
  BY <1>3, BufferSizeAssumption DEF ReadingAt
<1>5. rPacket'.hdr = Published - d + 1
  BY <1>3, <1>4, SlotOfReading DEF Whole, TypeOK, Content
<1>6. ReadingAt(d)'
  BY <1>1, <1>3, <1>4, <1>5 DEF ReadingAt, Behind, Place, Filling
<1> QED
  BY <1>1, <1>2, <1>6, CountsValue DEF Clean, ReaderInv

(* What is pushed is the packet the reader decided to copy, whole. *)
LEMMA PushIsWhole ==
  ASSUME TypeOK, ProducerInv, Clean, CopyImageAndPush
  PROVE  \E d \in 1 .. BufferSize :
            /\ ReadingAt(d) /\ Published - d + 1 \in Packet
            /\ camera_queue' = Append(camera_queue, Whole(Published - d + 1))
<1> USE DEF CopyImageAndPush
<1>1. PICK d \in 0 .. BufferSize : ReadingAt(d)
  BY DEF Clean, ReaderInv
<1>2. d \in 1 .. BufferSize
  BY <1>1, BufferSizeAssumption DEF ReadingAt
<1>3. packets[rSeen] = Whole(Published - d + 1) /\ Published - d + 1 \in Packet
  BY <1>1, <1>2, SlotOfReading
<1>4. rPacket' = Whole(Published - d + 1)
  <2>1. rPacket' = [hdr |-> rPacket.hdr, img |-> packets[rSeen].img]
    BY DEF TypeOK, Content
  <2>2. rPacket.hdr = Published - d + 1
    BY <1>1 DEF ReadingAt, Filling
  <2>3. packets[rSeen].img = Published - d + 1
    BY <1>3 DEF Whole
  <2> QED
    BY <2>1, <2>2, <2>3 DEF Whole
<1> QED
  BY <1>1, <1>2, <1>3, <1>4

LEMMA CopyImageAndPushClean ==
  ASSUME TypeOK, ProducerInv, Clean, CopyImageAndPush
  PROVE  Clean'
<1> USE DEF CopyImageAndPush
<1>1. PICK d \in 1 .. BufferSize :
         /\ ReadingAt(d) /\ Published - d + 1 \in Packet
         /\ camera_queue' = Append(camera_queue, Whole(Published - d + 1))
  BY PushIsWhole
<1>2. LastGot' = Published - d + 1 /\ Len(camera_queue') = Len(camera_queue) + 1
  BY <1>1, ReceivedPush, AppendProperties DEF TypeOK, Whole, Content
<1>3. UNCHANGED <<Published, Consumed, Lag>> /\ ~Pushed /\ Pushed'
  <2>1. ~Pushed /\ Pushed' /\ UNCHANGED Published
    BY DEF Pushed, Published
  <2>2. UNCHANGED Consumed
    BY <1>2, <2>1, CountsValue DEF Consumed
  <2> QED
    BY <2>1, <2>2 DEF Lag
<1>4. IndexInv' /\ SlotsInv'
  BY <1>3, IndexSame, ReaderFrame DEF Clean, Reader
<1>5. Lag >= 1
  BY <1>1, CountsValue DEF ReadingAt
<1>6. LastGot' \in Nat /\ LastGot' <= Consumed + 1
  BY <1>1, <1>2, CountsValue DEF ReadingAt, Packet
<1> QED
  BY <1>3, <1>4, <1>5, <1>6, CountsValue DEF Clean, ReaderInv, Pushed

LEMMA LoadForAdvanceClean ==
  ASSUME TypeOK, Clean, LoadForAdvance
  PROVE  Clean'
<1> USE DEF LoadForAdvance
<1>1. UNCHANGED <<Published, Consumed, Lag, LastGot>> /\ Pushed /\ Pushed'
  BY ReceivedSame DEF Published, Consumed, Lag, Pushed
<1>2. IndexInv' /\ SlotsInv'
  BY <1>1, IndexSame, ReaderFrame DEF Clean, Reader
<1> QED
  BY <1>1, <1>2, CountsValue DEF Clean, ReaderInv, Pushed

(* Without a race the index moves past exactly the packet just pushed. *)
LEMMA AdvanceReadIdxClean ==
  ASSUME TypeOK, Clean, AdvanceReadIdx, ~raced'
  PROVE  Clean'
<1> USE DEF AdvanceReadIdx
<1>1. UNCHANGED <<Published, LastGot>> /\ Pushed /\ ~Pushed'
  BY ReceivedSame DEF Published, Pushed
<1>2. Consumed' = Consumed + 1 /\ Lag' = Lag - 1 /\ Lag >= 1
  <2>1. Consumed' = Consumed + 1
    BY <1>1, CountsValue DEF Consumed
  <2>2. Lag' = Lag - 1
    BY <1>1, <2>1, CountsValue DEF Lag
  <2> QED
    BY <1>1, <2>1, <2>2 DEF Clean, ReaderInv
<1>3. read_idx' = Behind(Lag - 1)
  <2>1. rSeen = read_idx
    OBVIOUS
  <2>2. read_idx = Behind(Lag) /\ Lag \in 1 .. BufferSize
    BY <1>2, BufferSizeAssumption DEF Clean, IndexInv
  <2> QED
    BY <2>1, <2>2, PlaceNext DEF Behind, TypeOK
<1>4. IndexInv'
  BY <1>2, <1>3, BufferSizeAssumption DEF Clean, IndexInv, Behind, Place
<1>5. SlotsInv'
  BY ReaderFrame DEF Reader
<1>6. ReaderInv'
  BY <1>1, <1>2, CountsValue DEF Clean, ReaderInv, Pushed
<1> QED
  BY <1>4, <1>5, <1>6 DEF Clean

-----------------------------------------------------------------------------
(* The producer's steps *)

LEMMA ProducerFrame ==
  ASSUME TypeOK, Producer
  PROVE  UNCHANGED <<readerVars, LastGot, Pushed, Received>>
<1>1. UNCHANGED readerVars
  BY DEF Producer, CheckFull, ReloadReadIdx, DropOldest, FillHeader, FillImage, Publish, Post
<1> QED
  BY <1>1, ReceivedSame DEF Pushed

(* A step that leaves the counts, the ring's own state and the tokens      *)
(* alone leaves the reader where it was.                                   *)
LEMMA ReaderSame ==
  ASSUME TypeOK, Clean, Producer,
         UNCHANGED <<write_idx, sem, Published, Consumed, Lag, Filling>>,
         wPc # "post", wPc' # "post"
  PROVE  ReaderInv'
<1>1. \A d \in 0 .. BufferSize : ReadingAt(d) => ReadingAt(d)'
  BY ProducerFrame DEF ReadingAt, Behind, Place
<1> QED
  BY <1>1, ProducerFrame DEF Clean, ReaderInv

LEMMA CheckFullClean ==
  ASSUME TypeOK, Clean, CheckFull
  PROVE  Clean'
<1> USE DEF CheckFull
<1>1. UNCHANGED <<Published, Consumed, Lag, Filling>>
  BY ProducerFrame DEF Producer, Published, Consumed, Lag, Filling
<1>2. IndexInv'
  <2>1. ~RingFull(read_idx) => Lag # BufferSize - 1
    BY FullPlace DEF Clean, IndexInv, RingFull, Behind, TypeOK
  <2> QED
    BY <1>1, <2>1, BufferSizeAssumption DEF Clean, IndexInv, Behind
<1>3. SlotsInv'
  BY <1>1, SlotsSame DEF Clean
<1>4. ReaderInv'
  BY <1>1, ReaderSame DEF Producer
<1> QED
  BY <1>2, <1>3, <1>4 DEF Clean

LEMMA ReloadReadIdxClean ==
  ASSUME TypeOK, Clean, ReloadReadIdx
  PROVE  Clean'
<1> USE DEF ReloadReadIdx
<1>1. UNCHANGED <<Published, Consumed, Lag, Filling>>
  BY ProducerFrame DEF Producer, Published, Consumed, Lag, Filling
<1>2. IndexInv'
  BY <1>1 DEF Clean, IndexInv, Behind
<1>3. SlotsInv'
  BY <1>1, SlotsSame DEF Clean
<1>4. ReaderInv'
  BY <1>1, ReaderSame DEF Producer
<1> QED
  BY <1>2, <1>3, <1>4 DEF Clean

(* Without a race the drop is of exactly the oldest packet of a full ring. *)
LEMMA DropOldestClean ==
  ASSUME TypeOK, Clean, DropOldest, ~raced'
  PROVE  Clean'
<1> USE DEF DropOldest
<1>1. UNCHANGED <<Published, Filling, LastGot, Pushed, readerVars>>
  BY ProducerFrame DEF Producer, Published, Filling
<1>2. RingFull(read_idx)
  OBVIOUS
<1>3. Lag = BufferSize - 1
  BY <1>2, FullPlace, PlaceInjective, BufferSizeAssumption
     DEF RingFull, Clean, IndexInv, Behind, TypeOK
<1>4. Consumed' = Consumed + 1
  BY <1>1, CountsValue DEF Consumed
<1>5. Lag' = BufferSize - 2
  BY <1>1, <1>3, <1>4, CountsValue, BufferSizeAssumption DEF Lag
<1>6. read_idx' = Behind(BufferSize - 2)
  <2>1. wSeen = Behind(BufferSize - 1)
    BY <1>3 DEF Clean, IndexInv
  <2> QED
    BY <2>1, PlaceNext, BufferSizeAssumption DEF DropTo, Behind, TypeOK
<1>7. IndexInv'
  BY <1>5, <1>6, BufferSizeAssumption DEF IndexInv, Behind
<1>8. SlotsInv'
  BY <1>1, SlotsSame DEF Clean
<1>9. \A d \in 0 .. BufferSize : ReadingAt(d) => ReadingAt(d)'
  BY <1>1, <1>3, <1>5, BufferSizeAssumption DEF ReadingAt, Behind
<1>10. ReaderInv'
  BY <1>1, <1>3, <1>4, <1>5, <1>9, CountsValue, BufferSizeAssumption DEF Clean, ReaderInv
<1> QED
  BY <1>7, <1>8, <1>10 DEF Clean

(* Filling a slot touches none that the reader may still use. *)
LEMMA FillKeepsReader ==
  ASSUME TypeOK, Clean, FillHeader \/ FillImage, ~raced'
  PROVE  ReaderInv'
<1>1. ~Overrun /\ UNCHANGED <<write_idx, sem>> /\ wPc # "post" /\ wPc' # "post"
  BY DEF FillHeader, FillImage
<1>2. UNCHANGED <<Published, Consumed, Lag, LastGot, Pushed, readerVars>>
  BY ProducerFrame DEF Producer, Published, Consumed, Lag, FillHeader, FillImage
<1>3. ASSUME rPc \in {"compare", "copyHeader", "copyImage"},
             NEW d \in 0 .. BufferSize, ReadingAt(d)
      PROVE  ReadingAt(d)'
  <2>1. d # BufferSize
    BY <1>1, <1>3, PlaceEnds DEF Overrun, ReadingAt, Behind, TypeOK
  <2> QED
    BY <1>1, <1>2, <1>3, <2>1 DEF ReadingAt, Behind
<1> QED
  BY <1>1, <1>2, <1>3 DEF Clean, ReaderInv

LEMMA FillHeaderClean ==
  ASSUME TypeOK, Clean, FillHeader, ~raced'
  PROVE  Clean'
<1> USE DEF FillHeader
<1>1. UNCHANGED <<Published, Consumed, Lag>>
  BY ProducerFrame DEF Producer, Published, Consumed, Lag
<1>2. IndexInv'
  BY <1>1, BufferSizeAssumption DEF Clean, IndexInv, Behind
<1>3. \A d \in 1 .. BufferSize - 1 : Behind(d) # write_idx
  BY BufferSizeAssumption DEF Behind, Place, TypeOK, Slot
<1>4. \A s \in Slot : packets'[s] = IF s = write_idx THEN [packets[s] EXCEPT !.hdr = wPkt] ELSE packets[s]
  BY DEF TypeOK
<1>5. SlotsInv'
  <2>1. packets'[write_idx].hdr = wPkt
    BY <1>4 DEF TypeOK, Content
  <2>2. ASSUME NEW d \in 1 .. BufferSize, d <= Published, d # BufferSize
        PROVE  packets'[Behind(d)] = Whole(Published - d + 1)
    <3>1. packets[Behind(d)] = Whole(Published - d + 1)
      BY <2>2 DEF Clean, SlotsInv
    <3>2. Behind(d) \in Slot /\ Behind(d) # write_idx
      BY <2>2, <1>3, PlaceSlot, BufferSizeAssumption DEF Behind, TypeOK
    <3> QED
      BY <1>4, <3>1, <3>2
  <2> QED
    BY <1>1, <2>1, <2>2 DEF SlotsInv, Behind, Filling, Whole
<1>6. ReaderInv'
  BY FillKeepsReader
<1> QED
  BY <1>2, <1>5, <1>6 DEF Clean

LEMMA FillImageClean ==
  ASSUME TypeOK, Clean, FillImage, ~raced'
  PROVE  Clean'
<1> USE DEF FillImage
<1>1. UNCHANGED <<Published, Consumed, Lag>>
  BY ProducerFrame DEF Producer, Published, Consumed, Lag
<1>2. IndexInv'
  BY <1>1, BufferSizeAssumption DEF Clean, IndexInv, Behind
<1>3. \A d \in 1 .. BufferSize - 1 : Behind(d) # write_idx
  BY BufferSizeAssumption DEF Behind, Place, TypeOK, Slot
<1>4. \A s \in Slot : packets'[s] = IF s = write_idx THEN [packets[s] EXCEPT !.img = wPkt] ELSE packets[s]
  BY DEF TypeOK
<1>5. SlotsInv'
  <2>1. packets'[write_idx].hdr = wPkt /\ packets'[write_idx].img = wPkt
    <3>1. packets[write_idx].hdr = wPkt
      BY DEF Clean, SlotsInv, Filling
    <3> QED
      BY <1>4, <3>1 DEF TypeOK, Content
  <2>2. ASSUME NEW d \in 1 .. BufferSize, d <= Published, d # BufferSize
        PROVE  packets'[Behind(d)] = Whole(Published - d + 1)
    <3>1. packets[Behind(d)] = Whole(Published - d + 1)
      BY <2>2 DEF Clean, SlotsInv
    <3>2. Behind(d) \in Slot /\ Behind(d) # write_idx
      BY <2>2, <1>3, PlaceSlot, BufferSizeAssumption DEF Behind, TypeOK
    <3> QED
      BY <1>4, <3>1, <3>2
  <2> QED
    BY <1>1, <2>1, <2>2 DEF SlotsInv, Behind, Filling, Whole
<1>6. ReaderInv'
  BY FillKeepsReader
<1> QED
  BY <1>2, <1>5, <1>6 DEF Clean

(* Everything in the ring is now one place further behind. *)
LEMMA PublishClean ==
  ASSUME TypeOK, ProducerInv, Clean, Publish
  PROVE  Clean'
<1> USE DEF Publish
<1>1. wPkt \in Nat /\ Published = wPkt - 1 /\ Published' = Published + 1 /\ Filling /\ ~Filling'
  BY FramesAssumption DEF Published, Filling, TypeOK
<1>2. UNCHANGED <<readerVars, LastGot, Pushed, Consumed>>
  BY ProducerFrame DEF Producer, Consumed
<1>3. Lag' = Lag + 1 /\ Lag \in 0 .. BufferSize - 2
  <2>1. Lag \in 0 .. BufferSize - 2
    BY BufferSizeAssumption DEF Clean, IndexInv
  <2> QED
    BY <1>1, <1>2, <2>1, CountsValue DEF Lag
<1>4. \A d \in 0 .. BufferSize - 1 : Behind(d + 1)' = Behind(d)
  <2> SUFFICES ASSUME NEW d \in 0 .. BufferSize - 1
               PROVE  Place(Next1(write_idx), d + 1) = Place(write_idx, d)
    BY DEF Behind
  <2>1. d + 1 \in 1 .. BufferSize /\ (d + 1) - 1 = d
    BY BufferSizeAssumption
  <2> QED
    BY <2>1, PlaceShift DEF TypeOK
<1>5. IndexInv'
  BY <1>3, <1>4, BufferSizeAssumption DEF Clean, IndexInv
<1>6. SlotsInv'
  <2>1. packets[write_idx] = Whole(wPkt)
    BY <1>1 DEF Clean, SlotsInv, TypeOK, Content, Whole
  <2>2. ASSUME NEW e \in 1 .. BufferSize, e <= Published'
        PROVE  packets[Behind(e)'] = Whole(Published' - e + 1)
    <3>1. PICK d \in 0 .. BufferSize - 1 : e = d + 1
      BY BufferSizeAssumption
    <3>2. Behind(e)' = Behind(d) /\ Published' - e + 1 = wPkt - d
      BY <1>1, <1>4, <3>1
    <3>3. CASE d = 0
      BY <2>1, <3>2, <3>3, <1>1, PlaceEnds DEF Behind, TypeOK
    <3>4. CASE d # 0
      <4>1. d \in 1 .. BufferSize /\ d # BufferSize /\ d <= Published /\ Published - d + 1 = wPkt - d
        BY <1>1, <2>2, <3>1, <3>4, BufferSizeAssumption
      <4> QED
        BY <3>2, <4>1 DEF Clean, SlotsInv
    <3> QED
      BY <3>3, <3>4
  <2> QED
    BY <1>1, <2>2 DEF SlotsInv
<1>7. ASSUME NEW d \in 0 .. BufferSize, ReadingAt(d)
      PROVE  d + 1 \in 0 .. BufferSize /\ ReadingAt(d + 1)'
  <2>1. d \in 0 .. BufferSize - 1
    BY <1>1, <1>7, BufferSizeAssumption DEF ReadingAt
  <2>2. rSeen' = Behind(d + 1)'
    BY <1>2, <1>4, <1>7, <2>1 DEF ReadingAt
  <2>3. Published' - (d + 1) = Published - d
    BY <1>1, CountsValue
  <2> QED
    BY <1>1, <1>2, <1>3, <1>7, <2>1, <2>2, <2>3, CountsValue, BufferSizeAssumption DEF ReadingAt
<1>8. ReaderInv'
  BY <1>2, <1>3, <1>7, CountsValue, BufferSizeAssumption DEF Clean, ReaderInv
<1> QED
  BY <1>5, <1>6, <1>8 DEF Clean

LEMMA PostClean ==
  ASSUME TypeOK, ProducerInv, Clean, Post
  PROVE  Clean'
<1> USE DEF Post
<1>1. wPkt \in Nat /\ UNCHANGED <<Published, Filling>> /\ ~Filling
  BY FramesAssumption DEF Published, Filling, TypeOK
<1>2. UNCHANGED <<readerVars, LastGot, Pushed, Consumed, Lag>>
  BY <1>1, ProducerFrame DEF Producer, Consumed, Lag
<1>3. IndexInv'
  BY <1>2 DEF Clean, IndexInv, Behind
<1>4. SlotsInv'
  BY <1>1 DEF Clean, SlotsInv, Behind
<1>5. \A d \in 0 .. BufferSize : ReadingAt(d) => ReadingAt(d)'
  BY <1>1, <1>2, CountsValue DEF ReadingAt, Behind
<1>6. ReaderInv'
  BY <1>2, <1>5, CountsValue DEF Clean, ReaderInv
<1> QED
  BY <1>3, <1>4, <1>6 DEF Clean

-----------------------------------------------------------------------------
(* The invariant is inductive *)

LEMMA CleanStep ==
  ASSUME TypeOK, ProducerInv, Clean, Next, ~raced'
  PROVE  Clean'
BY WaitTokenClean, LoadReadIdxClean, CompareIdxClean, CopyHeaderClean, CopyImageAndPushClean,
   LoadForAdvanceClean, AdvanceReadIdxClean, CheckFullClean, ReloadReadIdxClean,
   DropOldestClean, FillHeaderClean, FillImageClean, PublishClean, PostClean
   DEF Next, Producer, Reader

(* A race is never forgotten. *)
LEMMA RacedStays ==
  ASSUME TypeOK, [Next]_vars, raced
  PROVE  raced'
BY DEF TypeOK, Next, Producer, Reader, vars, CheckFull, ReloadReadIdx, DropOldest, FillHeader,
       FillImage, Publish, Post, WaitToken, LoadReadIdx, CompareIdx, CopyHeader,
       CopyImageAndPush, LoadForAdvance, AdvanceReadIdx

LEMMA RingInvInit == Init => RingInv
BY TypesInit, CleanInit DEF RingInv

LEMMA RingInvStep ==
  ASSUME RingInv, [Next]_vars
  PROVE  RingInv'
<1>1. (TypeOK /\ ProducerInv)'
  BY TypesStep DEF RingInv
<1>2. ASSUME ~raced' PROVE Clean'
  <2>1. ~raced /\ Clean
    BY <1>2, RacedStays DEF RingInv
  <2>2. CASE Next
    BY <1>2, <2>1, <2>2, CleanStep DEF RingInv
  <2>3. CASE UNCHANGED vars
    <3>1. UNCHANGED <<Published, Consumed, Lag, LastGot, Pushed, Filling>>
      BY <2>3, ReceivedSame DEF vars, Published, Consumed, Lag, Pushed, Filling
    <3>2. \A d \in 0 .. BufferSize : ReadingAt(d) => ReadingAt(d)'
      BY <2>3, <3>1 DEF vars, ReadingAt, Behind
    <3> QED
      BY <2>1, <2>3, <3>1, <3>2 DEF vars, Clean, IndexInv, SlotsInv, ReaderInv, Behind
  <2> QED
    BY <2>2, <2>3
<1> QED
  BY <1>1, <1>2 DEF RingInv

LEMMA RingInvHolds == Spec => []RingInv
BY RingInvInit, RingInvStep, PTL DEF Spec

-----------------------------------------------------------------------------
(* Results *)

(* At rest there is no token, so nothing is left between the indices. *)
LEMMA QuietRing ==
  ASSUME RingInv, Quiescent, ~raced
  PROVE  Lag = 0 /\ ~Pushed /\ Published = 2 * Frames
BY CountsValue, FramesAssumption, BufferSizeAssumption
   DEF RingInv, Clean, IndexInv, ReaderInv, ProducerInv, Quiescent, Pushed, Published

(* Every time the producer finds the ring full one packet is lost and no   *)
(* other ever is: at rest and without a race, sent minus received is the   *)
(* number of times it took that branch.                                    *)
THEOREM EveryLossIsADrop == Spec => []DropsAccounted
<1>1. RingInv => DropsAccounted
  <2> SUFFICES ASSUME RingInv, Quiescent, ~raced
               PROVE  2 * Frames - Len(camera_queue) = drops
    BY DEF DropsAccounted
  <2>1. Len(camera_queue) + drops = Consumed
    BY QuietRing, CountsValue DEF Consumed, RingInv
  <2> QED
    BY <2>1, QuietRing, CountsValue DEF RingInv
<1> QED
  BY <1>1, RingInvHolds, PTL

(* The tokens suffice: when the producer is done and the reader blocks on  *)
(* an empty semaphore, no packet is stuck in the ring, without a race.     *)
RestsEmpty == Quiescent /\ ~raced => read_idx = write_idx
THEOREM NothingStuck == Spec => []RestsEmpty
<1>1. RingInv => RestsEmpty
  BY QuietRing, PlaceEnds DEF RestsEmpty, RingInv, Clean, IndexInv, Behind, TypeOK
<1> QED
  BY <1>1, RingInvHolds, PTL

(* Until the first race the ring, the tokens and the two processes are the *)
(* lossy in-order stream: what a publication does is the stream's send,    *)
(* what a push does is its receive, and nothing else is seen of the ring.  *)
THEOREM StreamUntilRace == Spec => ImplementsStream
<1>1. Init => Stream!Init
  <2> SUFFICES ASSUME Init PROVE Published = 0 /\ Received = <<>>
    BY DEF Stream!Init
  <2>1. camera_queue = <<>> /\ camera_queue \in Seq(Content)
    BY TypesInit DEF Init, TypeOK
  <2> QED
    BY <2>1, ReceivedValue, FramesAssumption DEF Init, Published
<1>2. RingInv /\ [Next]_vars => [raced' \/ Stream!Next]_<<Published, Received>>
  <2> SUFFICES ASSUME RingInv, [Next]_vars, ~raced', ~UNCHANGED <<Published, Received>>
               PROVE  Stream!Next
    OBVIOUS
  <2>1. TypeOK /\ ProducerInv /\ Clean
    BY RacedStays DEF RingInv
  <2>2. CASE Publish
    <3>1. UNCHANGED Received
      BY <2>1, <2>2, ProducerFrame DEF Producer
    <3>2. Published < 2 * Frames /\ Published' = Published + 1
      BY <2>1, <2>2, FramesAssumption DEF Publish, Published, TypeOK, ProducerInv
    <3> QED
      BY <3>1, <3>2 DEF Stream!Next, Stream!Send
  <2>3. CASE CopyImageAndPush
    <3>1. PICK d \in 1 .. BufferSize :
             /\ ReadingAt(d) /\ Published - d + 1 \in Packet
             /\ camera_queue' = Append(camera_queue, Whole(Published - d + 1))
      BY <2>1, <2>3, PushIsWhole
    <3>2. Received' = Append(Received, Published - d + 1)
      BY <2>1, <3>1, ReceivedPush DEF TypeOK
    <3>3. Published - d + 1 \in LastGot + 1 .. Published
      BY <2>1, <3>1, CountsValue DEF ReadingAt, Clean, ReaderInv
    <3>4. UNCHANGED Published
      BY <2>3 DEF CopyImageAndPush, Published
    <3> QED
      BY <3>2, <3>3, <3>4 DEF Stream!Next, Stream!Receive, LastGot
  <2>4. CASE Producer /\ ~Publish
    <3>1. UNCHANGED Received
      BY <2>1, <2>4, ProducerFrame
    <3>2. UNCHANGED Published
      BY <2>1, <2>4, FramesAssumption
         DEF Producer, CheckFull, ReloadReadIdx, DropOldest, FillHeader, FillImage, Post,
             Published, TypeOK
    <3> QED
      BY <3>1, <3>2
  <2>5. CASE Reader /\ ~CopyImageAndPush
    <3>1. UNCHANGED <<camera_queue, wPc, wPkt>>
      BY <2>5 DEF Reader, WaitToken, LoadReadIdx, CompareIdx, CopyHeader,
                  LoadForAdvance, AdvanceReadIdx
    <3> QED
      BY <3>1, ReceivedSame DEF Published
  <2>6. CASE UNCHANGED vars
    BY <2>6, ReceivedSame DEF vars, Published
  <2> QED
    BY <2>2, <2>3, <2>4, <2>5, <2>6 DEF Next
<1>3. Spec => [][raced' \/ Stream!Next]_<<Published, Received>>
  BY <1>2, RingInvHolds, PTL DEF Spec
<1> QED
  BY <1>1, <1>3, PTL DEF Spec, ImplementsStream

=============================================================================
