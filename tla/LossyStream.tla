----------------------------- MODULE LossyStream -----------------------------
(***************************************************************************)
(* What the camera channel promises the estimator's main loop: packets are *)
(* numbered 1 .. Packets in the order they are sent, any of them may be    *)
(* lost, those that arrive do so whole, once and in order.                 *)
(* CamRing implements this as long as none of its races occurs; VinsMain   *)
(* is built on it.                                                         *)
(***************************************************************************)
EXTENDS Naturals, Sequences

CONSTANT Packets

VARIABLES sent,  \* packets handed to the channel so far
          got    \* numbers of the packets received, oldest first

LastGot == IF got = <<>> THEN 0 ELSE got[Len(got)]

Init == sent = 0 /\ got = <<>>

Send == sent < Packets /\ sent' = sent + 1 /\ UNCHANGED got

Receive == /\ \E k \in LastGot + 1 .. sent : got' = Append(got, k)
           /\ UNCHANGED sent

Next == Send \/ Receive

Spec == Init /\ [][Next]_<<sent, got>>
=============================================================================
