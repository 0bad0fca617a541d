-------------------------- MODULE MCSlidingWindow --------------------------
(* Instance of SlidingWindow for TLC in which the tracks are alike: no     *)
(* choice depends on which of them it is.                                  *)
EXTENDS SlidingWindow, TLC

TrackSymmetry == Permutations(Tracks)
=============================================================================
