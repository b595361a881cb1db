---------------------------- MODULE MCTrackDevice ----------------------------
(***************************************************************************)
(* TrackDevice with the symmetry of the queue's addresses.                 *)
(***************************************************************************)
EXTENDS TrackDevice, TLC

Symmetry == Permutations(Nodes)

=============================================================================
