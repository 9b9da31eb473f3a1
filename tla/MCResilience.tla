---------------------------- MODULE MCResilience ----------------------------
(***************************************************************************)
(* Resilience for TLC.  Peers are model values and interchangeable.        *)
(***************************************************************************)
EXTENDS Resilience, TLC

PeerSymmetry == Permutations(Peers)
=============================================================================
