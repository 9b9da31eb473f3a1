---------------------------- MODULE MCFlowControl ----------------------------
(***************************************************************************)
(* FlowControl with a small window: initial 2, minimum 1, maximum 4, the   *)
(* congestion window in quarters, and a stream of 7 chunks, so slow start, *)
(* congestion avoidance and the cap at the maximum are all reached.        *)
(***************************************************************************)
EXTENDS FlowControl
=============================================================================
