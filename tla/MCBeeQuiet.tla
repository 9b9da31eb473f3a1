---------------------------- MODULE MCBeeQuiet ----------------------------
(***************************************************************************)
(* BeeQuiet for TLC: two addresses a and b; a is started twice (a stop and *)
(* a restart of the same or a new object), b once; in MCBeeQuietRestart   *)
(* it is b that restarts.  Each node generates at most MaxResponses      *)
(* fresh responses, and the code's PEER_TIMEOUT of 90 s is three ticks of *)
(* 30 s.                                                                   *)
(***************************************************************************)
EXTENDS BeeQuiet

CONSTANTS a, b

MCNodes == {a, b}
MCMaxStarts == (a :> 2 @@ b :> 1)
MCMaxStartsRestart == (a :> 1 @@ b :> 2)
=============================================================================
