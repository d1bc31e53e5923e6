---------------------------- MODULE MCPushChannel ----------------------------
(***************************************************************************)
(* Instances of PushChannel for TLC.                                       *)
(***************************************************************************)
EXTENDS PushChannel

CONSTANTS p1, p2, t1, t2
=============================================================================
