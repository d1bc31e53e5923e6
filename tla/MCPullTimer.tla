----------------------------- MODULE MCPullTimer ------------------------------
(***************************************************************************)
(* Instances of PullTimer for TLC.                                         *)
(***************************************************************************)
EXTENDS PullTimer
CONSTANTS q1, q2, q3, t1, t2, t3, t4
=============================================================================
