---------------------------- MODULE MCPushScenes -----------------------------
(***************************************************************************)
(* Two scenes of PushChannel for TLC: only the tab t1, whose connection    *)
(* and session may end; and two tabs that connect at any time and stay.    *)
(***************************************************************************)
EXTENDS MCPushChannel

VARIABLE oneTab

SceneInit == Init /\ oneTab \in BOOLEAN

SceneNext ==
  /\ Next
  /\ IF oneTab THEN conn'[t2] = "closed"
               ELSE session' = session /\ \A t \in Tabs : conn'[t] # "cancelled"
  /\ UNCHANGED oneTab

SceneSpec == SceneInit /\ [][SceneNext]_<<vars, oneTab>> /\ (oneTab \/ Fairness)

(* What the tab was connected for at the broadcast has been written when     *)
(* get() returns (UpdatedBeforeUnlock); with a tab that connects later the   *)
(* future may be done without the other.                                     *)
OneTabUpdated == oneTab => UpdatedBeforeUnlock

(* To its only tab the session is the log PushLog (Pushable).                *)
Log == INSTANCE PushLog WITH
  begun <- IF oneTab THEN sent ELSE 0,
  done <- IF ~oneTab THEN 0 ELSE IF \E p \in Pushers : pc[p] = "wait" THEN sent - 1 ELSE sent,
  written <- IF oneTab THEN written ELSE [t \in Tabs |-> 0]
OneTabOneByOne == Log!Spec

(* A push ends, if the tabs stay (Pushable, "wait for the broadcast          *)
(* operation to complete before we proceed any further").                    *)
StayersReturn == oneTab \/ PushesReturn
=============================================================================
