------------------------------- MODULE PushLog -------------------------------
(***************************************************************************)
(* What Pushable promises about the messages of one session, without the   *)
(* broadcaster: messages are pushed one after the other, and a browser tab *)
(* is sent a message only between the moment it is broadcast and the       *)
(* moment the push proceeds.  So every tab is sent an increasing           *)
(* subsequence of the messages, and none of them late.                     *)
(***************************************************************************)
EXTENDS Naturals

CONSTANT Tabs

VARIABLES
  begun,    \* number of messages broadcast
  done,     \* number of messages whose push has proceeded
  written   \* written[t]: the last message sent to tab t, 0 for none

vars == <<begun, done, written>>

Init == begun = 0 /\ done = 0 /\ written = [t \in Tabs |-> 0]

Begin ==
  /\ done = begun
  /\ begun' = begun + 1
  /\ UNCHANGED <<done, written>>

Write(t) ==
  /\ done < begun /\ written[t] < begun
  /\ written' = [written EXCEPT ![t] = begun]
  /\ UNCHANGED <<begun, done>>

Complete ==
  /\ done < begun
  /\ done' = begun
  /\ UNCHANGED <<begun, written>>

Next == Begin \/ Complete \/ \E t \in Tabs : Write(t)

Spec == Init /\ [][Next]_vars
=============================================================================
