----------------------------- MODULE MCPushCycle -----------------------------
(***************************************************************************)
(* Instances of PushCycle for TLC: a label and a button whose action       *)
(* changes its own text and the label, as on the panel of fbw.Task3.       *)
(***************************************************************************)
EXTENDS PushCycle

CONSTANTS label, button, p1, p2, r1

MCEffects == [c \in {button} |-> {button, label}]
TwoEffects == [c \in {label, button} |-> {button, label}]
PushesBoth == [p \in Pushers |-> IF p = p1 THEN {label} ELSE {label, button}]
PushesLabel == [p \in Pushers |-> {label}]
LabelEffects == [c \in {button} |-> {label}]
=============================================================================
