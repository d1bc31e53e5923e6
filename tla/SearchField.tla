------------------------------ MODULE SearchField ------------------------------
(***************************************************************************)
(* Search as you type: fbw.search.js starts a timer at each key-up, which  *)
(* sends the text of the field if it was not sent before; the field of     *)
(* fbw.Task1 puts it into a label in upper case.                           *)
(*                                                                         *)
(* followLink() bypasses wingS' queue, so that several requests are on     *)
(* their way at once, each on a connection of its own.  The field is never *)
(* updated on the server, and its events are accepted in any epoch.        *)
(***************************************************************************)
EXTENDS Naturals, Sequences, SequencesExt

CONSTANTS
  Overtaking, \* may requests and answers overtake each other?
  MaxKeys,    \* bound: keystrokes
  MaxLoads    \* bound: how often the page is loaded anew

VARIABLES
  field,        \* text of the field in the page
  down,         \* has a key gone down and not up again?
  current,      \* search.currentValue
  submitted,    \* search.submittedValue
  timers,       \* timers that have not fired
  way,          \* texts on their way to the server, oldest first
  label,        \* text of contentLabel on the server
  answers,      \* texts of the label on their way to the page
  shown,        \* text of the label in the page
  keys, loads   \* counted for the bounds

page == <<field, down, current, submitted, timers>>
vars == <<page, way, label, answers, shown, keys, loads>>

\* Two texts with the same upper case; the label's first text is a prompt.
Texts == {"", "a", "A", "b"}
Upper(x) == CASE x = "a" -> "A" [] x = "b" -> "B" [] OTHER -> x
Prompt == "You've searched for: "

Deliverable(q) == IF Overtaking THEN DOMAIN q ELSE DOMAIN q \cap {1}

-----------------------------------------------------------------------------
\* A key changes the field when it goes down.
KeyDown(x) ==
  /\ keys < MaxKeys /\ keys' = keys + 1
  /\ ~down /\ down' = TRUE
  /\ field' = x
  /\ UNCHANGED <<current, submitted, timers, way, label, answers, shown, loads>>

KeyUp ==
  /\ down /\ down' = FALSE
  /\ current' = field
  /\ timers' = timers + 1
  /\ UNCHANGED <<field, submitted, way, label, answers, shown, keys, loads>>

\* Faulty: the text is submitted only while no request is on its way.
HandleWhenIdle ==
  /\ timers > 0 /\ timers' = timers - 1
  /\ IF current # submitted /\ way = <<>>
       THEN submitted' = current /\ way' = Append(way, current)
       ELSE UNCHANGED <<submitted, way>>
  /\ UNCHANGED <<field, down, current, label, answers, shown, keys, loads>>

\* A timer fires.  Its argument is read now, and equals the current value.
MaybeHandleSearchEvent ==
  /\ timers > 0 /\ timers' = timers - 1
  /\ IF current # submitted
       THEN submitted' = current /\ way' = Append(way, current)
       ELSE UNCHANGED <<submitted, way>>
  /\ UNCHANGED <<field, down, current, label, answers, shown, keys, loads>>

\* The answer holds an update of the label if its text has changed.
ProcessLowLevelEvent ==
  \E i \in Deliverable(way) :
    /\ label' = Upper(way[i])
    /\ way' = RemoveAt(way, i)
    /\ answers' = IF label' = label THEN answers ELSE Append(answers, label')
    /\ UNCHANGED <<page, shown, keys, loads>>

ApplyAnswer ==
  \E i \in Deliverable(answers) :
    /\ shown' = answers[i]
    /\ answers' = RemoveAt(answers, i)
    /\ UNCHANGED <<page, way, label, keys, loads>>

\* The user loads the page anew when no text waits to be processed:
\* initSearchField() sets the field to the initial search.currentValue.
InitSearchField ==
  /\ loads < MaxLoads /\ loads' = loads + 1
  /\ way = <<>>
  /\ field' = "" /\ current' = "" /\ submitted' = ""
  /\ down' = FALSE /\ timers' = 0
  /\ answers' = <<>> /\ shown' = label
  /\ UNCHANGED <<way, label, keys>>

-----------------------------------------------------------------------------
Init ==
  /\ field = "" /\ current = "" /\ submitted = ""
  /\ down = FALSE /\ timers = 0
  /\ way = <<>> /\ answers = <<>>
  /\ label = Prompt /\ shown = Prompt
  /\ keys = 0 /\ loads = 0

Next ==
  \/ \E x \in Texts : KeyDown(x)
  \/ KeyUp \/ MaybeHandleSearchEvent \/ ProcessLowLevelEvent \/ ApplyAnswer
  \/ InitSearchField

Spec == Init /\ [][Next]_vars

\* Keys come up again, timers fire, requests are processed and answered.
FairSpec ==
  /\ Spec
  /\ WF_vars(KeyUp) /\ WF_vars(MaybeHandleSearchEvent)
  /\ WF_vars(ProcessLowLevelEvent) /\ WF_vars(ApplyAnswer)

-----------------------------------------------------------------------------
(* The text the user ends with is the last one submitted, whatever she      *)
(* typed while timers were running, and though the page was loaded anew     *)
(* (fbw.search.js, maybeHandleSearchEvent).                                 *)
SubmitsLast ==
  \A x \in Texts : <>[](field = x) => <>[](submitted = x)

(* The label ends with the upper case of the text the user ends with        *)
(* (Task1: "This label updates with the search field").  A page loaded anew *)
(* shows an empty field and the label as it was.                            *)
LabelFollowsField ==
  \A x \in Texts :
    [](loads = 0) /\ <>[](field = x) => <>[](shown \in IF x = "" THEN {"", Prompt} ELSE {Upper(x)})

(* The search is for what the field ends with, and the label shows it       *)
(* (fbw.search.js, Task1).                                                  *)
SearchFollowsField == SubmitsLast /\ LabelFollowsField
=============================================================================
