---------------------------- MODULE DocumentReady -----------------------------
(***************************************************************************)
(* jQuery.ready: when the functions given to $(document).ready run.  Both  *)
(* scripts of fbw start from there.  The document is being parsed, parsed  *)
(* ("interactive") or loaded ("complete"); a browser tells of it with      *)
(* DOMContentLoaded and load, or is an old Internet Explorer, in which the *)
(* script tries to scroll until that works.  Scripts may hold the event    *)
(* back.                                                                   *)
(***************************************************************************)
EXTENDS Naturals, Integers

CONSTANTS
  Browsers,     \* among "standard", "ie", "frame" (an old one, not the top window)
  MaxHolds      \* bound: calls of holdReady(true)

VARIABLE s

\* The document is 1 (loading), 2 (interactive) or 3 (complete); told: the state
\* of which the browser has told.
\* bodies: document.body exists; timers: calls of jQuery.ready put off.
Starts ==
  {[browser |-> browser, document |-> 1, body |-> FALSE, told |-> 1,
    asked |-> FALSE, listening |-> FALSE, scrolling |-> FALSE, timers |-> 0,
    isReady |-> FALSE, readyWait |-> 1, resolved |-> FALSE,
    held |-> 0, holds |-> 0, early |-> FALSE] : browser \in Browsers}
Init == s \in Starts

Parsed(x) == x.document > 1
Complete(x) == x.document = 3

-----------------------------------------------------------------------------
(* jQuery.ready(wait)                                                        *)

Resolve(x) ==
  [x EXCEPT !.resolved = TRUE, !.early = @ \/ (~x.resolved /\ (~Parsed(x) \/ x.held > 0))]

\* Faulty: what holds the event back is not asked.
ReadyUnheld(x, wait) ==
  LET y == IF wait THEN [x EXCEPT !.readyWait = @ - 1] ELSE x
  IN  IF x.isReady /\ ~wait THEN y
      ELSE IF ~y.body THEN [y EXCEPT !.timers = @ + 1] ELSE Resolve([y EXCEPT !.isReady = TRUE])

Ready(x, wait) ==
  LET y == IF wait THEN [x EXCEPT !.readyWait = @ - 1] ELSE x
      z == [y EXCEPT !.isReady = TRUE, !.readyWait = IF wait THEN @ ELSE @ - 1]
  IN  IF (IF wait THEN y.readyWait # 0 ELSE x.isReady) THEN y
      ELSE IF ~y.body THEN [y EXCEPT !.timers = @ + 1]
      ELSE IF ~wait /\ z.readyWait > 0 THEN z
      ELSE Resolve(z)

Detach(x) == [x EXCEPT !.listening = FALSE]

\* completed(): the handler of the browser's events.
Completed(x, isLoad) ==
  IF x.listening /\ (x.browser = "standard" \/ isLoad \/ Complete(x))
  THEN Ready(Detach(x), FALSE) ELSE x

\* Faulty: the page waits for events that are over.
AskTooLate ==
  /\ ~s.asked
  /\ s' = [s EXCEPT !.asked = TRUE, !.listening = TRUE, !.scrolling = (s.browser = "ie")]

\* jQuery.ready.promise(), for the first function of the page.
Ask ==
  /\ ~s.asked
  /\ LET x == [s EXCEPT !.asked = TRUE]
     IN  s' = IF Complete(s) THEN [x EXCEPT !.timers = @ + 1]
              ELSE [x EXCEPT !.listening = TRUE, !.scrolling = (s.browser = "ie")]

\* jQuery.holdReady().
Hold ==
  /\ s.holds < MaxHolds
  /\ s' = [s EXCEPT !.readyWait = @ + 1, !.holds = @ + 1, !.held = @ + 1]

Release ==
  /\ s.held > 0
  /\ s' = Ready([s EXCEPT !.held = @ - 1], TRUE)

-----------------------------------------------------------------------------
(* The browser.                                                              *)

\* document.body exists at the latest when the document is parsed.
Parse ==
  \/ ~s.body /\ s' = [s EXCEPT !.body = TRUE]
  \/ s.document < 3 /\ s.body /\ s.told = s.document /\ s' = [s EXCEPT !.document = @ + 1]

\* DOMContentLoaded or onreadystatechange; then load.
Tell ==
  /\ s.told < s.document
  /\ s' = Completed([s EXCEPT !.told = s.document], s.told = 2)

Timeout ==
  /\ s.timers > 0
  /\ s' = Ready([s EXCEPT !.timers = @ - 1], FALSE)

\* Scrolling works once the document is parsed.
DoScrollCheck ==
  /\ s.scrolling
  /\ s' = IF s.isReady THEN [s EXCEPT !.scrolling = FALSE]
          ELSE IF Parsed(s) THEN Ready(Detach([s EXCEPT !.scrolling = FALSE]), FALSE)
          ELSE s

Browser == Parse \/ Tell \/ Timeout \/ DoScrollCheck
Next == Ask \/ Hold \/ Release \/ Browser

Spec == Init /\ [][Next]_s
\* Events and timers of the browser occur; a script releases what it holds.
FairSpec ==
  Spec /\ WF_s(Parse) /\ WF_s(Tell) /\ WF_s(Timeout) /\ WF_s(DoScrollCheck) /\ WF_s(Release)

-----------------------------------------------------------------------------
(* Properties.                                                               *)

\* The functions of the page run neither before the document is parsed nor
\* while a script holds the event back, in whichever order the scripts release
\* it, the browser tells of the document and timers fire.
NotTooEarly == ~s.early

\* They do run in the end: no order of events leaves the page waiting.
EventuallyReady == s.asked ~> s.resolved
=============================================================================
