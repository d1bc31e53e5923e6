------------------------------ MODULE PushToggle ------------------------------
(***************************************************************************)
(* The panel of fbw.Task3: a button starts and stops the scheduler that    *)
(* runs the panel's Pushable.                                              *)
(*                                                                         *)
(* OnPushButtonClicked() is the action listener of the button.  A servlet  *)
(* thread calls it for a click.  The Pushable does not prevent form events *)
(* (only epoch updates), so the push thread calls it too whenever it finds *)
(* the button among the dirty components, and the listener itself makes    *)
(* the button dirty.  The two threads hold different monitors; only the    *)
(* start of a request needs the one of the push thread.                    *)
(***************************************************************************)
EXTENDS Naturals

CONSTANTS
  Servlet,     \* the servlet thread
  Schedulers,  \* scheduler instances, each with its thread
  None         \* the field scheduler is null; the monitor is free

VARIABLES
  scheduler,  \* field of the panel
  live,       \* schedulers that are not shut down
  text,       \* what the button offers: "start" or "stop"
  spinner,    \* is the spinner enabled?
  dirty,      \* is the button among the reload manager's dirty components?
  lock,       \* owner of the HTTP session's monitor
  pc,         \* where each thread is
  pushing,    \* history: what the user has asked for
  refired     \* history: has a push run fired the listener?

panel == <<scheduler, live, text, spinner>>
history == <<pushing, refired>>
vars == <<panel, dirty, lock, pc, history>>

Threads == Schedulers \cup {Servlet}

Goto(t, at) == pc' = [pc EXCEPT ![t] = at]

-----------------------------------------------------------------------------
(* OnPushButtonClicked(), in whichever thread.                               *)

Decide(t) ==
  /\ pc[t] = "clicked"
  /\ Goto(t, IF scheduler = None THEN "startLabels" ELSE "stopLabels")
  /\ UNCHANGED <<panel, dirty, lock, history>>

\* The button is dirty when its text really changes.
Labels(t) ==
  \E kind \in {"start", "stop"} :
    /\ pc[t] = IF kind = "start" THEN "startLabels" ELSE "stopLabels"
    /\ spinner' = (kind = "stop")
    /\ text' = IF kind = "start" THEN "stop" ELSE "start"
    /\ dirty' = (dirty \/ text' # text)
    /\ Goto(t, IF kind = "start" THEN "start" ELSE "shutdown")
    /\ UNCHANGED <<scheduler, live, lock, history>>

Start(t) ==
  /\ pc[t] = "start"
  /\ \E s \in Schedulers \ live :
       /\ pc[s] = "idle"
       /\ scheduler' = s
       /\ live' = live \cup {s}
  /\ Goto(t, "done")
  /\ UNCHANGED <<text, spinner, dirty, lock, history>>

\* Faulty: the scheduler goes on.
ShutdownNothing(t) ==
  /\ pc[t] = "shutdown"
  /\ Goto(t, IF scheduler = None THEN "failed" ELSE "forget")
  /\ UNCHANGED <<panel, dirty, lock, history>>

\* The field is read again, and may be null by now.
Shutdown(t) ==
  /\ pc[t] = "shutdown"
  /\ live' = live \ {scheduler}
  /\ Goto(t, IF scheduler = None THEN "failed" ELSE "forget")
  /\ UNCHANGED <<scheduler, text, spinner, dirty, lock, history>>

\* Faulty: the scheduler is not forgotten.
ForgetNothing(t) ==
  /\ pc[t] = "forget"
  /\ Goto(t, "done")
  /\ UNCHANGED <<panel, dirty, lock, history>>

Forget(t) ==
  /\ pc[t] = "forget"
  /\ scheduler' = None
  /\ Goto(t, "done")
  /\ UNCHANGED <<live, text, spinner, dirty, lock, history>>

OnPushButtonClicked(t) == Decide(t) \/ Labels(t) \/ Start(t) \/ Shutdown(t) \/ Forget(t)

-----------------------------------------------------------------------------
(* A click and its request.                                                  *)

Click ==
  /\ pc[Servlet] = "idle"
  /\ lock = None
  /\ pushing' = ~pushing
  /\ Goto(Servlet, "clicked")
  /\ UNCHANGED <<panel, dirty, lock, refired>>

\* However the listener ends, the request clears the reload manager.
EndRequest ==
  /\ pc[Servlet] \in {"done", "failed"}
  /\ dirty' = FALSE
  /\ Goto(Servlet, "idle")
  /\ UNCHANGED <<panel, lock, history>>

-----------------------------------------------------------------------------
(* A run of the Pushable in the thread of a scheduler.                       *)

Run(s) ==
  /\ s \in live
  /\ pc[s] = "idle"
  /\ lock = None
  /\ lock' = s
  /\ Goto(s, "form")
  /\ UNCHANGED <<panel, dirty, history>>

\* Form events for the dirty components, the button among them.
FormEvents(s) ==
  /\ pc[s] = "form"
  /\ Goto(s, IF dirty THEN "clicked" ELSE "done")
  /\ refired' = (refired \/ dirty)
  /\ UNCHANGED <<panel, dirty, lock, pushing>>

Finish(s) ==
  /\ pc[s] = "done"
  /\ dirty' = FALSE
  /\ lock' = None
  /\ Goto(s, "idle")
  /\ UNCHANGED <<panel, history>>

\* An exception of the listener, or no broadcaster for the message: the run
\* ends and leaves the reload manager as it is.
Fail(s) ==
  /\ pc[s] \in {"failed", "done"}
  /\ lock' = None
  /\ Goto(s, "idle")
  /\ UNCHANGED <<panel, dirty, history>>

-----------------------------------------------------------------------------
Init ==
  /\ scheduler = None
  /\ live = {}
  /\ text = "start"
  /\ spinner = TRUE
  /\ dirty = FALSE
  /\ lock = None
  /\ pc = [t \in Threads |-> "idle"]
  /\ pushing = FALSE
  /\ refired = FALSE

Next ==
  \/ \E t \in Threads : OnPushButtonClicked(t)
  \/ Click \/ EndRequest
  \/ \E s \in Schedulers : Run(s) \/ FormEvents(s) \/ Finish(s) \/ Fail(s)

Spec == Init /\ [][Next]_vars

-----------------------------------------------------------------------------
Quiet == \A t \in Threads : pc[t] = "idle"

(* A scheduler that runs can be stopped: no scheduler is left running that  *)
(* the panel does not know (Task3.OnPushButtonClicked).                     *)
NoLeak == Quiet => live \subseteq {scheduler}

(* When nobody works on the panel, button and spinner show whether the      *)
(* panel pushes, whatever clicks and re-fired events have raced             *)
(* (Task3.OnPushButtonClicked).                                             *)
PanelShowsState ==
  Quiet => /\ (text = "stop") = (scheduler # None)
           /\ spinner = (scheduler = None)

(* The panel pushes when the user has asked for it, and only then, unless a *)
(* push run has fired the listener of the button again (Task3: "In case the *)
(* user clicks the pushButton, a separate thread is started (or stopped) on *)
(* the server side").                                                       *)
UserDecides == Quiet /\ ~refired => (scheduler # None) = pushing

(* Every click counts: between requests and runs the panel pushes if the    *)
(* user's last click was one to start it (Task3: "In case the user clicks   *)
(* the "pushButton", a separate thread is started (or stopped) on the       *)
(* server side").                                                           *)
ClickCounts == Quiet => (scheduler # None) = pushing

(* The panel shows what it does, however clicks, runs of the Pushable and   *)
(* runs that fail interleave; and it does what the user has asked for, as   *)
(* long as no push run has fired the listener of the button again           *)
(* (Task3.OnPushButtonClicked).                                             *)
PanelFollowsUser == PanelShowsState /\ UserDecides
=============================================================================
