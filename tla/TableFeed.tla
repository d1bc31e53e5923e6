------------------------------- MODULE TableFeed -------------------------------
(***************************************************************************)
(* The panel of fbw.Task2: a generator thread hands table models over in   *)
(* the field generatedTableModel; in push mode a TablePushable, run by the *)
(* push executor, puts them into the table, in pull mode the generator     *)
(* does so itself and a Puller lets the browser poll.  Radio buttons       *)
(* switch the mode.                                                        *)
(*                                                                         *)
(* None of the fields is synchronised.  A click is handled by a servlet    *)
(* thread, which needs the HTTP session's monitor only to begin; a push    *)
(* run holds that monitor, and fires the events of the buttons it finds    *)
(* dirty.  Both run the same listeners, step by step.  Of the models, only *)
(* whether the field holds one matters here.                               *)
(***************************************************************************)
EXTENDS Naturals

CONSTANTS
  Servlet,     \* the servlet thread
  Executors,   \* push executors, each with its thread
  MaxQueued,   \* bound: runs of the generator waiting for its one thread
  MaxRefires   \* bound: push runs that fire events of the radio buttons

VARIABLES
  selected,  \* radio button: "push" or "pull"
  on,        \* is the toggle button selected?
  mode,      \* the puller, the field pushExecutor, the executors not shut down,
             \* and those the push is scheduled on
  dirty,     \* buttons that are dirty in the reload manager
  refires,   \* history: push runs that have fired events of the radio buttons
  clicked,   \* history: has the user ever left push mode?
  at,        \* where each thread is
  fires,     \* buttons whose listeners each thread has yet to call
  lock,      \* is the HTTP session's monitor held by a push run?
  enabled,   \* the generator's flag
  queued,    \* runs of the generator submitted and not begun
  gpc,       \* the generator's thread
  slot       \* generatedTableModel: is there a model?

click == <<selected, on, clicked>>
threads == <<at, fires, lock>>
generator == <<enabled, queued, gpc>>
vars == <<click, mode, dirty, refires, threads, generator, slot>>

Threads == Executors \cup {Servlet}
Radios == {"push", "pull"}
PushMode == mode.executor \in mode.live

\* A change makes a button dirty, unless the reload manager refuses changes at
\* the time (PushCycle).
Records(cs) == dirty' \in {dirty, dirty \cup cs}

Goto(t, place) == at' = [at EXCEPT ![t] = place]
Fired(t, button) == fires' = [fires EXCEPT ![t] = @ \ {button}]
AllFired(t) == at[t] = "fire" /\ fires[t] = {}

-----------------------------------------------------------------------------
(* The listeners, in whichever thread.                                       *)

\* Faulty: the push executor goes on.
TestNoExecutor(t) ==
  /\ at[t] = "fire" /\ "pull" \in fires[t]
  /\ Fired(t, "pull")
  /\ Goto(t, "pollOn")
  /\ UNCHANGED <<click, mode, dirty, refires, lock, generator, slot>>

\* setPullEnabled(true): is there an executor to shut down?
TestExecutor(t) ==
  /\ at[t] = "fire" /\ "pull" \in fires[t]
  /\ Fired(t, "pull")
  /\ Goto(t, IF PushMode THEN "shutdown" ELSE "pollOn")
  /\ UNCHANGED <<click, mode, dirty, refires, lock, generator, slot>>

\* The field is read again.  An executor that is shut down cancels its tasks.
Shutdown(t) ==
  /\ at[t] = "shutdown"
  /\ mode' = [mode EXCEPT !.live = @ \ {mode.executor}, !.tasks = @ \ {mode.executor}]
  /\ Goto(t, "pollOn")
  /\ UNCHANGED <<click, dirty, refires, fires, lock, generator, slot>>

PollOn(t) ==
  /\ at[t] = "pollOn"
  /\ mode' = [mode EXCEPT !.puller = TRUE]
  /\ Goto(t, "fire")
  /\ UNCHANGED <<click, dirty, refires, fires, lock, generator, slot>>

\* setPullEnabled(false)
PollOff(t) ==
  /\ at[t] = "fire" /\ "push" \in fires[t]
  /\ Fired(t, "push")
  /\ mode' = [mode EXCEPT !.puller = FALSE]
  /\ Goto(t, "create")
  /\ UNCHANGED <<click, dirty, refires, lock, generator, slot>>

\* Bound: there is an executor that nobody uses.  They are all alike.
Spare == {e \in Executors \ mode.live : at[e] = "idle"}
Create(t) ==
  /\ at[t] = "create"
  /\ Spare # {}
  /\ LET e == CHOOSE s \in Spare : TRUE IN
     mode' = [mode EXCEPT !.executor = e, !.live = @ \cup {e}]
  /\ Goto(t, "schedule")
  /\ UNCHANGED <<click, dirty, refires, fires, lock, generator, slot>>

\* An executor that has been shut down meanwhile rejects the push.
Schedule(t) ==
  /\ at[t] = "schedule"
  /\ IF PushMode
       THEN mode' = [mode EXCEPT !.tasks = @ \cup {mode.executor}] /\ Goto(t, "fire")
       ELSE Goto(t, "failed") /\ UNCHANGED mode
  /\ UNCHANGED <<click, dirty, refires, fires, lock, generator, slot>>

\* The toggle button gets the text for its state.
SetText(t) ==
  /\ at[t] = "fire" /\ "toggle" \in fires[t]
  /\ Fired(t, "toggle")
  /\ Records({"toggle"})
  /\ Goto(t, "flag")
  /\ UNCHANGED <<click, mode, refires, lock, generator, slot>>

\* startThread() or stopThread()
SetFlag(t) ==
  /\ at[t] = "flag"
  /\ enabled' = on
  /\ Goto(t, IF on THEN "submit" ELSE "fire")
  /\ UNCHANGED <<click, mode, dirty, refires, fires, lock, queued, gpc, slot>>

Submit(t) ==
  /\ at[t] = "submit"
  /\ queued < MaxQueued
  /\ queued' = queued + 1
  /\ Goto(t, "fire")
  /\ UNCHANGED <<click, mode, dirty, refires, fires, lock, enabled, gpc, slot>>

Listeners(t) ==
  \/ TestExecutor(t) \/ Shutdown(t) \/ PollOn(t)
  \/ PollOff(t) \/ Create(t) \/ Schedule(t)
  \/ SetText(t) \/ SetFlag(t) \/ Submit(t)

-----------------------------------------------------------------------------
(* The requests of the user's clicks.                                        *)

Begin(buttons) ==
  /\ at[Servlet] = "idle" /\ ~lock
  /\ Goto(Servlet, "fire")
  /\ fires' = [fires EXCEPT ![Servlet] = buttons]
  /\ UNCHANGED <<mode, refires, lock, generator, slot>>

\* A click selects the other radio button, which changes both.
Click ==
  /\ selected' = IF selected = "push" THEN "pull" ELSE "push"
  /\ Begin({selected'})
  /\ Records(Radios)
  /\ clicked' = TRUE
  /\ UNCHANGED on

Toggle ==
  /\ Begin({"toggle"})
  /\ on' = ~on
  /\ Records({"toggle"})
  /\ UNCHANGED <<selected, clicked>>

\* Whether or not a listener has thrown.
EndRequest ==
  /\ AllFired(Servlet) \/ at[Servlet] = "failed"
  /\ dirty' = {}
  /\ fires' = [fires EXCEPT ![Servlet] = {}]
  /\ Goto(Servlet, "idle")
  /\ UNCHANGED <<click, mode, refires, lock, generator, slot>>

-----------------------------------------------------------------------------
(* A run of the TablePushable in the thread of executor e.                   *)

Run(e) ==
  /\ e \in mode.tasks
  /\ at[e] = "idle" /\ ~lock
  /\ lock' = TRUE
  /\ Goto(e, "test")
  /\ UNCHANGED <<click, mode, dirty, refires, fires, generator, slot>>

\* push()
TestSlot(e) ==
  /\ at[e] = "test"
  /\ Goto(e, IF slot THEN "show" ELSE "form")
  /\ UNCHANGED <<click, mode, dirty, refires, fires, lock, generator, slot>>

\* The field is read again; setModel() refuses null.
ShowSlot(e) ==
  /\ at[e] = "show"
  /\ Goto(e, IF slot THEN "empty" ELSE "failed")
  /\ UNCHANGED <<click, mode, dirty, refires, fires, lock, generator, slot>>

EmptySlot(e) ==
  /\ at[e] = "empty"
  /\ slot' = FALSE
  /\ Goto(e, "form")
  /\ UNCHANGED <<click, mode, dirty, refires, fires, lock, generator>>

\* The events of the buttons that are dirty now, in any order.  Whether the
\* listener of the toggle button, which has not changed, is called again is the
\* library's affair.
FormEvents(e) ==
  /\ at[e] = "form"
  /\ dirty \cap Radios # {} => refires < MaxRefires
  /\ \E toggled \in SUBSET {"toggle"} :
       fires' = [fires EXCEPT ![e] = (dirty \cap Radios) \cup (dirty \cap toggled)]
  /\ refires' = IF dirty \cap Radios = {} THEN refires ELSE refires + 1
  /\ Goto(e, "fire")
  /\ UNCHANGED <<click, mode, dirty, lock, generator, slot>>

EndRun(e) ==
  /\ fires' = [fires EXCEPT ![e] = {}]
  /\ lock' = FALSE
  /\ Goto(e, "idle")
  /\ UNCHANGED <<click, mode, refires, generator, slot>>

Finish(e) == AllFired(e) /\ dirty' = {} /\ EndRun(e)

\* A run that throws, or finds no broadcaster, does not clear the manager.
Fail(e) == (AllFired(e) \/ at[e] = "failed") /\ EndRun(e) /\ UNCHANGED dirty

Pusher(e) ==
  \/ Run(e) \/ TestSlot(e) \/ ShowSlot(e) \/ EmptySlot(e) \/ FormEvents(e)
  \/ Finish(e) \/ Fail(e)

-----------------------------------------------------------------------------
(* The generator: one thread, which takes the submitted runs in turn.        *)

BeginRun ==
  /\ gpc = "idle" /\ queued > 0
  /\ queued' = queued - 1
  /\ gpc' = "loop"
  /\ UNCHANGED <<click, mode, dirty, refires, threads, enabled, slot>>

\* Faulty: the flag is not looked at again.
LoopForever ==
  /\ gpc = "loop"
  /\ gpc' = "sleep"
  /\ UNCHANGED <<click, mode, dirty, refires, threads, enabled, queued, slot>>

\* while (enabled)
Loop ==
  /\ gpc = "loop"
  /\ gpc' = IF enabled THEN "sleep" ELSE "idle"
  /\ UNCHANGED <<click, mode, dirty, refires, threads, enabled, queued, slot>>

Generate ==
  /\ gpc = "sleep"
  /\ slot' = TRUE
  /\ gpc' = "test"
  /\ UNCHANGED <<click, mode, dirty, refires, threads, enabled, queued>>

\* Faulty: the generator sets the model in push mode too.
TestNothing ==
  /\ gpc = "test"
  /\ gpc' = "show"
  /\ UNCHANGED <<click, mode, dirty, refires, threads, enabled, queued, slot>>

TestMode ==
  /\ gpc = "test"
  /\ gpc' = IF PushMode THEN "loop" ELSE "show"
  /\ UNCHANGED <<click, mode, dirty, refires, threads, enabled, queued, slot>>

\* setModel() refuses null: the exception ends the run, and nobody is told.
ShowModel ==
  /\ gpc = "show"
  /\ gpc' = IF slot THEN "empty" ELSE "idle"
  /\ UNCHANGED <<click, mode, dirty, refires, threads, enabled, queued, slot>>

ForgetModel ==
  /\ gpc = "empty"
  /\ slot' = FALSE
  /\ gpc' = "loop"
  /\ UNCHANGED <<click, mode, dirty, refires, threads, enabled, queued>>

Generator ==
  \/ BeginRun \/ Loop \/ Generate \/ TestMode \/ ShowModel \/ ForgetModel

-----------------------------------------------------------------------------
\* The constructor starts in push mode.
Init ==
  /\ selected = "push"
  /\ on = FALSE
  /\ mode \in {[puller |-> FALSE, executor |-> e, live |-> {e}, tasks |-> {e}] : e \in Executors}
  /\ dirty = {}
  /\ refires = 0
  /\ clicked = FALSE
  /\ at = [t \in Threads |-> "idle"]
  /\ fires = [t \in Threads |-> {}]
  /\ lock = FALSE
  /\ enabled = FALSE
  /\ queued = 0
  /\ gpc = "idle"
  /\ slot = FALSE

Next ==
  \/ Click \/ Toggle \/ EndRequest
  \/ \E t \in Threads : Listeners(t)
  \/ \E e \in Executors : Pusher(e)
  \/ Generator

Spec == Init /\ [][Next]_vars

\* The generator's thread keeps running; nothing is asked of the others.
FairSpec == Spec /\ WF_vars(Generator)

-----------------------------------------------------------------------------
(* The generator stops some time after it has been stopped, whatever runs   *)
(* have been queued by clicking quickly (Task2.startThread, stopThread).    *)
GeneratorStops ==
  <>[]~enabled => <>[](gpc = "idle" /\ queued = 0)

(* In push mode the generator runs as long as its flag says so, also when   *)
(* push runs call the listener of its button again: a run of it is at work  *)
(* or about to begin.  After a switch to pull mode a push run still at work *)
(* can end it (Task2.TableModelGenerator.run).                              *)
GeneratorAlive ==
  enabled /\ ~clicked => \/ gpc # "idle" \/ queued > 0
                         \/ \E t \in Threads : at[t] = "submit"

(* However clicks and push runs race in setPullEnabled(): when nobody is in *)
(* it, the browser polls or a push is scheduled; and unless push runs have  *)
(* fired the radio buttons again, the mode is the selected one between two  *)
(* requests, with no executor left of an earlier selection                  *)
(* (Task2.setPullEnabled).                                                  *)
Settled == \A t \in Threads : at[t] \notin {"shutdown", "pollOn", "create", "schedule"}
TableFed == mode.puller \/ mode.tasks # {}
ModeIsSelected ==
  IF selected = "pull" THEN mode.puller /\ mode.live = {}
                       ELSE ~mode.puller /\ mode.live = {mode.executor}
ModeFollowsSelection ==
  /\ Settled => TableFed
  /\ at[Servlet] = "idle" /\ refires = 0 => ModeIsSelected
=============================================================================
