------------------------------- MODULE Effects --------------------------------
(***************************************************************************)
(* Effects of jQuery on one element: its queue "fx", animations and their  *)
(* timers, delays, stop(), finish(), and the promise for the end.          *)
(*                                                                         *)
(* A call runs to its end, with all it calls: the end of an animation      *)
(* dequeues the next one, which may be over at once.  Functions of jQuery  *)
(* are operators from one state to the next; an action is a call of the    *)
(* page, a tick of the interval timer or the end of a delay.               *)
(*                                                                         *)
(* Time and values of styles are left out: an animation may be over at any *)
(* tick, a height is "full" or "part".                                     *)
(***************************************************************************)
EXTENDS Naturals, Sequences, FiniteSets

CONSTANTS
  MaxItems,     \* bound: animations and delays the page starts
  MaxStops,     \* bound: calls of stop(), finish(), clearQueue()
  Pages         \* what a page does: what it starts (kinds: records of kind, effect,
                \* queued, then) and how it ends it (stops); one whose animations
                \* call stop() when they are complete does not go to the end of
                \* others (gotoEnd, finishes): the loops over the timers would nest

VARIABLE s

None == 0
Sentinel == None    \* "inprogress"

\* The data of the element: hooks of the queue, of which stop names the delay it
\* ends; fxshow, what show and hide keep.
NoHooks == [is |-> FALSE, stop |-> None, unqueued |-> 0, waiting |-> FALSE]
NoShow == [is |-> FALSE, toggled |-> FALSE, hidden |-> FALSE, height |-> "full"]

\* elem: animations whose tick has its element; orig, hides: what an animation
\* that shows or hides does in the end.  Ghosts: early, torn.
Start(page) ==
  [page |-> page, items |-> <<>>, queue |-> <<>>, hooks |-> NoHooks, delays |-> {},
   timers |-> <<>>, interval |-> FALSE, finishing |-> FALSE,
   hidden |-> FALSE, height |-> "full", fxshow |-> NoShow,
   elem |-> {}, stopped |-> {}, done |-> {}, failed |-> {},
   stops |-> 0, promise |-> "none", early |-> FALSE, torn |-> FALSE]

Without(q, n) == IF n > Len(q) THEN q ELSE SubSeq(q, 1, n - 1) \o SubSeq(q, n + 1, Len(q))
Over(x, i) == i \in x.done \cup x.failed
UnderWay(x) == {i \in x.elem : ~Over(x, i)} \cup x.delays

-----------------------------------------------------------------------------
(* Queues.                                                                   *)

QueueHooks(x) == [x EXCEPT !.hooks.is = TRUE]

\* hooks.empty.fire(): the data of the queue goes, then the promise is resolved.
EmptyFire(x) ==
  IF x.hooks.unqueued > 0 THEN x
  ELSE [x EXCEPT !.queue = <<>>, !.hooks = NoHooks,
                 !.promise = IF x.hooks.waiting THEN "resolved" ELSE @,
                 !.early = @ \/ (x.hooks.waiting /\ UnderWay(x) # {})]

RECURSIVE Dequeue(_)

\* Faulty: the end of an animation outside the queue is not told.
UnqueuedSilently(x, i) == IF x.items[i].queued THEN x ELSE [x EXCEPT !.hooks.unqueued = @ - 1]

\* What always() does after that for an animation outside the queue.
Unqueued(x, i) ==
  LET y == [x EXCEPT !.hooks.unqueued = @ - 1]
  IN  IF x.items[i].queued THEN x ELSE IF y.queue = <<>> THEN EmptyFire(y) ELSE y

Shows(x, i) == x.items[i].orig # "none"

Restore(x, i) ==
  IF ~Shows(x, i) THEN x
  ELSE [x EXCEPT !.hidden = @ \/ x.items[i].hides, !.fxshow = NoShow,
                 !.height = x.items[i].orig, !.torn = FALSE]

Reject(x, i) ==
  IF Over(x, i) THEN x
  ELSE Unqueued([x EXCEPT !.failed = @ \cup {i}, !.elem = @ \ {i},
                          !.torn = @ \/ Shows(x, i)], i)

\* animation.stop(false) for the timers of the element, from the last to the first.
RECURSIVE RejectTimers(_, _)
RejectTimers(x, n) ==
  IF n = 0 THEN x
  ELSE LET i == x.timers[n]
           y == IF i \in x.stopped THEN x ELSE Reject([x EXCEPT !.stopped = @ \cup {i}], i)
       IN  RejectTimers(IF i \in x.elem THEN [y EXCEPT !.timers = Without(@, n)] ELSE x, n - 1)

StopDelay(x) == [x EXCEPT !.delays = @ \ {x.hooks.stop}]
NoDelay(x) == [StopDelay(x) EXCEPT !.hooks.stop = None]

\* stop(clear, false)
StopHere(x) == Dequeue(RejectTimers(NoDelay(x), Len(x.timers)))

\* opt.complete: the function of the page, which may call stop(), then the queue.
Complete(x, i) ==
  LET y == IF x.items[i].then = "stop" THEN StopHere(x) ELSE x
  IN  IF x.items[i].queued THEN Dequeue(y) ELSE y

Resolve(x, i) ==
  IF Over(x, i) THEN x
  ELSE LET y == [x EXCEPT !.done = @ \cup {i}, !.elem = @ \ {i}]
       IN  Unqueued(Complete(Restore(y, i), i), i)

\* An animation that is over in its first tick is resolved before opt.complete is
\* attached: what always() does comes first.
ResolveAtOnce(x, i) ==
  LET y == [x EXCEPT !.done = @ \cup {i}, !.elem = @ \ {i}]
  IN  Complete(Unqueued(Restore(y, i), i), i)

\* animation.stop(true)
GoToEnd(x, i) == IF i \in x.stopped THEN x ELSE Resolve([x EXCEPT !.stopped = @ \cup {i}], i)

-----------------------------------------------------------------------------
(* Animations.                                                               *)

\* defaultPrefilter(): show, hide or toggle the height.  What is restored in the
\* end is the height before the first of the animations that follow each other.
Skipped(x, effect) == effect = IF x.hidden THEN "hide" ELSE "show"

ShowHide(x, i) ==
  LET effect == x.items[i].effect
      known == x.fxshow.is
      hidden == IF known /\ x.fxshow.toggled THEN x.fxshow.hidden ELSE x.hidden
      height == IF known THEN x.fxshow.height ELSE x.height
  IN  IF effect = "none" \/ Skipped(x, effect) THEN x
      ELSE [x EXCEPT !.items[i].orig = height, !.items[i].hides = ~hidden,
                     !.fxshow = [is |-> TRUE, height |-> height,
                                 toggled |-> @.toggled \/ effect = "toggle",
                                 hidden |-> IF effect = "toggle" THEN ~hidden ELSE @.hidden],
                     !.hidden = @ /\ ~hidden, !.height = "part"]

Prefiltered(x, i) ==
  LET y == IF x.items[i].queued THEN x
           ELSE [QueueHooks(x) EXCEPT !.hooks.unqueued = @ + 1]
  IN  ShowHide([y EXCEPT !.elem = @ \cup {i}], i)

\* Nothing to change: the first tick is the last.
Empty(x, i) == x.items[i].kind = "empty" \/ (x.items[i].effect # "none" /\ ~Shows(x, i))

DoAnimation(x, i) ==
  LET y == Prefiltered(x, i)
      z == [y EXCEPT !.timers = Append(@, i), !.interval = TRUE]
  IN  IF Empty(y, i) THEN ResolveAtOnce(y, i)
      ELSE IF x.finishing THEN GoToEnd(z, i) ELSE z

Delay(x, i) == [x EXCEPT !.delays = @ \cup {i}, !.hooks.stop = i]

Dequeue(x) ==
  LET q == IF x.queue # <<>> /\ Head(x.queue) = Sentinel THEN Tail(x.queue) ELSE x.queue
      y == [QueueHooks(x) EXCEPT !.queue = q]
      i == Head(q)
      z == [y EXCEPT !.queue = <<Sentinel>> \o Tail(q), !.hooks.stop = None]
  IN  IF q = <<>> THEN EmptyFire(y)
      ELSE IF z.items[i].kind = "delay" THEN Delay(z, i) ELSE DoAnimation(z, i)

\* The call of queue() that follows a change of the queue.
Queued(x) ==
  IF x.queue # <<>> /\ Head(x.queue) = Sentinel THEN QueueHooks(x) ELSE Dequeue(QueueHooks(x))

ClearQueue(x) == Queued([x EXCEPT !.queue = <<>>])

-----------------------------------------------------------------------------
(* stop(clear, gotoEnd) and finish().                                        *)

\* animation.stop(true), from the last timer to the first, for those in chosen;
\* animations that begin meanwhile go behind.
RECURSIVE EndTimers(_, _, _)
EndTimers(x, n, chosen) ==
  IF n = 0 THEN x
  ELSE IF x.timers[n] \notin x.elem \cap chosen THEN EndTimers(x, n - 1, chosen)
  ELSE LET y == GoToEnd(x, x.timers[n])
       IN  EndTimers([y EXCEPT !.timers = Without(@, n)], n - 1, chosen)

StopCall(x, clear, gotoEnd) ==
  LET y == IF clear THEN ClearQueue(x) ELSE x
      z == NoDelay(y)
      stopsOne == \E n \in DOMAIN z.timers : z.timers[n] \in z.elem
      t == EndTimers(z, Len(z.timers), DOMAIN z.items)
  IN  IF ~gotoEnd THEN StopHere(y) ELSE IF stopsOne THEN t ELSE Dequeue(t)

RECURSIVE FinishQueue(_, _)
FinishQueue(x, q) ==
  IF q = <<>> THEN x
  ELSE LET i == Head(q)
       IN  FinishQueue(IF i = Sentinel \/ x.items[i].kind = "delay" THEN x ELSE DoAnimation(x, i),
                       Tail(q))

FinishCall(x) ==
  LET y == StopDelay([x EXCEPT !.finishing = TRUE, !.queue = <<>>])
      queued == {i \in DOMAIN x.items : x.items[i].queued}
      z == FinishQueue(EndTimers(y, Len(y.timers), queued), x.queue)
  IN  [z EXCEPT !.finishing = FALSE]

-----------------------------------------------------------------------------
(* jQuery.fx.tick(): every timer once; the functions it calls may change the *)
(* list of timers.                                                           *)

\* Faulty: an animation that is over is taken out by its place, wherever it is.
RECURSIVE TickBlindly(_, _, _)
TickBlindly(x, n, ends) ==
  IF n > Len(x.timers) THEN x
  ELSE LET i == x.timers[n]
           y == IF i \in x.stopped \/ i \notin ends THEN x ELSE Resolve(x, i)
       IN  IF i \in x.stopped \cup ends THEN TickBlindly([y EXCEPT !.timers = Without(@, n)], n, ends)
           ELSE TickBlindly(y, n + 1, ends)

RECURSIVE TickFrom(_, _, _)
TickFrom(x, n, ends) ==
  IF n > Len(x.timers) THEN x
  ELSE LET i == x.timers[n]
           y == IF i \in x.stopped \/ i \notin ends THEN x ELSE Resolve(x, i)
           ended == i \in x.stopped \cup ends
           listed == n <= Len(y.timers) /\ y.timers[n] = i
       IN  IF ended /\ listed THEN TickFrom([y EXCEPT !.timers = Without(@, n)], n, ends)
           ELSE TickFrom(y, n + 1, ends)

Tick(ends) ==
  /\ s.interval
  /\ LET x == TickFrom(s, 1, ends)
     IN  s' = [x EXCEPT !.interval = x.timers # <<>>]

EndOfDelay(i) ==
  /\ i \in s.delays
  /\ s' = Dequeue([s EXCEPT !.delays = @ \ {i}])

-----------------------------------------------------------------------------
(* Calls of the page.                                                        *)

\* animate(), show(), hide(), toggle() with a speed, and delay().
Animate(kind) ==
  /\ Len(s.items) < MaxItems
  /\ LET i == Len(s.items) + 1
         x == [s EXCEPT !.items = Append(@, [kind EXCEPT !.orig = "none", !.hides = FALSE])]
         y == [x EXCEPT !.queue = Append(@, i)]
     IN  s' = IF kind.kind = "empty" \/ ~kind.queued THEN DoAnimation(x, i) ELSE Queued(y)

StopAll(clear, gotoEnd) ==
  /\ s.stops < MaxStops /\ [clear |-> clear, gotoEnd |-> gotoEnd] \in s.page.stops
  /\ s' = StopCall([s EXCEPT !.stops = @ + 1], clear, gotoEnd)

Finish ==
  /\ s.stops < MaxStops /\ s.page.finishes
  /\ s' = FinishCall([s EXCEPT !.stops = @ + 1])

Clear ==
  /\ s.stops < MaxStops /\ s.page.clears
  /\ s' = ClearQueue([s EXCEPT !.stops = @ + 1])

\* promise(): the end of what is in the queue now.
Promise ==
  /\ s.promise = "none"
  /\ s' = IF s.hooks.is THEN [s EXCEPT !.hooks.waiting = TRUE, !.promise = "pending"]
          ELSE [s EXCEPT !.promise = "resolved"]

Starts == {Start(page) : page \in Pages}
Init == s \in Starts

Next ==
  \/ \E kind \in s.page.kinds : Animate(kind)
  \/ \E clear, gotoEnd \in BOOLEAN : StopAll(clear, gotoEnd)
  \/ Finish
  \/ Clear
  \/ Promise
  \/ \E ends \in SUBSET s.elem : Tick(ends)
  \/ \E i \in s.delays : EndOfDelay(i)

Spec == Init /\ [][Next]_s
\* Weak fairness, with what enables the two actions written out: the interval and
\* the timeouts of the browser go on, and an animation has a last tick.
TimersFire ==
  /\ []<>(~s.interval) \/ []<><<Tick(s.elem)>>_s
  /\ []<>(s.delays = {}) \/ []<><<\E i \in s.delays : EndOfDelay(i)>>_s
FairSpec == Spec /\ TimersFire

-----------------------------------------------------------------------------
(* Properties.                                                               *)

InQueue(i) == s.items[i].queued

\* Emptying the queue takes the sentinel and the hooks with it, animate({}) does
\* not wait for its turn, and a complete function that calls stop() dequeues twice.
Tame ==
  /\ ~s.page.clears /\ \A c \in s.page.stops : ~c.clear
  /\ \A k \in s.page.kinds : k.then = "none" /\ k.kind # "empty"

\* Of what is queued one thing is under way at a time, whenever animations end,
\* are stopped or finished.
OneAtATime == Tame => Cardinality({i \in UnderWay(s) : InQueue(i)}) <= 1

\* The sentinel blocks the queue only while something is under way that will
\* dequeue the rest.
NotBlocked ==
  (s.queue # <<>> /\ Head(s.queue) = Sentinel) => \E i \in UnderWay(s) : InQueue(i)

\* What is under way is driven: it is in the list of timers, and the interval
\* timer is set.
Driven ==
  /\ \A i \in s.elem : ~Over(s, i) => \E n \in DOMAIN s.timers : s.timers[n] = i
  /\ s.timers # <<>> => s.interval

\* The promise is resolved after the end of all that was under way, in the queue
\* and outside of it.
PromiseIsTrue == Tame => ~s.early

\* After any sequence of show, hide and toggle, stopped or not, the element has
\* its own height back, unless the last of them was torn off.
HeightIsRestored == UnderWay(s) = {} /\ ~s.torn => s.height = "full"

\* finish() ends the timeout of a delay and empties the queue, and if no animation
\* follows, nobody dequeues and resolves the promise.
FinishesDelays == s.page.finishes /\ \E k \in s.page.kinds : k.kind = "delay"

\* In the end the queue is empty, and the promise resolved on a page that does not
\* call finish() during delays.
QueueDrains == []<>(UnderWay(s) = {})
PromiseIsKept == (s.promise = "pending" /\ ~FinishesDelays) ~> (s.promise = "resolved")

\* The queue, its promise and the height survive every order of animations, calls
\* of stop() and finish(), ticks and complete functions.
QueueInTurn == OneAtATime /\ NotBlocked /\ Driven /\ PromiseIsTrue /\ HeightIsRestored

\* No order of them leaves the queue waiting for ever, nor its promise, unless the
\* page combines delays with finish().
QueueGoesOn == QueueDrains /\ PromiseIsKept
=============================================================================
