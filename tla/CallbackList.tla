---------------------------- MODULE CallbackList ----------------------------
(***************************************************************************)
(* jQuery.Callbacks: a list of functions that is fired with values, while  *)
(* the functions it calls change it.  Every operation is an operator from  *)
(* one list to the next; the loop of fire() is cut at the calls, between   *)
(* which index is the position of the function being called.               *)
(*                                                                         *)
(* Positions count from 1.  The value None is never fired.                 *)
(***************************************************************************)
EXTENDS Naturals, Sequences

None == 0

\* alive and repeats say whether the fields list and stack of the code are
\* defined; data is the argument of the call of fire() under way.
NewList(options) ==
  [options |-> options, alive |-> TRUE, list |-> <<>>, repeats |-> "once" \notin options,
   stack |-> <<>>, memory |-> None, fired |-> FALSE, firing |-> FALSE,
   length |-> 0, index |-> 0, start |-> 1, data |-> None]

FunctionsOf(l) == {l.list[i] : i \in DOMAIN l.list}

-----------------------------------------------------------------------------
(* fire(), from its beginning to the first call, and after the last one.     *)

Fire(l, data) ==
  [l EXCEPT !.memory = IF "memory" \in l.options THEN data ELSE None,
            !.fired = TRUE, !.index = l.start, !.start = 1,
            !.length = Len(l.list), !.firing = TRUE, !.data = data]

\* The condition of the loop.
Calls(l) == l.alive /\ l.index <= l.length

Called(l) == l.list[l.index]

\* The function at index has returned; stops: with false.
Returned(l, stops) ==
  IF stops /\ "stopOnFalse" \in l.options
  THEN [l EXCEPT !.memory = None, !.index = l.length + 1]
  ELSE [l EXCEPT !.index = @ + 1]

Disable(l) ==
  [l EXCEPT !.alive = FALSE, !.list = <<>>, !.repeats = FALSE, !.stack = <<>>, !.memory = None]

AfterLoop(l) ==
  LET m == [l EXCEPT !.firing = FALSE] IN
  CASE ~l.alive -> m
    [] l.alive /\ l.repeats /\ l.stack # <<>> -> Fire([m EXCEPT !.stack = Tail(@)], Head(l.stack))
    [] l.alive /\ l.repeats /\ l.stack = <<>> -> m
    [] l.alive /\ ~l.repeats -> IF l.memory # None THEN [m EXCEPT !.list = <<>>] ELSE Disable(m)

-----------------------------------------------------------------------------
(* The operations of a list.                                                 *)

Add(l, f) ==
  LET m == IF "unique" \in l.options /\ f \in FunctionsOf(l) THEN l
           ELSE [l EXCEPT !.list = Append(@, f)]
  IN  CASE ~l.alive -> l
        [] l.alive /\ l.firing -> [m EXCEPT !.length = Len(m.list)]
        [] l.alive /\ ~l.firing ->
             IF l.memory # None THEN Fire([m EXCEPT !.start = Len(l.list) + 1], l.memory) ELSE m

\* Faulty: the loop runs on to the length the list had.
RemoveUnnoticed(l, f) == [l EXCEPT !.list = SelectSeq(@, LAMBDA g : g # f)]

\* list.splice(): the function at i is taken out; one that is not behind the
\* function being called moves that one up.
Splice(l, i) ==
  [l EXCEPT !.list = SubSeq(@, 1, i - 1) \o SubSeq(@, i + 1, Len(@)),
            !.length = IF l.firing /\ i - 1 <= @ THEN @ - 1 ELSE @,
            !.index = IF l.firing /\ i <= @ THEN @ - 1 ELSE @]

\* The first copy of the function is taken out, if there is one.
RemoveFirst(l, f) ==
  IF f \notin FunctionsOf(l) THEN l
  ELSE Splice(l, CHOOSE i \in DOMAIN l.list : l.list[i] = f /\ \A j \in 1 .. i - 1 : l.list[j] # f)

\* The loop of remove(): one copy after the other, until there is none.
Remove(l, f) ==
  LET after[n \in 0 .. Len(l.list)] == IF n = 0 THEN l ELSE RemoveFirst(after[n - 1], f)
  IN  after[Len(l.list)]

Empty(l) == [l EXCEPT !.alive = TRUE, !.list = <<>>, !.length = 0]

Lock(l) ==
  LET m == [l EXCEPT !.repeats = FALSE, !.stack = <<>>]
  IN  IF l.memory = None THEN Disable(m) ELSE m

FireWith(l, data) ==
  CASE ~(l.alive /\ (~l.fired \/ l.repeats)) -> l
    [] OTHER -> IF l.firing THEN [l EXCEPT !.stack = Append(@, data)] ELSE Fire(l, data)
=============================================================================
