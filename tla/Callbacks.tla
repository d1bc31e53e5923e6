------------------------------ MODULE Callbacks -------------------------------
(***************************************************************************)
(* One list of jQuery.Callbacks.  The page adds, removes and fires; so do  *)
(* the functions of the list while they are called.                        *)
(*                                                                         *)
(* Ghosts: owed, the functions that have still to be called with the value *)
(* fired last; emptied, that empty() was called during this fire().        *)
(***************************************************************************)
EXTENDS CallbackList, FiniteSets

CONSTANTS
  Functions,    \* the functions of the page
  OptionSets,   \* the options of the list
  MaxFires,     \* bound: values fired
  MaxLength     \* bound: functions in the list

VARIABLE s      \* the list l, whether a function is being called, and ghosts

l == s.l
MayOperate == ~l.firing \/ s.calling

\* Another list, of which the functions not called yet are owed a call.
To(m, owed) ==
  s' = [s EXCEPT !.l = m, !.owed = owed \cap FunctionsOf(m), !.emptied = @ /\ (~m.firing \/ s.calling)]

-----------------------------------------------------------------------------
(* The loop of fire().                                                       *)

Call ==
  /\ l.firing /\ ~s.calling /\ Calls(l)
  /\ s' = [s EXCEPT !.calling = TRUE, !.owed = @ \ {Called(l)}]

Return(stops) ==
  /\ s.calling
  /\ s' = [s EXCEPT !.l = Returned(l, stops), !.calling = FALSE,
                    !.owed = IF stops /\ "stopOnFalse" \in l.options THEN {} ELSE @]

EndOfFire ==
  /\ l.firing /\ ~s.calling /\ ~Calls(l)
  /\ LET m == AfterLoop(l) IN To(m, IF m.firing THEN FunctionsOf(m) ELSE s.owed)

-----------------------------------------------------------------------------
(* Operations, of the page or of the function being called.                  *)

AddFunction(f) ==
  /\ MayOperate /\ Len(l.list) < MaxLength
  /\ LET m == Add(l, f)
         new == IF m.list # l.list THEN {f} ELSE {}
     IN  To(m, IF l.firing \/ ~m.firing THEN s.owed \cup new ELSE new)

RemoveFunction(f) ==
  /\ MayOperate /\ f \in FunctionsOf(l)
  /\ To(Remove(l, f), s.owed)

EmptyList ==
  /\ MayOperate
  /\ s' = [s EXCEPT !.l = Empty(l), !.owed = {}, !.emptied = l.firing]

LockOrDisable ==
  /\ MayOperate
  /\ To(Lock(l), s.owed) \/ To(Disable(l), {})

FireValue ==
  /\ MayOperate /\ s.fires < MaxFires
  /\ LET m == FireWith(l, s.fires + 1)
         begins == m.firing /\ ~l.firing
     IN  s' = [s EXCEPT !.l = m, !.fires = @ + 1,
                        !.owed = IF begins THEN FunctionsOf(m) ELSE @,
                        !.emptied = @ /\ ~begins]

Starts ==
  {[l |-> NewList(options), calling |-> FALSE, fires |-> 0, owed |-> {}, emptied |-> FALSE]
     : options \in OptionSets}
Init == s \in Starts

Next ==
  \/ Call
  \/ \E stops \in BOOLEAN : Return(stops)
  \/ EndOfFire
  \/ \E f \in Functions : AddFunction(f) \/ RemoveFunction(f)
  \/ EmptyList
  \/ LockOrDisable
  \/ FireValue

Spec == Init /\ [][Next]_s

-----------------------------------------------------------------------------
(* Properties.                                                               *)

\* The loop never leaves the list, whatever the functions it calls remove.
InBounds == l.firing /\ ~s.calling /\ Calls(l) => l.index \in DOMAIN l.list

\* When fire() is over, every function of the list has been called: those added
\* or moved during the loop too, and with memory those added later.  After
\* empty() in the loop, the functions that are added in the same loop are not.
NoneSkipped ==
  /\ l.alive /\ ~s.emptied
  /\ \/ l.firing /\ ~s.calling /\ ~Calls(l)
     \/ ~l.firing /\ l.memory # None
  => s.owed = {}

\* No function is called again with the value it has been called with, unless
\* it is in the list twice or has been added again.
CallsOwed ==
  Call => \/ Called(l) \in s.owed
          \/ Cardinality({i \in DOMAIN l.list : l.list[i] = Called(l)}) > 1

\* Values are fired in the order of the calls of fireWith(), those from within
\* the loop included, and none after the list is locked or, with once, fired.
InOrder ==
  /\ s'.l.data >= l.data
  /\ l.fired /\ ~l.repeats => s'.l.data = l.data

\* The contract of a callback list: fire() calls every function once, in order,
\* though the functions change and fire the list while it is called.
KeepsContract == InBounds' /\ NoneSkipped' /\ CallsOwed /\ InOrder
CallsEachOnce == [][KeepsContract]_s
=============================================================================
