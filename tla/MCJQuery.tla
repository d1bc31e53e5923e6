------------------------------ MODULE MCJQuery -------------------------------
(***************************************************************************)
(* The parts of jQuery and effects, for TLC.  In a behaviour, one part is  *)
(* at work (part), and the others stay as they begin.                      *)
(***************************************************************************)
EXTENDS JQueryParts

CONSTANTS MaxItems, MaxStops

VARIABLES part, effects

\* Five converters, each of them missing, there, or an equivalence.
Converters ==
  [{<<"text", "script">>, <<"script", "json">>, <<"text", "json">>, <<"*", "xml">>, <<"xml", "json">>}
     -> {"no", "yes", "same"}]
DataTypeLists ==
  {<<"*">>, <<"json">>, <<"script", "json">>, <<"*", "json">>, <<"xml">>, <<"text", "xml", "json">>}
KnownTypes == {"none", "xml"}

Kind(kind, effect, queued, then) ==
  [kind |-> kind, effect |-> effect, queued |-> queued, then |-> then, orig |-> "none", hides |-> FALSE]
Animates == Kind("anim", "none", TRUE, "none")
Toggles == Kind("anim", "toggle", TRUE, "none")
Hides == Kind("anim", "hide", TRUE, "none")
Shows == Kind("anim", "show", TRUE, "none")
Delays == Kind("delay", "none", TRUE, "none")
Apart == Kind("anim", "none", FALSE, "none")
Nothing == Kind("empty", "none", TRUE, "none")
Stopping == Kind("anim", "none", TRUE, "stop")

Stop(clear, gotoEnd) == [clear |-> clear, gotoEnd |-> gotoEnd]
EffectPages ==
  {[kinds |-> {Animates, Delays, Toggles, Hides, Shows},
    stops |-> {Stop(FALSE, FALSE), Stop(FALSE, TRUE)}, finishes |-> FALSE, clears |-> FALSE],
   [kinds |-> {Animates, Delays, Toggles, Apart}, stops |-> {}, finishes |-> TRUE, clears |-> FALSE],
   [kinds |-> {Toggles, Apart}, stops |-> {Stop(TRUE, FALSE)}, finishes |-> FALSE, clears |-> TRUE],
   [kinds |-> {Stopping, Apart}, stops |-> {Stop(FALSE, FALSE)}, finishes |-> FALSE, clears |-> FALSE],
   [kinds |-> {Animates, Apart}, stops |-> {Stop(FALSE, FALSE)}, finishes |-> FALSE, clears |-> FALSE],
   [kinds |-> {Animates, Nothing}, stops |-> {Stop(FALSE, FALSE)}, finishes |-> FALSE, clears |-> FALSE]}

Fx == INSTANCE Effects WITH s <- effects, Pages <- EffectPages

vars == <<part, calls, deferreds, s, effects, ajax, conversion, events>>

\* The states the part of that name begins in; one of them if it is not at work.
Begins(name, starts) == IF part = name THEN starts ELSE {CHOOSE x \in starts : TRUE}

JQueryInit ==
  /\ part \in {"calls", "deferreds", "document", "effects", "ajax", "conversion", "events"}
  /\ calls \in Begins("calls", Lists!Starts)
  /\ deferreds \in Begins("deferreds", Promises!Starts)
  /\ s \in Begins("document", Starts)
  /\ effects \in Begins("effects", Fx!Starts)
  /\ ajax \in Begins("ajax", Requests!Starts)
  /\ conversion \in Begins("conversion", Types!Starts)
  /\ events \in Begins("events", Handling!Starts)

At(name, A) == part = name /\ A

JQueryNext ==
  \/ /\ At("calls", Lists!Next)
     /\ UNCHANGED <<part, deferreds, s, effects, ajax, conversion, events>>
  \/ /\ At("deferreds", Promises!Next)
     /\ UNCHANGED <<part, calls, s, effects, ajax, conversion, events>>
  \/ /\ At("document", Next)
     /\ UNCHANGED <<part, calls, deferreds, effects, ajax, conversion, events>>
  \/ /\ At("effects", Fx!Next)
     /\ UNCHANGED <<part, calls, deferreds, s, ajax, conversion, events>>
  \/ /\ At("ajax", Requests!Next)
     /\ UNCHANGED <<part, calls, deferreds, s, effects, conversion, events>>
  \/ /\ At("conversion", Types!Next)
     /\ UNCHANGED <<part, calls, deferreds, s, effects, ajax, events>>
  \/ /\ At("events", Handling!Next)
     /\ UNCHANGED <<part, calls, deferreds, s, effects, ajax, conversion>>

\* The fairness of each module, for the part at work.
Fairness ==
  /\ WF_deferreds(At("deferreds", Promises!Library))
  /\ WF_deferreds(At("deferreds", Promises!Return))
  /\ WF_s(At("document", Parse)) /\ WF_s(At("document", Tell))
  /\ WF_s(At("document", Timeout)) /\ WF_s(At("document", Release))
  /\ WF_s(At("document", DoScrollCheck))
  /\ Fx!TimersFire
  /\ WF_ajax(At("ajax", Requests!Continue))
  /\ WF_ajax(At("ajax", \E r \in Requests!Ids : Requests!Timeout(r)))

JQuerySpec == JQueryInit /\ [][JQueryNext]_vars /\ Fairness

-----------------------------------------------------------------------------
(* The fx queue of an element runs in turn (queue, Animation, stop).         *)
QueueInTurn == Fx!QueueInTurn
(* In the end it is empty and its promise resolved, but for a delay that the *)
(* page has ended by finish() (queue, promise).                              *)
QueueGoesOn == Fx!QueueGoesOn
=============================================================================
