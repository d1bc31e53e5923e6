----------------------------- MODULE JQueryParts ------------------------------
(***************************************************************************)
(* The parts of jQuery that the pages use, but for effects: what the page  *)
(* does with each of them, and their properties.  They share no state that *)
(* the properties are about.  s is the state of the document.              *)
(***************************************************************************)
EXTENDS DocumentReady, Sequences

CONSTANTS MaxFires, MaxLength, Subordinates, MaxNotes,
          MaxRequests, Depth, MaxHandlers, MaxNested, MaxAttaches,
          TypeNames, ConverterMaps, WantedTypes, ContentTypes

\* The data of every response is text first; a converter is from one type to another.
ConvertersAssumption ==
  /\ "text" \in TypeNames /\ ContentTypes \subseteq TypeNames
  /\ WantedTypes \subseteq Seq(TypeNames)
  /\ \A c \in ConverterMaps : DOMAIN c \subseteq TypeNames \X TypeNames
ASSUME ConvertersAssumption

VARIABLES calls, deferreds, ajax, conversion, events

-----------------------------------------------------------------------------
(* What the page does with each part.                                        *)

OptionSets == {{}, {"memory"}, {"once", "memory"}, {"once"}, {"unique"}, {"stopOnFalse", "memory"}}

\* Functions for the outcome of the first subordinate and of what then() returns.
PageHandlers ==
  {[d |-> 1, t |-> "resolve", n |-> 1], [d |-> 1, t |-> "reject", n |-> 1],
   [d |-> Subordinates + 2, t |-> "always", n |-> 1]}

Request(transport, jsonp, timeout, sync) ==
  [transport |-> transport, jsonp |-> jsonp, global |-> TRUE, timeout |-> timeout, sync |-> sync]
RequestKinds ==
  {Request("xhr", "no", TRUE, FALSE), Request("xhr", "no", FALSE, TRUE),
   Request("script", "auto", TRUE, FALSE), Request("xhr", "auto", FALSE, FALSE),
   Request("none", "no", TRUE, FALSE)}

Binding(type, selector, ns, guid, once) ==
  [type |-> type, selector |-> selector, ns |-> ns, guid |-> guid, once |-> once]
Removal(type, selector, ns, guid) ==
  [type |-> type, selector |-> selector, ns |-> ns, guid |-> guid]
Enters == Binding("mouseenter", TRUE, {"n"}, 2, FALSE)
Focuses == Binding("focus", TRUE, {}, 4, FALSE)
EventPages ==
  {[bindings |-> {Binding("mouseover", FALSE, {}, 1, FALSE), Enters, Focuses},
    removals |-> {Removal("", FALSE, {}, 0), Removal("", FALSE, {"n"}, 0),
                  Removal("mouseenter", FALSE, {}, 0), Removal("focus", TRUE, {}, 4)},
    fired |-> {}, data |-> TRUE],
   [bindings |-> {Enters, Binding("mouseenter", FALSE, {}, 3, TRUE)},
    removals |-> {Removal("mouseenter", FALSE, {}, 0)}, fired |-> {"mouseover"}, data |-> FALSE],
   [bindings |-> {Focuses}, removals |-> {Removal("focus", TRUE, {}, 0)},
    fired |-> {"focus"}, data |-> FALSE]}

-----------------------------------------------------------------------------
Lists == INSTANCE Callbacks WITH s <- calls, Functions <- {"f", "g"}
Promises == INSTANCE Deferreds WITH
  s <- deferreds, Plain <- 0, Chained <- {"resolve"}, Handlers <- PageHandlers
Requests == INSTANCE Ajax WITH s <- ajax, Kinds <- RequestKinds, AbortsIn <- {"prefilter", "before"}
Types == INSTANCE Conversion WITH
  s <- conversion, Wanted <- WantedTypes
Handling == INSTANCE Events WITH s <- events, Pages <- EventPages

-----------------------------------------------------------------------------
(* The properties of the parts, which their modules state (NotTooEarly and    *)
(* EventuallyReady: DocumentReady).                                          *)

(* fire() calls every function of a list once, in order (Callbacks).         *)
CallsEachOnce == [][Lists!KeepsContract]_calls

(* Functions, when() and then() agree with the outcomes (Deferred).          *)
OutcomesAgree == Promises!OutcomesAgree
(* A deferred settles once, when() in the end (Deferred, when).              *)
SettlesOnce == Promises!SettlesOnce

(* A request ends once, and jQuery.active counts those under way (ajax).     *)
RequestsEndOnce == Requests!RequestsEndOnce
(* jsonp requests have their own names and data (jsonp prefilter).           *)
JsonpApart == Requests!JsonpApart
(* A request with a timeout ends (ajax).                                     *)
Completes == Requests!Completes

(* A response is converted to the type wanted (ajaxConvert).                 *)
ConvertsRight == Types!ConvertsRight

(* Handlers, listeners, cache and order of calls match (event, data).        *)
HandlersConsistent == Handling!HandlersConsistent
=============================================================================
