------------------------------- MODULE Events --------------------------------
(***************************************************************************)
(* The events of jQuery and the data they are kept in: jQuery.cache, with  *)
(* the ids elements carry and those free for use again; binding, directly  *)
(* or delegated, by name or namespace; native listeners; dispatch and      *)
(* trigger, while handlers bind, unbind, fire events and remove elements.  *)
(*                                                                         *)
(* The elements 1 .. Depth are a branch of the document: the parent of e   *)
(* is e + 1.  A selector matches every element below the one it is used    *)
(* on.  A browser without focusinBubbles is assumed.                       *)
(***************************************************************************)
EXTENDS Naturals, Sequences, FiniteSets, SequencesExt

CONSTANTS
  Depth,        \* elements of the branch
  Pages,        \* what a page does: records of the bindings it makes
                \* ([type, selector, ns, guid, once]), the removals ([type,
                \* selector, ns, guid]; type "" means all, guid 0 any
                \* handler), the types of events fired, by the page or by the
                \* user, and whether it keeps data
  MaxHandlers,  \* bound: handlers of a type, of an element
  MaxNested,    \* bound: events inside one another
  MaxAttaches   \* bound: elements counted as wanting focusin

VARIABLE s

Elements == 1 .. Depth
Types == {"click", "mouseover", "focus", "focusin"}

\* special[type]: the type bound instead of the one that is named.
BoundType(type, selector) ==
  CASE type = "mouseenter" -> "mouseover"
    [] type = "focus" /\ selector -> "focusin"
    [] OTHER -> type

Special == {"click", "focus", "focusin"}     \* types with an entry in special

NoHandlers == [hs |-> <<>>, delegates |-> 0]
NoData == [events |-> [y \in Types |-> NoHandlers], values |-> FALSE]

-----------------------------------------------------------------------------
(* Data.  The cache of the code holds an entry for every id in DOMAIN        *)
(* cache; values says whether the entry has data other than events.          *)

HasEntry(t, e) == t.ids[e] \in DOMAIN t.cache
Entry(t, e) == IF HasEntry(t, e) THEN t.cache[t.ids[e]] ELSE NoData
Handlers(t, e, y) == Entry(t, e).events[y]
Bound(t, e) == {y \in Types : Handlers(t, e, y).hs # <<>>}

\* _data(elem): the entry is made, with an id that is free again or a new one.
WithEntry(t, e) ==
  LET reuses == t.free # <<>>
      id == IF reuses THEN Last(t.free) ELSE t.guid
  IN  IF HasEntry(t, e) THEN t
      ELSE [t EXCEPT !.ids[e] = id,
                     !.free = IF reuses THEN Front(@) ELSE @,
                     !.guid = IF reuses THEN @ ELSE @ + 1,
                     !.cache = [i \in DOMAIN @ \cup {id} |-> IF i = id THEN NoData ELSE @[i]]]

WithData(t, e, d) == [t EXCEPT !.cache[t.ids[e]] = d]

DropEntry(t, e) ==
  IF ~HasEntry(t, e) THEN t
  ELSE [t EXCEPT !.cache = [i \in DOMAIN @ \ {t.ids[e]} |-> @[i]],
                 !.ids[e] = 0,
                 !.free = Append(@, t.ids[e])]

\* internalRemoveData(), once the name is deleted.
DropIfEmpty(t, e) == IF Entry(t, e) = NoData THEN DropEntry(t, e) ELSE t

-----------------------------------------------------------------------------
(* Binding.                                                                  *)

\* The native listener or, for focusin, the one capturing handler of the document.
Attach(t, e, y) ==
  IF y = "focusin" THEN [t EXCEPT !.attaches = @ + 1, !.captures = @ \/ t.attaches = 0]
  ELSE [t EXCEPT !.native = @ \cup {<<e, y>>}]

\* Only the special entry of the type that was named is asked to tear down.
Detach(t, e, y, named) ==
  IF named = "focusin" THEN [t EXCEPT !.attaches = @ - 1, !.captures = @ /\ t.attaches # 1]
  ELSE [t EXCEPT !.native = @ \ {<<e, y>>}]

\* Faulty: a delegated handler is put behind the others.
AddBehind(t, e, b) ==
  LET y == BoundType(b.type, b.selector)
      u == WithEntry(t, e)
      l == Handlers(u, e, y)
      v == IF l.hs = <<>> THEN Attach(u, e, y) ELSE u
  IN  [v EXCEPT !.cache[v.ids[e]].events[y] =
         [hs |-> Append(l.hs, b), delegates |-> l.delegates + IF b.selector THEN 1 ELSE 0]]

\* jQuery.event.add()
Add(t, e, b) ==
  LET y == BoundType(b.type, b.selector)
      u == WithEntry(t, e)
      l == Handlers(u, e, y)
      m == IF b.selector THEN [hs |-> InsertAt(l.hs, l.delegates + 1, b), delegates |-> l.delegates + 1]
           ELSE [l EXCEPT !.hs = Append(@, b)]
      v == IF l.hs = <<>> THEN Attach(u, e, y) ELSE u
  IN  [v EXCEPT !.cache[v.ids[e]].events[y] = m]

\* The handlers of one type that match are removed; mapped: whatever name they
\* were bound by.  With the last "focus" handler that is removed by that name,
\* focusin is not torn down: unlike add(), remove() does not read the special
\* entry of the type it has changed to.
RemoveType(t, e, y, r, mapped) ==
  LET l == Handlers(t, e, y)
      Goes(b) == /\ mapped \/ r.type = b.type
                 /\ r.guid \in {0, b.guid}
                 /\ r.ns \subseteq b.ns
                 /\ r.selector => b.selector
      kept == SelectSeq(l.hs, LAMBDA b : ~Goes(b))
      delegates == Len(SelectSeq(l.hs, LAMBDA b : Goes(b) /\ b.selector))
      u == [t EXCEPT !.cache[t.ids[e]].events[y] = [hs |-> kept, delegates |-> l.delegates - delegates]]
  IN  CASE l.hs = <<>> -> t
        [] kept = <<>> -> Detach(u, e, y, IF mapped THEN y ELSE r.type)
        [] OTHER -> u

\* jQuery.event.remove()
RemoveEvents(t, e, r) ==
  LET Mapped(y, u) == RemoveType(u, e, y, r, TRUE)
      u == IF r.type = "" THEN FoldSet(Mapped, t, Bound(t, e))
           ELSE RemoveType(t, e, BoundType(r.type, r.selector), r, FALSE)
  IN  CASE Bound(t, e) = {} -> t
        [] OTHER -> IF Bound(u, e) = {} THEN DropIfEmpty(u, e) ELSE u

\* cleanData(): a type with an entry in special is removed by that name.
CleanData(t, e) ==
  LET By(y) == [type |-> y, selector |-> FALSE, ns |-> {}, guid |-> 0]
      Clean(y, u) == IF y \in Special THEN RemoveEvents(u, e, By(y)) ELSE Detach(u, e, y, y)
  IN  IF HasEntry(t, e) THEN DropEntry(FoldSet(Clean, t, Bound(t, e)), e) ELSE t

-----------------------------------------------------------------------------
(* Events under way, the innermost first.  A frame is an event: the elements *)
(* it has still to reach, and the handlers to be called at the last one it   *)
(* has reached, each with the element it is called for.                      *)

Frame(y, e, path, triggered, related, ns) ==
  [type |-> y, target |-> e, path |-> path, triggered |-> triggered, related |-> related,
   ns |-> ns, at |-> e, here |-> e, queue |-> <<>>, calling |-> FALSE]

Branch(e) == [i \in 1 .. Depth + 1 - e |-> e + i - 1]

\* handlers(): the delegated ones, from the target up, then those of the element.
QueueAt(l, target, e) ==
  LET Delegated == SubSeq(l.hs, 1, l.delegates)
      Own == SubSeq(l.hs, l.delegates + 1, Len(l.hs))
      For(hs, x) == [i \in DOMAIN hs |-> [elem |-> x, h |-> hs[i]]]
  IN  FlattenSeq([x \in 1 .. e - target |-> For(Delegated, target + x - 1)]) \o For(Own, e)

Top == s.stack[1]
MayOperate == IF s.stack = <<>> THEN TRUE ELSE Top.calling

\* The event reaches the next element; a native one by its listener.
Reach ==
  /\ s.stack # <<>> /\ Top.queue = <<>> /\ ~Top.calling
  /\ IF Top.path = <<>> THEN s' = [s EXCEPT !.stack = Tail(@)]
     ELSE LET e == Head(Top.path)
              hears == Top.triggered \/ <<e, Top.type>> \in s.native
              l == IF hears THEN Handlers(s, e, Top.type) ELSE NoHandlers
          IN  s' = [s EXCEPT !.stack[1] =
                     [@ EXCEPT !.path = Tail(@), !.at = e, !.queue = QueueAt(l, Top.target, e)]]

\* A handler is called, if the event has no namespaces or the handler has them
\* all.  mouseenter wants the mouse to come from outside of its element.  The
\* function that one() binds removes itself first.
Call ==
  /\ s.stack # <<>> /\ Top.queue # <<>> /\ ~Top.calling
  /\ LET q == Head(Top.queue)
         calls == /\ Top.ns \subseteq q.h.ns
                  /\ q.h.type = "mouseenter" => Top.related = 0 \/ Top.related > q.elem
         t == [s EXCEPT !.stack[1] = [@ EXCEPT !.queue = Tail(@), !.here = q.elem, !.calling = calls]]
     IN  s' = IF calls /\ q.h.once
              THEN RemoveEvents(t, Top.at, [type |-> q.h.type, selector |-> q.h.selector,
                                      ns |-> q.h.ns, guid |-> q.h.guid])
              ELSE t

\* stops: "no", "above" (it returns false or stops the propagation) or "all".
Return(stops) ==
  /\ s.stack # <<>> /\ Top.calling
  /\ LET queue == CASE stops = "no" -> Top.queue
                    [] stops = "above" -> SelectSeq(Top.queue, LAMBDA q : q.elem = Top.here)
                    [] OTHER -> <<>>
     IN  s' = [s EXCEPT !.stack[1] =
                [@ EXCEPT !.calling = FALSE, !.queue = queue,
                          !.path = IF stops = "no" THEN @ ELSE <<>>]]

-----------------------------------------------------------------------------
(* What the page, or the handler being called, may do.                       *)

Bind(e, b) ==
  /\ MayOperate
  /\ Len(Handlers(s, e, BoundType(b.type, b.selector)).hs) < MaxHandlers
  /\ Add(s, e, b).attaches <= MaxAttaches
  /\ s' = Add(s, e, b)

Unbind(e, r) ==
  /\ MayOperate /\ Bound(s, e) # {}
  /\ s' = RemoveEvents(s, e, r)

\* data() and removeData()
SetData(e) ==
  /\ MayOperate /\ s.page.data /\ ~Entry(s, e).values
  /\ s' = LET t == WithEntry(s, e) IN WithData(t, e, [Entry(t, e) EXCEPT !.values = TRUE])

UnsetData(e) ==
  /\ MayOperate /\ Entry(s, e).values
  /\ s' = DropIfEmpty(WithData(s, e, [Entry(s, e) EXCEPT !.values = FALSE]), e)

\* The element is removed, with those below it, and put back where it was.
RemoveElement(e) ==
  /\ MayOperate
  /\ s' = FoldSet(LAMBDA x, t : CleanData(t, x), s, 1 .. e)

\* trigger(), of a type without default action, for all handlers or those that
\* have the namespaces.
Trigger(e, y, ns) ==
  /\ MayOperate /\ Len(s.stack) < MaxNested
  /\ s' = [s EXCEPT !.stack = <<Frame(BoundType(y, FALSE), e, Branch(e), TRUE, 0, ns)>> \o @]

\* An event of the browser.  focus does not bubble, but is first captured by the
\* document and simulated as focusin.
Happen(e, y, related) ==
  /\ s.stack = <<>> /\ related # e
  /\ LET own == Frame(y, e, IF y = "focus" THEN <<e>> ELSE Branch(e), FALSE, related, {})
         simulated == Frame("focusin", e, Branch(e), TRUE, 0, {})
     IN  s' = [s EXCEPT !.stack =
                IF y = "focus" /\ s.captures THEN <<simulated, own>> ELSE <<own>>]

Starts ==
  {[page |-> page, ids |-> [e \in Elements |-> 0], cache |-> <<>>, free |-> <<>>, guid |-> 1,
    native |-> {}, attaches |-> 0, captures |-> FALSE, stack |-> <<>>] : page \in Pages}
Init == s \in Starts

Next ==
  \/ Reach
  \/ Call
  \/ \E stops \in {"no", "above", "all"} : Return(stops)
  \/ \E e \in Elements :
       \/ \E b \in s.page.bindings : Bind(e, b)
       \/ \E r \in s.page.removals : Unbind(e, r)
       \/ SetData(e)
       \/ UnsetData(e)
       \/ RemoveElement(e)
       \/ \E y \in s.page.fired \ {"focus"}, ns \in {b.ns : b \in s.page.bindings} : Trigger(e, y, ns)
       \/ \E y \in s.page.fired \ {"mouseenter"}, x \in 0 .. Depth : Happen(e, y, x)

Spec == Init /\ [][Next]_s

-----------------------------------------------------------------------------
(* Properties.                                                               *)

\* An element has a native listener for exactly the types it has handlers of,
\* whatever is bound, unbound by name or namespace, or removed with its data.
ListenersMatch ==
  \A e \in Elements, y \in Types \ {"focusin"} : (<<e, y>> \in s.native) <=> (y \in Bound(s, e))

\* While any element has a handler for focusin, the document captures focus; not
\* the other way round: handlers that are removed by the name "focus", or with
\* their element, leave the count up and the capturing listener behind.
FocusCaptured == (\E e \in Elements : "focusin" \in Bound(s, e)) => s.captures

\* No two elements share an id, none has one that is free for use, and no entry
\* of the cache is left without its element or kept empty after its last event
\* or value is removed.
IdsApart ==
  /\ \A e, x \in Elements : e # x /\ s.ids[e] # 0 => s.ids[e] # s.ids[x]
  /\ IsInjective(s.free) /\ \A e \in Elements : s.ids[e] \notin ToSet(s.free)
  /\ DOMAIN s.cache = {s.ids[e] : e \in Elements} \ {0}
  /\ \A i \in DOMAIN s.cache : s.cache[i] # NoData

\* Handlers are called going up from the target: the delegated ones for the
\* elements below, then those bound to the element itself for that element;
\* whatever was bound and unbound before, and while the event is under way.
QueueInOrder ==
  \A f \in ToSet(s.stack), i, j \in 1 .. MaxHandlers * Depth :
    {i, j} \subseteq DOMAIN f.queue /\ i <= j =>
      /\ f.queue[i].elem <= f.queue[j].elem
      /\ f.queue[i].h.selector <=> f.queue[i].elem < f.at

\* Handlers, native listeners, the cache and the order of calls stay consistent
\* while handlers bind, unbind and trigger, and elements are removed: nothing is
\* missed, and nothing of a removed element lives on but the capture of focus.
HandlersConsistent == ListenersMatch /\ FocusCaptured /\ IdsApart /\ QueueInOrder
=============================================================================
