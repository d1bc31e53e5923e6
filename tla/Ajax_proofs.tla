------------------------------ MODULE Ajax_proofs ------------------------------
(***************************************************************************)
(* For any number of requests of any kinds, nested in each other's         *)
(* functions: a request ends once and is counted while it is under way,    *)
(* and requests by jsonp do not get into each other's way.                 *)
(***************************************************************************)
EXTENDS Ajax, FiniteSetTheorems, SequenceTheorems, TLAPS

\* The options ajax() tells apart.  A function for ajaxSend that aborts its
\* request is left out: ajax() sends it all the same.
Options ==
  [transport : {"xhr", "script", "none"}, jsonp : {"no", "own", "auto"},
   global : BOOLEAN, timeout : BOOLEAN, sync : BOOLEAN]
Page == MaxRequests \in Nat /\ Kinds \subseteq Options /\ "send" \notin AbortsIn

Names == 0 .. MaxRequests
Ajaxing == {"prefilter", "before", "send"}
Ending == {"settled", "completed"}

Requested ==
  [kind : Kinds, globals : BOOLEAN, state : 0 .. 2, transport : BOOLEAN, listens : BOOLEAN,
   timer : BOOLEAN, wire : {"none", "sent"}, name : Names, overwritten : Nat, container : Nat,
   outcome : {"none", "error", "success"}, data : Nat, answer : {"none"} \cup Answers,
   ends : Nat]
Frames == [r : Nat, at : Ajaxing \cup Ending]
States ==
  [requests : Seq(Requested), stack : Seq(Frames), active : Int, free : Seq(Names),
   nonce : Nat \ {0}, window : [Names -> Nat]]

\* A state of the script between two of its calls.
Typed(t) ==
  /\ t \in States
  /\ Len(t.requests) <= MaxRequests /\ t.nonce <= Len(t.requests) + 1
  /\ \A i \in DOMAIN t.stack : t.stack[i].r \in DOMAIN t.requests

\* The requests are those of s, and one of them is r.
Of(t, r) == Typed(t) /\ DOMAIN t.requests = Ids /\ r \in Ids

\* Requests are as they are in t but for the data they get and their transport.
AsAlive(p, q) ==
  q.globals = p.globals /\ q.state = p.state /\ q.timer = p.timer /\ q.ends = p.ends
SameLife(t, u) ==
  /\ u.stack = t.stack /\ u.active = t.active
  /\ DOMAIN u.requests = DOMAIN t.requests
  /\ \A r \in DOMAIN t.requests : AsAlive(t.requests[r], u.requests[r])

-----------------------------------------------------------------------------
(* What the operations of the model change.                                  *)

LEMMA TypedParts ==
  ASSUME NEW t, Typed(t)
  PROVE  /\ t.requests \in Seq(Requested) /\ t.stack \in Seq(Frames) /\ t.active \in Int
         /\ t.free \in Seq(Names) /\ t.nonce \in Nat \ {0} /\ t.window \in [Names -> Nat]
         /\ \A r \in DOMAIN t.requests : t.requests[r] \in Requested /\ r \in Nat
         /\ \A i \in DOMAIN t.stack : t.stack[i] \in Frames
BY DEF Typed, States

\* A step that sets one request.
LEMMA SetTyped ==
  ASSUME NEW t, Typed(t), NEW r \in DOMAIN t.requests, NEW q \in Requested
  PROVE  /\ Typed(Set(t, r, q))
         /\ Set(t, r, q).requests = [t.requests EXCEPT ![r] = q]
         /\ Set(t, r, q).stack = t.stack /\ Set(t, r, q).active = t.active
         /\ Set(t, r, q).free = t.free /\ Set(t, r, q).nonce = t.nonce
         /\ Set(t, r, q).window = t.window
<1>1. t.requests \in Seq(Requested)
  BY TypedParts
<1>2. [t.requests EXCEPT ![r] = q] \in Seq(Requested)
  BY <1>1
<1>3. Len([t.requests EXCEPT ![r] = q]) = Len(t.requests)
  BY <1>1
<1> QED
  BY <1>1, <1>2, <1>3 DEF Typed, States, Set

LEMMA SetKeeps ==
  ASSUME NEW t, NEW r, Of(t, r), NEW q \in Requested, AsAlive(t.requests[r], q)
  PROVE  Of(Set(t, r, q), r) /\ SameLife(t, Set(t, r, q))
<1>1. t.requests \in Seq(Requested) /\ Typed(t) /\ r \in DOMAIN t.requests
  BY TypedParts DEF Of
<1>2. DOMAIN [t.requests EXCEPT ![r] = q] = DOMAIN t.requests
  OBVIOUS
<1>3. \A p \in DOMAIN t.requests : AsAlive(t.requests[p], [t.requests EXCEPT ![r] = q][p])
  BY <1>1 DEF AsAlive
<1>4. /\ Typed(Set(t, r, q)) /\ Set(t, r, q).requests = [t.requests EXCEPT ![r] = q]
      /\ Set(t, r, q).stack = t.stack /\ Set(t, r, q).active = t.active
  BY <1>1, SetTyped
<1>5. DOMAIN Set(t, r, q).requests = DOMAIN t.requests
  BY <1>2, <1>4
<1>6. SameLife(t, Set(t, r, q))
  BY <1>3, <1>4, <1>5 DEF SameLife
<1> QED
  BY <1>4, <1>5, <1>6 DEF Of

LEMMA LifeTransitive ==
  ASSUME NEW t, NEW u, NEW v, SameLife(t, u), SameLife(u, v)
  PROVE  SameLife(t, v)
BY DEF SameLife, AsAlive

\* Calling a function of window, and so running a script, only gives data.
LEMMA CallKeeps ==
  ASSUME NEW t, NEW r, Of(t, r), NEW f \in Nat, NEW data \in Nat
  PROVE  Of(CallFunction(t, f, data), r) /\ SameLife(t, CallFunction(t, f, data))
<1>1. CASE f \in Ids
  <2> DEFINE q == [t.requests[f] EXCEPT !.container = data]
  <2>1. t.requests[f] \in Requested
    BY <1>1, TypedParts DEF Of
  <2>2. q \in Requested /\ AsAlive(t.requests[f], q)
    BY <2>1 DEF Requested, AsAlive
  <2>3. CallFunction(t, f, data) = Set(t, f, q)
    BY <1>1 DEF CallFunction, Set
  <2>4. Of(t, f)
    BY <1>1 DEF Of
  <2>5. Of(Set(t, f, q), f) /\ SameLife(t, Set(t, f, q))
    BY <2>2, <2>4, SetKeeps
  <2> QED
    BY <2>3, <2>5 DEF Of
<1>2. CASE f \notin Ids
  BY <1>2 DEF CallFunction, SameLife, AsAlive
<1> QED
  BY <1>1, <1>2

LEMMA RunKeeps ==
  ASSUME NEW t, NEW r, Of(t, r)
  PROVE  Of(RunScript(t, r), r) /\ SameLife(t, RunScript(t, r))
<1>1. t.requests[r].name \in Names /\ t.window \in [Names -> Nat] /\ r \in Nat
  BY TypedParts DEF Of, Requested
<1>2. t.window[t.requests[r].name] \in Nat
  BY <1>1
<1>3. CASE t.requests[r].kind.jsonp = "no"
  BY <1>3 DEF RunScript, SameLife, AsAlive
<1>4. CASE t.requests[r].kind.jsonp # "no"
  BY <1>1, <1>2, <1>4, CallKeeps DEF RunScript
<1> QED
  BY <1>3, <1>4

\* Window and the free names change without the requests.
LEMMA WindowKeeps ==
  ASSUME NEW t, NEW r, Of(t, r), NEW n \in Names, NEW f \in Nat, NEW free \in Seq(Names)
  PROVE  LET u == [t EXCEPT !.window[n] = f, !.free = free]
         IN  Of(u, r) /\ SameLife(t, u) /\ u.requests = t.requests
<1>1. /\ t.window \in [Names -> Nat] /\ t \in States
  BY TypedParts DEF Of, Typed
<1>2. [t.window EXCEPT ![n] = f] \in [Names -> Nat]
  BY <1>1
<1> DEFINE u == [t EXCEPT !.window[n] = f, !.free = free]
<1>3. u = [t EXCEPT !.window = [t.window EXCEPT ![n] = f], !.free = free]
  BY <1>1 DEF States
<1>4. /\ u \in States /\ u.requests = t.requests /\ u.stack = t.stack /\ u.active = t.active
      /\ u.nonce = t.nonce
  BY <1>1, <1>2, <1>3 DEF States
<1> QED
  BY <1>4 DEF Of, Typed, SameLife, AsAlive

LEMMA CleanUpKeeps ==
  ASSUME NEW t, NEW r, Of(t, r)
  PROVE  Of(CleanUp(t, r), r) /\ SameLife(t, CleanUp(t, r))
<1> DEFINE q == t.requests[r]
           free == IF q.kind.jsonp = "auto" THEN Append(t.free, q.name) ELSE t.free
           u == [t EXCEPT !.window[q.name] = q.overwritten, !.free = free]
           v == IF q.container # None THEN CallFunction(u, q.overwritten, q.container) ELSE u
           w == [v.requests[r] EXCEPT !.container = None, !.overwritten = None]
<1>1. q \in Requested /\ t.free \in Seq(Names) /\ t \in States
  BY TypedParts DEF Of, Typed
<1>2. q.name \in Names /\ q.overwritten \in Nat /\ q.container \in Nat
  BY <1>1 DEF Requested
<1>3. free \in Seq(Names)
  BY <1>1, <1>2
<1>4. Of(u, r) /\ SameLife(t, u)
  <2> HIDE DEF free, q
  <2> QED
    BY <1>2, <1>3, WindowKeeps
<1>5. Of(v, r) /\ SameLife(u, v)
  <2> HIDE DEF u, q
  <2>1. CASE q.container # None
    BY <1>2, <1>4, <2>1, CallKeeps
  <2>2. CASE ~(q.container # None)
    BY <1>4, <2>2 DEF SameLife, AsAlive
  <2> QED
    BY <2>1, <2>2
<1>6. v.requests[r] \in Requested /\ v \in States /\ v.requests \in Seq(Requested)
  <2> HIDE DEF v
  <2> QED
    BY <1>5, TypedParts DEF Of, Typed
<1>7. w \in Requested /\ AsAlive(v.requests[r], w)
  <2> HIDE DEF v
  <2> QED
    BY <1>6 DEF Requested, AsAlive, None
<1>8. Of(Set(v, r, w), r) /\ SameLife(v, Set(v, r, w))
  <2> HIDE DEF v, w
  <2> QED
    BY <1>5, <1>7, SetKeeps
<1>9. SameLife(t, Set(v, r, w))
  <2> HIDE DEF u, v, w
  <2> QED
    BY <1>4, <1>5, <1>8, LifeTransitive
<1>10. CleanUp(t, r) = IF q.kind.jsonp = "no" THEN t ELSE Set(v, r, w)
  <2>1. u = [t EXCEPT !.window[q.name] = q.overwritten,
                      !.free = IF q.kind.jsonp = "auto" THEN Append(@, q.name) ELSE @]
    BY <1>1 DEF States
  <2>2. Set(v, r, w) = [v EXCEPT !.requests[r].container = None, !.requests[r].overwritten = None]
    <3> HIDE DEF v, w
    <3>1. r \in DOMAIN v.requests
      BY <1>5 DEF Of
    <3>2. [v EXCEPT !.requests[r].container = None, !.requests[r].overwritten = None]
            = [v EXCEPT !.requests =
                 [v.requests EXCEPT ![r] = [@ EXCEPT !.container = None, !.overwritten = None]]]
      BY <1>6, <3>1 DEF States
    <3> QED
      BY <3>1, <3>2 DEF Set, w
  <2> QED
    BY <2>1, <2>2 DEF CleanUp
<1>11. SameLife(t, t)
  BY DEF SameLife, AsAlive
<1> HIDE DEF q, v, w
<1> QED
  BY <1>8, <1>9, <1>10, <1>11

LEMMA DropKeeps ==
  ASSUME NEW t, NEW r, Of(t, r)
  PROVE  Of(DropListener(t, r), r) /\ SameLife(t, DropListener(t, r))
<1> DEFINE q == t.requests[r]
           p == [q EXCEPT !.listens = FALSE, !.wire = IF q.kind.transport = "xhr" THEN "none" ELSE @]
<1>1. q \in Requested
  BY TypedParts DEF Of
<1>2. p \in Requested /\ AsAlive(q, p)
  BY <1>1 DEF Requested, AsAlive
<1>3. Of(Set(t, r, p), r) /\ SameLife(t, Set(t, r, p))
  <2> HIDE DEF p
  <2> QED
    BY <1>2, SetKeeps
<1>4. DropListener(t, r) = IF ~q.listens THEN t ELSE Set(t, r, p)
  BY DEF DropListener
<1>5. SameLife(t, t)
  BY DEF SameLife, AsAlive
<1> HIDE DEF p, q
<1> QED
  BY <1>3, <1>4, <1>5

LEMMA ConvertKeeps ==
  ASSUME NEW t, NEW r, Of(t, r), NEW answer
  PROVE  Of(Convert(t, r, answer), r) /\ SameLife(t, Convert(t, r, answer))
<1> DEFINE q == t.requests[r]
           u == IF q.kind.transport = "xhr" /\ answer \in {"good", "refused"} THEN RunScript(t, r) ELSE t
           response == CASE q.kind.jsonp # "no" -> u.requests[r].container
                         [] q.kind.jsonp = "no" /\ (answer = "good" \/ q.kind.transport = "script") -> r
                         [] OTHER -> None
           got == [u.requests[r] EXCEPT !.data = response,
                                        !.outcome = IF response = None THEN "error" ELSE "success"]
           emptied == [u.requests[r] EXCEPT !.outcome = "success"]
           failed == [u.requests[r] EXCEPT !.outcome = "error"]
<1>1. Of(u, r) /\ SameLife(t, u)
  BY RunKeeps DEF SameLife, AsAlive
<1>2. u.requests[r] \in Requested /\ r \in Nat
  <2> HIDE DEF u
  <2> QED
    BY <1>1, TypedParts DEF Of
<1>3. response \in Nat
  <2> HIDE DEF u, q
  <2>1. u.requests[r].container \in Nat
    BY <1>2 DEF Requested
  <2> QED
    BY <1>2, <2>1 DEF None
<1>4. /\ got \in Requested /\ AsAlive(u.requests[r], got)
      /\ emptied \in Requested /\ AsAlive(u.requests[r], emptied)
      /\ failed \in Requested /\ AsAlive(u.requests[r], failed)
  <2> HIDE DEF u, response
  <2> QED
    BY <1>2, <1>3 DEF Requested, AsAlive
<1>5. \E p \in Requested : AsAlive(u.requests[r], p) /\ Convert(t, r, answer) = Set(u, r, p)
  <2>1. Convert(t, r, answer) = CASE answer \in {"good", "bad"} -> Set(u, r, got)
                                  [] answer = "empty" -> Set(u, r, emptied)
                                  [] OTHER -> Set(u, r, failed)
    BY DEF Convert
  <2> HIDE DEF u, got, emptied, failed
  <2> QED
    BY <1>4, <2>1
<1> HIDE DEF u
<1>6. PICK p \in Requested : AsAlive(u.requests[r], p) /\ Convert(t, r, answer) = Set(u, r, p)
  BY <1>5
<1>7. Of(Set(u, r, p), r) /\ SameLife(u, Set(u, r, p))
  BY <1>1, <1>6, SetKeeps
<1> QED
  BY <1>1, <1>6, <1>7, LifeTransitive

-----------------------------------------------------------------------------
(* The stack.                                                                *)

LEMMA PushParts ==
  ASSUME NEW t, NEW r, Typed(t), r \in DOMAIN t.requests, NEW at \in Ajaxing \cup Ending
  PROVE  /\ Typed(Push(t, r, at)) /\ Push(t, r, at).requests = t.requests
         /\ Push(t, r, at).active = t.active /\ Push(t, r, at).free = t.free
         /\ Push(t, r, at).nonce = t.nonce /\ Push(t, r, at).window = t.window
         /\ Push(t, r, at).stack \in Seq(Frames)
         /\ Len(Push(t, r, at).stack) = Len(t.stack) + 1
         /\ Push(t, r, at).stack[1] = [r |-> r, at |-> at]
         /\ \A i \in DOMAIN t.stack : Push(t, r, at).stack[i + 1] = t.stack[i]
<1> DEFINE f == [r |-> r, at |-> at]
<1>1. f \in Frames /\ t.stack \in Seq(Frames)
  BY TypedParts DEF Frames
<1>2. /\ <<f>> \o t.stack \in Seq(Frames) /\ Len(<<f>> \o t.stack) = Len(t.stack) + 1
      /\ (<<f>> \o t.stack)[1] = f
      /\ \A i \in DOMAIN t.stack : (<<f>> \o t.stack)[i + 1] = t.stack[i]
  <2> HIDE DEF f
  <2> QED
    BY <1>1
<1>3. \A i \in DOMAIN (<<f>> \o t.stack) : i # 1 => i - 1 \in DOMAIN t.stack
  <2> HIDE DEF f
  <2> QED
    BY <1>1
<1>4. \A i \in DOMAIN (<<f>> \o t.stack) : (<<f>> \o t.stack)[i].r \in DOMAIN t.requests
  <2> TAKE i \in DOMAIN (<<f>> \o t.stack)
  <2>1. CASE i = 1
    BY <1>2, <2>1
  <2>2. CASE i # 1
    <3>1. i - 1 \in DOMAIN t.stack /\ (i - 1) + 1 = i
      BY <1>3, <2>2
    <3> HIDE DEF f
    <3> QED
      BY <1>2, <3>1 DEF Typed
  <2> QED
    BY <2>1, <2>2
<1> HIDE DEF f
<1>5. Push(t, r, at) = [t EXCEPT !.stack = <<f>> \o t.stack]
  BY DEF Push, f
<1>6. f = [r |-> r, at |-> at]
  BY DEF f
<1> QED
  BY <1>2, <1>4, <1>5, <1>6 DEF Typed, States

LEMMA PopParts ==
  ASSUME NEW t, Typed(t), t.stack # <<>>
  PROVE  /\ Typed(Pop(t)) /\ Pop(t).requests = t.requests /\ Pop(t).active = t.active
         /\ Pop(t).free = t.free /\ Pop(t).nonce = t.nonce /\ Pop(t).window = t.window
         /\ \A i \in DOMAIN Pop(t).stack : /\ i + 1 \in DOMAIN t.stack /\ i + 1 # 1
                                           /\ Pop(t).stack[i] = t.stack[i + 1]
         /\ \A i \in DOMAIN t.stack : i # 1 => i - 1 \in DOMAIN Pop(t).stack
         /\ 1 \in DOMAIN t.stack /\ DOMAIN t.stack \subseteq Nat
<1>1. t.stack \in Seq(Frames)
  BY TypedParts
<1>2. /\ Tail(t.stack) \in Seq(Frames) /\ 1 \in DOMAIN t.stack /\ DOMAIN t.stack \subseteq Nat
      /\ \A i \in DOMAIN Tail(t.stack) : /\ i + 1 \in DOMAIN t.stack /\ i + 1 # 1
                                         /\ Tail(t.stack)[i] = t.stack[i + 1]
      /\ \A i \in DOMAIN t.stack : i # 1 => i - 1 \in DOMAIN Tail(t.stack)
  BY <1>1
<1>3. Pop(t) = [t EXCEPT !.stack = Tail(t.stack)]
  BY DEF Pop
<1>4. /\ Pop(t) \in States /\ Pop(t).stack = Tail(t.stack)
      /\ Pop(t).requests = t.requests /\ Pop(t).active = t.active
      /\ Pop(t).free = t.free /\ Pop(t).nonce = t.nonce /\ Pop(t).window = t.window
  BY <1>2, <1>3 DEF Typed, States
<1>5. Typed(Pop(t))
  <2> DEFINE u == Pop(t)
  <2> HIDE DEF u
  <2> SUFFICES Typed(u)
    BY DEF u
  <2>1. \A i \in DOMAIN u.stack : u.stack[i].r \in DOMAIN u.requests
    <3> TAKE i \in DOMAIN u.stack
    <3>1. i + 1 \in DOMAIN t.stack /\ u.stack[i] = t.stack[i + 1] /\ u.requests = t.requests
      BY <1>2, <1>4 DEF u
    <3> HIDE DEF u
    <3> QED
      BY <3>1, Zenon DEF Typed
  <2> QED
    BY <1>4, <2>1, Zenon DEF Typed, u
<1> QED
  BY <1>2, <1>4, <1>5, Zenon

LEMMA GoOnParts ==
  ASSUME NEW t, Typed(t), t.stack # <<>>, NEW at \in Ajaxing \cup Ending
  PROVE  /\ Typed(GoOn(t, at)) /\ GoOn(t, at).requests = t.requests
         /\ GoOn(t, at).active = t.active /\ GoOn(t, at).free = t.free
         /\ GoOn(t, at).nonce = t.nonce /\ GoOn(t, at).window = t.window
         /\ DOMAIN GoOn(t, at).stack = DOMAIN t.stack /\ 1 \in DOMAIN t.stack
         /\ \A i \in DOMAIN t.stack :
              GoOn(t, at).stack[i] = IF i = 1 THEN [r |-> t.stack[1].r, at |-> at] ELSE t.stack[i]
<1>1. t.stack \in Seq(Frames) /\ 1 \in DOMAIN t.stack
  BY TypedParts
<1> DEFINE f == [r |-> t.stack[1].r, at |-> at]
           stack == [t.stack EXCEPT ![1] = f]
<1>2. t.stack[1] \in Frames
  BY <1>1
<1>3. f \in Frames /\ f = [t.stack[1] EXCEPT !.at = at] /\ f.r = t.stack[1].r
  BY <1>2 DEF Frames
<1>4. stack \in Seq(Frames) /\ DOMAIN stack = DOMAIN t.stack
  <2> HIDE DEF f
  <2> QED
    BY <1>1, <1>3
<1>5. GoOn(t, at) = [t EXCEPT !.stack = stack]
  <2>1. GoOn(t, at) = [t EXCEPT !.stack = [t.stack EXCEPT ![1] = [t.stack[1] EXCEPT !.at = at]]]
    BY <1>1 DEF GoOn
  <2> QED
    BY <1>3, <2>1
<1>6. \A i \in DOMAIN t.stack : stack[i] = IF i = 1 THEN f ELSE t.stack[i]
  <2> HIDE DEF f
  <2> QED
    BY <1>1
<1>7. \A i \in DOMAIN t.stack : stack[i].r = t.stack[i].r
  <2> HIDE DEF f, stack
  <2> QED
    BY <1>3, <1>6
<1> HIDE DEF stack
<1>8. /\ GoOn(t, at) \in States /\ GoOn(t, at).requests = t.requests
      /\ GoOn(t, at).active = t.active /\ GoOn(t, at).free = t.free
      /\ GoOn(t, at).nonce = t.nonce /\ GoOn(t, at).window = t.window
      /\ GoOn(t, at).stack = stack
  BY <1>4, <1>5 DEF Typed, States
<1>9. Typed(GoOn(t, at))
  BY <1>4, <1>7, <1>8 DEF Typed
<1> QED
  BY <1>1, <1>4, <1>6, <1>8, <1>9

-----------------------------------------------------------------------------
(* The life of a request.                                                    *)

\* A request has ended once when it is over, and its timer is gone then.
EndsFit(q) == q.ends = (IF q.state = 2 THEN 1 ELSE 0) /\ (q.state = 2 => ~q.timer)

\* While ajax() is in a function of the page, its request is not sent; it may have
\* been aborted, but not in a function for ajaxSend.
AtFits(at, q) ==
  /\ at \in Ajaxing => q.state # 1
  /\ at = "send" => q.state = 0
  /\ at = "prefilter" => ~q.globals
  /\ at \in Ending => q.state = 2

\* Two calls for one request: done() in a function that ajax() has called.
FramesApart(f, g) == f.r = g.r => (f.at \in Ajaxing <=> g.at \in Ending)

Ends(t, r) == \E i \in DOMAIN t.stack : t.stack[i].r = r /\ t.stack[i].at \in Ending
Counts(t, r) == t.requests[r].globals /\ (t.requests[r].state < 2 \/ Ends(t, r))
Counted(t) == {r \in DOMAIN t.requests : Counts(t, r)}

Lives(t) ==
  /\ \A r \in DOMAIN t.requests : EndsFit(t.requests[r])
  /\ \A i \in DOMAIN t.stack : AtFits(t.stack[i].at, t.requests[t.stack[i].r])
  /\ \A i, j \in DOMAIN t.stack : i # j => FramesApart(t.stack[i], t.stack[j])
LifeInv(t) == Typed(t) /\ Lives(t) /\ t.active = Cardinality(Counted(t))

LEMMA CountedFinite ==
  ASSUME NEW t, Typed(t)
  PROVE  IsFiniteSet(Counted(t))
<1>1. t.requests \in Seq(Requested)
  BY TypedParts
<1>2. DOMAIN t.requests = 1 .. Len(t.requests) /\ Len(t.requests) \in Nat
  BY <1>1
<1>3. IsFiniteSet(1 .. Len(t.requests))
  <2>1. 1 \in Int /\ Len(t.requests) \in Int
    BY <1>2
  <2> QED
    BY <2>1, FS_Interval, Zenon
<1>4. Counted(t) \subseteq 1 .. Len(t.requests)
  BY <1>2 DEF Counted
<1> QED
  BY <1>3, <1>4, FS_Subset

LEMMA SameLifeKeeps ==
  ASSUME NEW t, NEW u, LifeInv(t), Typed(u), SameLife(t, u)
  PROVE  LifeInv(u)
<1>1. \A r \in DOMAIN t.requests : Counts(u, r) = Counts(t, r)
  BY DEF Counts, Ends, SameLife, AsAlive
<1>2. Counted(u) = Counted(t)
  BY <1>1 DEF Counted, SameLife
<1>3. \A r \in DOMAIN u.requests : EndsFit(u.requests[r])
  BY DEF LifeInv, Lives, SameLife, AsAlive, EndsFit
<1>4. \A i \in DOMAIN u.stack : AtFits(u.stack[i].at, u.requests[u.stack[i].r])
  <2> TAKE i \in DOMAIN u.stack
  <2>1. i \in DOMAIN t.stack /\ u.stack[i] = t.stack[i] /\ t.stack[i].r \in DOMAIN t.requests
    BY DEF SameLife, LifeInv, Typed
  <2> QED
    BY <2>1 DEF SameLife, AsAlive, AtFits, LifeInv, Lives
<1>5. \A i, j \in DOMAIN u.stack : i # j => FramesApart(u.stack[i], u.stack[j])
  BY DEF SameLife, LifeInv, Lives
<1> QED
  BY <1>2, <1>3, <1>4, <1>5 DEF LifeInv, Lives, SameLife

LEMMA FinishedFits ==
  ASSUME NEW q \in Requested, q.ends = 0
  PROVE  /\ Finished(q) \in Requested /\ Finished(q).state = 2
         /\ Finished(q).globals = q.globals /\ EndsFit(Finished(q))
<1> DEFINE p == [q EXCEPT !.state = 2]
<1>1. p \in Requested /\ p.state = 2 /\ p.globals = q.globals /\ p.ends = q.ends
  BY DEF Requested
<1>2. Finished(q) = [p EXCEPT !.timer = FALSE, !.transport = FALSE, !.ends = 1]
  BY DEF Finished
<1> DEFINE w == [p EXCEPT !.timer = FALSE, !.transport = FALSE, !.ends = 1]
<1> HIDE DEF p
<1>3. w \in Requested /\ w.state = 2 /\ w.globals = q.globals /\ w.ends = 1 /\ w.timer = FALSE
  <2> DEFINE a == [p EXCEPT !.timer = FALSE]
             b == [a EXCEPT !.transport = FALSE]
  <2>1. a \in Requested /\ a.state = 2 /\ a.globals = q.globals /\ a.timer = FALSE
    BY <1>1 DEF Requested
  <2>2. w = [b EXCEPT !.ends = 1]
    OBVIOUS
  <2> HIDE DEF a, w
  <2>3. b \in Requested /\ b.state = 2 /\ b.globals = q.globals /\ b.timer = FALSE
    BY <2>1 DEF Requested
  <2> HIDE DEF b
  <2> QED
    BY <2>2, <2>3 DEF Requested
<1>4. EndsFit(w)
  <2> HIDE DEF w
  <2> QED
    BY <1>3 DEF EndsFit
<1> HIDE DEF w
<1> QED
  BY <1>2, <1>3, <1>4 DEF w

LEMMA FinishKeeps ==
  ASSUME NEW t, NEW r, LifeInv(t), r \in DOMAIN t.requests, t.requests[r].state # 2,
         \A i \in DOMAIN t.stack : t.stack[i].r = r => t.stack[i].at # "send",
         NEW v, Typed(v), SameLife(Set(t, r, Finished(t.requests[r])), v)
  PROVE  LifeInv(Push(v, r, "settled"))
<1> DEFINE q == t.requests[r]
           w == Push(v, r, "settled")
<1>1. q \in Requested /\ Typed(t) /\ q.ends = 0 /\ t.requests \in Seq(Requested)
  BY TypedParts DEF LifeInv, Lives, EndsFit
<1>2. /\ Finished(q) \in Requested /\ Finished(q).state = 2 /\ Finished(q).globals = q.globals
      /\ EndsFit(Finished(q))
  BY <1>1, FinishedFits
<1>3. /\ DOMAIN v.requests = DOMAIN t.requests /\ v.stack = t.stack /\ v.active = t.active
      /\ AsAlive(Finished(q), v.requests[r])
      /\ \A p \in DOMAIN t.requests : p # r => AsAlive(t.requests[p], v.requests[p])
  <2> DEFINE u == Set(t, r, Finished(q))
  <2>1. /\ u.requests = [t.requests EXCEPT ![r] = Finished(q)]
        /\ u.stack = t.stack /\ u.active = t.active
    BY <1>1, <1>2, SetTyped
  <2>2. /\ DOMAIN u.requests = DOMAIN t.requests /\ u.requests[r] = Finished(q)
        /\ \A p \in DOMAIN t.requests : p # r => u.requests[p] = t.requests[p]
    <3> HIDE DEF u, q
    <3> QED
      BY <2>1
  <2>3. SameLife(u, v)
    OBVIOUS
  <2> HIDE DEF u, q
  <2> QED
    BY <2>1, <2>2, <2>3 DEF SameLife
<1>4. /\ Typed(w) /\ w.requests = v.requests /\ w.active = t.active
      /\ Len(w.stack) = Len(t.stack) + 1 /\ w.stack \in Seq(Frames)
      /\ w.stack[1] = [r |-> r, at |-> "settled"]
      /\ \A i \in DOMAIN t.stack : w.stack[i + 1] = t.stack[i]
  BY <1>3, PushParts DEF Ending
<1>5. t.stack \in Seq(Frames)
  BY <1>1, TypedParts
<1>6. \A i \in DOMAIN w.stack : i # 1 => i - 1 \in DOMAIN t.stack /\ w.stack[i] = t.stack[i - 1]
  BY <1>4, <1>5
<1>7. \A i \in DOMAIN t.stack : i + 1 \in DOMAIN w.stack /\ 1 \in DOMAIN w.stack
  BY <1>4, <1>5
<1>8. 1 \in DOMAIN w.stack
  BY <1>4, <1>5
<1> HIDE DEF w, q
<1>9. \A p \in DOMAIN w.requests : EndsFit(w.requests[p])
  BY <1>2, <1>3, <1>4 DEF AsAlive, EndsFit, LifeInv, Lives
<1>10. \A i \in DOMAIN t.stack : t.stack[i].r = r => t.stack[i].at \in Ajaxing
  <2>1. \A i \in DOMAIN t.stack : t.stack[i].r = r => t.stack[i].at \notin Ending
    BY DEF LifeInv, Lives, AtFits
  <2> QED
    BY <1>1, <2>1, TypedParts DEF Frames
<1>11. \A i \in DOMAIN w.stack : AtFits(w.stack[i].at, w.requests[w.stack[i].r])
  <2> TAKE i \in DOMAIN w.stack
  <2>1. CASE i = 1
    BY <1>2, <1>3, <1>4, <2>1 DEF AtFits, AsAlive, Ajaxing
  <2>2. CASE i # 1
    <3> DEFINE f == t.stack[i - 1]
    <3>1. i - 1 \in DOMAIN t.stack /\ w.stack[i] = f /\ f.r \in DOMAIN t.requests
      BY <1>1, <1>6, <2>2 DEF Typed
    <3>2. AtFits(f.at, t.requests[f.r])
      BY <3>1 DEF LifeInv, Lives
    <3>3. CASE f.r = r
      <4>1. f.at # "send"
        BY <3>1, <3>3
      <4>2. f.at \in Ajaxing /\ f.at \notin Ending
        BY <1>10, <3>1, <3>3 DEF Ajaxing, Ending
      <4>3. f.at = "prefilter" => ~q.globals
        BY <3>2, <3>3, Zenon DEF AtFits, q
      <4>4. w.requests[r].state = 2 /\ w.requests[r].globals = q.globals
        BY <1>2, <1>3, <1>4 DEF AsAlive
      <4> QED
        BY <3>1, <3>3, <4>1, <4>2, <4>3, <4>4 DEF AtFits
    <3>4. CASE f.r # r
      <4>1. AsAlive(t.requests[f.r], w.requests[f.r])
        BY <1>3, <1>4, <3>1, <3>4
      <4> QED
        BY <3>1, <3>2, <4>1, Zenon DEF AtFits, AsAlive
    <3> QED
      BY <3>3, <3>4
  <2> QED
    BY <2>1, <2>2
<1>12. \A i, j \in DOMAIN w.stack : i # j => FramesApart(w.stack[i], w.stack[j])
  <2>1. \A i \in DOMAIN w.stack : i # 1 =>
           FramesApart(w.stack[1], w.stack[i]) /\ FramesApart(w.stack[i], w.stack[1])
    <3> TAKE i \in DOMAIN w.stack
    <3> HAVE i # 1
    <3>1. w.stack[1].r = r /\ w.stack[1].at \in Ending /\ w.stack[1].at \notin Ajaxing
      BY <1>4 DEF Ajaxing, Ending
    <3>2. w.stack[i].r = r => w.stack[i].at \in Ajaxing /\ w.stack[i].at \notin Ending
      BY <1>6, <1>10 DEF Ajaxing, Ending
    <3> QED
      BY <3>1, <3>2, Zenon DEF FramesApart
  <2>2. \A i, j \in DOMAIN w.stack : i # 1 /\ j # 1 /\ i # j =>
           FramesApart(w.stack[i], w.stack[j])
    <3> TAKE i, j \in DOMAIN w.stack
    <3>1. w.stack \in Seq(Frames)
      BY <1>4
    <3>2. i \in Int /\ j \in Int
      BY <3>1
    <3> QED
      BY <1>6, <3>2 DEF LifeInv, Lives
  <2> QED
    BY <2>1, <2>2
<1>13. \A p \in DOMAIN t.requests : Counts(w, p) = Counts(t, p)
  <2> TAKE p \in DOMAIN t.requests
  <2>1. CASE p = r
    <3>1. Ends(w, r)
      BY <1>4, <1>8 DEF Ends, Ending
    <3>2. q.state \in 0 .. 2 /\ q.state # 2
      BY <1>1 DEF Requested, q
    <3>3. t.requests[r].state < 2
      BY <3>2 DEF q
    <3> QED
      BY <1>2, <1>3, <1>4, <2>1, <3>1, <3>3 DEF Counts, AsAlive, q
  <2>2. CASE p # r
    <3>1. Ends(w, p) <=> Ends(t, p)
      <4>1. ASSUME Ends(w, p) PROVE Ends(t, p)
        <5>1. PICK i \in DOMAIN w.stack : w.stack[i].r = p /\ w.stack[i].at \in Ending
          BY <4>1 DEF Ends
        <5>2. i # 1
          BY <1>4, <2>2, <5>1
        <5> QED
          BY <1>6, <5>1, <5>2 DEF Ends
      <4>2. ASSUME Ends(t, p) PROVE Ends(w, p)
        BY <1>4, <1>7, <4>2 DEF Ends
      <4> QED
        BY <4>1, <4>2
    <3> QED
      BY <1>3, <1>4, <2>2, <3>1 DEF Counts, AsAlive
  <2> QED
    BY <2>1, <2>2
<1>14. Counted(w) = Counted(t)
  BY <1>3, <1>4, <1>13 DEF Counted
<1> QED
  BY <1>4, <1>9, <1>11, <1>12, <1>14 DEF LifeInv, Lives, w

LEMMA DoneKeeps ==
  ASSUME NEW t, NEW r, LifeInv(t), Of(t, r), NEW answer,
         \A i \in DOMAIN t.stack : t.stack[i].r = r => t.stack[i].at # "send"
  PROVE  LifeInv(Done(t, r, answer))
<1> DEFINE q == t.requests[r]
           u == Set(t, r, Finished(q))
           v == CleanUp(Convert(u, r, answer), r)
<1>1. CASE q.state = 2
  BY <1>1 DEF Done
<1>2. CASE q.state # 2
  <2>1. q \in Requested /\ q.ends = 0 /\ r \in DOMAIN t.requests
    BY <1>2, TypedParts DEF LifeInv, Lives, EndsFit, Of
  <2>2. Finished(q) \in Requested
    BY <2>1, FinishedFits
  <2>3. Of(u, r)
    <3>1. Typed(u) /\ u.requests = [t.requests EXCEPT ![r] = Finished(q)]
      BY <2>1, <2>2, SetTyped DEF Of
    <3> HIDE DEF u
    <3> QED
      BY <3>1 DEF Of
  <2>4. Of(v, r) /\ SameLife(u, v)
    <3>1. Of(Convert(u, r, answer), r) /\ SameLife(u, Convert(u, r, answer))
      <4> HIDE DEF u
      <4> QED
        BY <2>3, ConvertKeeps
    <3> HIDE DEF u
    <3> QED
      BY <3>1, CleanUpKeeps, LifeTransitive
  <2>5. Done(t, r, answer) = Push(v, r, "settled")
    BY <1>2, Zenon DEF Done
  <2> HIDE DEF v
  <2> QED
    BY <1>2, <2>1, <2>4, <2>5, FinishKeeps DEF Of
<1> QED
  BY <1>1, <1>2

LEMMA AbortKeeps ==
  ASSUME NEW t, NEW r, LifeInv(t), Of(t, r), NEW text,
         \A i \in DOMAIN t.stack : t.stack[i].r = r => t.stack[i].at # "send"
  PROVE  LifeInv(AbortRequest(t, r, text))
<1> DEFINE u == IF t.requests[r].transport THEN DropListener(t, r) ELSE t
<1>1. Of(u, r) /\ SameLife(t, u)
  BY DropKeeps DEF SameLife, AsAlive
<1>2. AbortRequest(t, r, text) = Done(u, r, text)
  BY DEF AbortRequest
<1> HIDE DEF u
<1>3. LifeInv(u) /\ u.stack = t.stack
  BY <1>1, SameLifeKeeps DEF Of, SameLife
<1> QED
  BY <1>1, <1>2, <1>3, DoneKeeps

\* ajax() leaves a request.
LEMMA PopKeeps ==
  ASSUME NEW t, LifeInv(t), t.stack # <<>>, t.stack[1].at \in Ajaxing
  PROVE  /\ LifeInv(Pop(t)) /\ Pop(t).requests = t.requests
         /\ \A i \in DOMAIN Pop(t).stack :
              Pop(t).stack[i].r = t.stack[1].r => Pop(t).stack[i].at \in Ending
<1> DEFINE u == Pop(t)
<1>1. /\ Typed(u) /\ u.requests = t.requests /\ u.active = t.active
      /\ \A i \in DOMAIN u.stack : /\ i + 1 \in DOMAIN t.stack /\ i + 1 # 1
                                   /\ u.stack[i] = t.stack[i + 1]
      /\ \A i \in DOMAIN t.stack : i # 1 => i - 1 \in DOMAIN u.stack
      /\ 1 \in DOMAIN t.stack /\ DOMAIN t.stack \subseteq Nat
      /\ u.stack \in Seq(Frames)
  BY PopParts, TypedParts DEF LifeInv
<1> HIDE DEF u
<1>2. \A i \in DOMAIN u.stack : u.stack[i].r = t.stack[1].r => u.stack[i].at \in Ending
  BY <1>1 DEF LifeInv, Lives, FramesApart
<1>3. Lives(u)
  <2>1. \A i, j \in DOMAIN u.stack : i # j => FramesApart(u.stack[i], u.stack[j])
    <3> SUFFICES ASSUME NEW i \in DOMAIN u.stack, NEW j \in DOMAIN u.stack, i # j
                 PROVE  FramesApart(u.stack[i], u.stack[j])
      OBVIOUS
    <3>1. u.stack \in Seq(Frames)
      BY <1>1, Zenon
    <3>2. i \in Int /\ j \in Int
      BY <3>1
    <3>3. i + 1 # j + 1
      BY <3>2
    <3> QED
      BY <1>1, <3>3 DEF LifeInv, Lives
  <2>2. \A i \in DOMAIN u.stack : AtFits(u.stack[i].at, u.requests[u.stack[i].r])
    BY <1>1 DEF LifeInv, Lives
  <2> QED
    BY <1>1, <2>1, <2>2 DEF LifeInv, Lives
<1>4. \A r \in DOMAIN t.requests : Ends(u, r) <=> Ends(t, r)
  <2> TAKE r \in DOMAIN t.requests
  <2>1. ASSUME Ends(u, r) PROVE Ends(t, r)
    BY <1>1, <2>1 DEF Ends
  <2>2. ASSUME Ends(t, r) PROVE Ends(u, r)
    <3>1. PICK i \in DOMAIN t.stack : t.stack[i].r = r /\ t.stack[i].at \in Ending
      BY <2>2 DEF Ends
    <3>2. i # 1
      BY <3>1 DEF Ajaxing, Ending
    <3>3. i - 1 \in DOMAIN u.stack /\ (i - 1) + 1 = i
      BY <1>1, <3>2
    <3>4. u.stack[i - 1] = t.stack[i]
      BY <1>1, <3>3
    <3> QED
      BY <3>1, <3>3, <3>4 DEF Ends
  <2> QED
    BY <2>1, <2>2
<1>5. Counted(u) = Counted(t)
  BY <1>1, <1>4 DEF Counted, Counts
<1> QED
  BY <1>1, <1>2, <1>3, <1>5 DEF LifeInv, u

\* ajax() or done() goes on to other functions of the page.
LEMMA GoOnKeeps ==
  ASSUME NEW t, LifeInv(t), t.stack # <<>>, NEW at,
         \/ at \in Ajaxing /\ t.stack[1].at \in Ajaxing
         \/ at \in Ending /\ t.stack[1].at \in Ending,
         AtFits(at, t.requests[t.stack[1].r])
  PROVE  LifeInv(GoOn(t, at)) /\ GoOn(t, at).requests = t.requests
<1> DEFINE u == GoOn(t, at)
<1>1. /\ Typed(u) /\ u.requests = t.requests /\ u.active = t.active
      /\ DOMAIN u.stack = DOMAIN t.stack /\ 1 \in DOMAIN t.stack
      /\ \A i \in DOMAIN t.stack :
           u.stack[i] = IF i = 1 THEN [r |-> t.stack[1].r, at |-> at] ELSE t.stack[i]
  BY GoOnParts DEF LifeInv
<1>2. /\ u.stack[1].r = t.stack[1].r /\ u.stack[1].at = at
      /\ \A i \in DOMAIN t.stack : i # 1 => u.stack[i] = t.stack[i]
  <2> HIDE DEF u
  <2> QED
    BY <1>1
<1>9. /\ at \in Ajaxing <=> t.stack[1].at \in Ajaxing
      /\ at \in Ending <=> t.stack[1].at \in Ending
  BY DEF Ajaxing, Ending
<1> HIDE DEF u
<1>3. Lives(u)
  <2>1. \A i \in DOMAIN u.stack : AtFits(u.stack[i].at, u.requests[u.stack[i].r])
    <3> TAKE i \in DOMAIN u.stack
    <3>1. CASE i = 1
      BY <1>9, <1>1, <1>2, <3>1 DEF AtFits
    <3>2. CASE i # 1
      BY <1>9, <1>1, <3>2 DEF LifeInv, Lives
    <3> QED
      BY <3>1, <3>2
  <2>2. \A i, j \in DOMAIN u.stack : i # j => FramesApart(u.stack[i], u.stack[j])
    BY <1>9, <1>1, <1>2 DEF LifeInv, Lives, FramesApart
  <2> QED
    BY <1>1, <2>1, <2>2 DEF LifeInv, Lives
<1>4. \A r \in DOMAIN t.requests : Ends(u, r) <=> Ends(t, r)
  BY <1>9, <1>1, <1>2 DEF Ends
<1>5. Counted(u) = Counted(t)
  BY <1>1, <1>4 DEF Counted, Counts
<1> QED
  BY <1>1, <1>3, <1>5 DEF LifeInv, u

-----------------------------------------------------------------------------
(* The steps.                                                                *)

LEMMA InvOf ==
  ASSUME LifeInv(s)
  PROVE  /\ \A r \in Ids : Of(s, r) /\ s.requests[r] \in Requested
         /\ s.stack # <<>> => /\ Of(s, Top) /\ s.requests[Top] \in Requested
                              /\ 1 \in DOMAIN s.stack
                              /\ AtFits(s.stack[1].at, s.requests[Top])
<1>1. Typed(s) /\ s.stack \in Seq(Frames)
  BY TypedParts DEF LifeInv
<1>2. \A r \in Ids : Of(s, r) /\ s.requests[r] \in Requested
  BY <1>1, TypedParts DEF Of, Ids
<1>3. s.stack # <<>> => 1 \in DOMAIN s.stack
  BY <1>1
<1> QED
  BY <1>1, <1>2, <1>3 DEF LifeInv, Lives, Typed, Top, Ids

\* A request of which done() is not at work fires its first global event.
LEMMA GlobalsKeep ==
  ASSUME NEW t, NEW r, LifeInv(t), r \in DOMAIN t.requests, NEW b \in BOOLEAN,
         t.requests[r].state = 0, ~t.requests[r].globals,
         \A i \in DOMAIN t.stack : t.stack[i].r = r => t.stack[i].at # "prefilter"
  PROVE  LifeInv([t EXCEPT !.requests[r].globals = b, !.active = @ + IF b THEN 1 ELSE 0])
<1> DEFINE q == [t.requests[r] EXCEPT !.globals = b]
           v == Set(t, r, q)
           active == t.active + (IF b THEN 1 ELSE 0)
           u == [v EXCEPT !.active = active]
<1>1. t.requests[r] \in Requested /\ Typed(t) /\ t.requests \in Seq(Requested) /\ t.active \in Int
  BY TypedParts DEF LifeInv
<1>2. /\ q \in Requested /\ q.globals = b /\ q.state = 0
      /\ q.ends = t.requests[r].ends /\ q.timer = t.requests[r].timer
  <2> DEFINE o == t.requests[r]
  <2>1. o \in Requested /\ o.state = 0 /\ q = [o EXCEPT !.globals = b]
    BY <1>1
  <2> HIDE DEF q, o
  <2>2. q \in Requested /\ q.globals = b /\ q.state = 0 /\ q.ends = o.ends /\ q.timer = o.timer
    BY <2>1 DEF Requested
  <2> QED
    BY <2>2 DEF o
<1>3. /\ Typed(v) /\ v.requests = [t.requests EXCEPT ![r] = q] /\ v.stack = t.stack
      /\ v.active = t.active
  <2> HIDE DEF q
  <2> QED
    BY <1>1, <1>2, SetTyped
<1>4. u = [t EXCEPT !.requests[r].globals = b, !.active = @ + IF b THEN 1 ELSE 0]
  BY DEF Set
<1>5. active \in Int
  BY <1>1
<1>6. /\ Typed(u) /\ u.requests = [t.requests EXCEPT ![r] = q] /\ u.stack = t.stack
      /\ u.active = active
  <2> HIDE DEF v, q, active
  <2> QED
    BY <1>3, <1>5 DEF Typed, States
<1> HIDE DEF v
<1>7. /\ DOMAIN u.requests = DOMAIN t.requests /\ u.requests[r] = q
      /\ \A p \in DOMAIN t.requests : p # r => u.requests[p] = t.requests[p]
  <2> HIDE DEF u, q
  <2> QED
    BY <1>6
<1> HIDE DEF u, q
<1>8. Lives(u)
  <2>1. \A p \in DOMAIN u.requests : EndsFit(u.requests[p])
    BY <1>2, <1>7 DEF LifeInv, Lives, EndsFit
  <2>2. \A i \in DOMAIN u.stack : AtFits(u.stack[i].at, u.requests[u.stack[i].r])
    <3> TAKE i \in DOMAIN u.stack
    <3>1. t.stack[i].r \in DOMAIN t.requests /\ AtFits(t.stack[i].at, t.requests[t.stack[i].r])
      BY <1>1, <1>6 DEF LifeInv, Lives, Typed
    <3>2. CASE t.stack[i].r = r
      BY <1>2, <1>6, <1>7, <3>1, <3>2 DEF AtFits
    <3>3. CASE t.stack[i].r # r
      BY <1>6, <1>7, <3>1, <3>3
    <3> QED
      BY <3>2, <3>3
  <2> QED
    BY <1>6, <2>1, <2>2 DEF LifeInv, Lives
<1>9. \A p \in DOMAIN t.requests : p # r => (Counts(u, p) <=> Counts(t, p))
  BY <1>6, <1>7 DEF Counts, Ends
<1>10. (Counts(u, r) <=> b) /\ ~Counts(t, r)
  BY <1>2, <1>7 DEF Counts
<1>11. Counted(u) = IF b THEN Counted(t) \cup {r} ELSE Counted(t)
  BY <1>7, <1>9, <1>10 DEF Counted
<1>12. r \notin Counted(t) /\ IsFiniteSet(Counted(t))
  BY <1>1, <1>10, CountedFinite DEF Counted
<1>13. Cardinality(Counted(t) \cup {r}) = Cardinality(Counted(t)) + 1
  BY <1>12, FS_AddElement
<1>14. u.active = Cardinality(Counted(u))
  BY <1>1, <1>6, <1>11, <1>13 DEF LifeInv
<1>15. LifeInv(u)
  BY <1>6, <1>8, <1>14 DEF LifeInv
<1> QED
  BY <1>4, <1>15

LEMMA PrefiltersStep ==
  ASSUME LifeInv(s), AfterPrefilters
  PROVE  LifeInv(s')
<1> DEFINE q == s.requests[Top]
           t == GoOn(s, "before")
           b == FiresGlobals(q.kind)
           u == [t EXCEPT !.requests[Top].globals = b, !.active = @ + IF b THEN 1 ELSE 0]
<1>1. /\ s.stack # <<>> /\ s.stack[1].at = "prefilter" /\ Of(s, Top) /\ q \in Requested
      /\ AtFits(s.stack[1].at, q) /\ s.stack[1].r = Top
  BY InvOf DEF AfterPrefilters, Waits, Top
<1>2. s' = IF q.state = 2 THEN Pop(s) ELSE u
  BY DEF AfterPrefilters
<1>3. CASE q.state = 2
  BY <1>1, <1>2, <1>3, PopKeeps DEF Ajaxing
<1>4. CASE q.state # 2
  <2>1. q.state \in 0 .. 2 /\ q.state # 1 /\ ~q.globals
    BY <1>1 DEF AtFits, Ajaxing, Requested
  <2>2. q.state = 0
    BY <1>4, <2>1
  <2>3. AtFits("before", s.requests[s.stack[1].r])
    BY <1>1, <2>2 DEF AtFits, Ending, Top
  <2>4. LifeInv(t) /\ t.requests = s.requests
    <3> DEFINE at == "before"
    <3>1. at \in Ajaxing /\ s.stack[1].at \in Ajaxing
      BY <1>1 DEF Ajaxing
    <3>2. AtFits(at, s.requests[s.stack[1].r]) /\ t = GoOn(s, at)
      BY <2>3
    <3> HIDE DEF at, t, q
    <3> QED
      BY <1>1, <3>1, <3>2, GoOnKeeps
  <2>5. \A i \in DOMAIN t.stack : t.stack[i].r = Top => t.stack[i].at # "prefilter"
    <3>1. /\ DOMAIN t.stack = DOMAIN s.stack /\ 1 \in DOMAIN s.stack
          /\ \A i \in DOMAIN s.stack :
               t.stack[i] = IF i = 1 THEN [r |-> s.stack[1].r, at |-> "before"] ELSE s.stack[i]
      BY <1>1, GoOnParts DEF LifeInv, Ajaxing
    <3>2. \A i \in DOMAIN s.stack : i # 1 => FramesApart(s.stack[1], s.stack[i])
      BY <3>1 DEF LifeInv, Lives
    <3> HIDE DEF t
    <3> SUFFICES ASSUME NEW i \in DOMAIN s.stack
                 PROVE  t.stack[i].r = Top => t.stack[i].at # "prefilter"
      BY <3>1, Zenon
    <3>3. CASE i = 1
      BY <3>1, <3>3
    <3>4. CASE i # 1
      <4>1. t.stack[i] = s.stack[i] /\ FramesApart(s.stack[1], s.stack[i])
        BY <3>1, <3>2, <3>4
      <4> QED
        BY <1>1, <4>1 DEF FramesApart, Ajaxing, Ending
    <3> QED
      BY <3>3, <3>4
  <2>6. b \in BOOLEAN /\ Top \in DOMAIN t.requests
    BY <1>1, <2>4 DEF FiresGlobals, Of
  <2>7. t.requests[Top].state = 0 /\ ~t.requests[Top].globals
    BY <2>1, <2>2, <2>4
  <2> HIDE DEF t, b, q
  <2>8. LifeInv(u)
    BY <2>4, <2>5, <2>6, <2>7, GlobalsKeep
  <2> QED
    BY <1>2, <1>4, <2>8
<1> QED
  BY <1>3, <1>4

LEMMA BeforeSendStep ==
  ASSUME LifeInv(s), NEW vetoes \in BOOLEAN, AfterBeforeSend(vetoes)
  PROVE  LifeInv(s')
<1> DEFINE q == s.requests[Top]
           t == GoOn(s, "send")
           p == [q EXCEPT !.transport = TRUE]
<1>1. /\ s.stack # <<>> /\ s.stack[1].at = "before" /\ Of(s, Top) /\ q \in Requested
      /\ AtFits(s.stack[1].at, q) /\ s.stack[1].r = Top
  BY InvOf DEF AfterBeforeSend, Waits, Top
<1>2. "send" \in Ajaxing /\ s.stack[1].at \in Ajaxing
  BY <1>1 DEF Ajaxing
<1>3. \/ s' = AbortRequest(Pop(s), Top, "canceled")
      \/ s' = Done(Pop(s), Top, "failed")
      \/ q.state # 2 /\ s' = [t EXCEPT !.requests[Top].transport = TRUE]
  <2>1. CASE vetoes \/ q.state = 2
    BY <2>1 DEF AfterBeforeSend
  <2>2. CASE ~vetoes /\ q.state # 2 /\ q.kind.transport = "none"
    BY <2>2 DEF AfterBeforeSend
  <2>3. CASE ~vetoes /\ q.state # 2 /\ q.kind.transport # "none"
    BY <2>3 DEF AfterBeforeSend
  <2> QED
    BY <2>1, <2>2, <2>3
<1>4. /\ LifeInv(Pop(s)) /\ Of(Pop(s), Top)
      /\ \A i \in DOMAIN Pop(s).stack : Pop(s).stack[i].r = Top => Pop(s).stack[i].at # "send"
  <2>1. /\ LifeInv(Pop(s)) /\ Pop(s).requests = s.requests
        /\ \A i \in DOMAIN Pop(s).stack : Pop(s).stack[i].r = Top => Pop(s).stack[i].at \in Ending
    BY <1>1, <1>2, PopKeeps
  <2> QED
    BY <1>1, <2>1 DEF LifeInv, Of, Ending
<1>5. LifeInv(AbortRequest(Pop(s), Top, "canceled"))
  BY <1>4, AbortKeeps
<1>6. LifeInv(Done(Pop(s), Top, "failed"))
  BY <1>4, DoneKeeps
<1>7. ASSUME q.state # 2
      PROVE  LifeInv([t EXCEPT !.requests[Top].transport = TRUE])
  <2>1. q.state = 0
    BY <1>1, <1>2, <1>7 DEF AtFits, Requested
  <2>2. AtFits("send", s.requests[s.stack[1].r])
    BY <1>1, <2>1 DEF AtFits, Ending, Top
  <2>3. LifeInv(t) /\ t.requests = s.requests
    <3> DEFINE at == "send"
    <3>1. at \in Ajaxing
      BY DEF Ajaxing
    <3>2. AtFits(at, s.requests[s.stack[1].r]) /\ t = GoOn(s, at)
      BY <2>2
    <3> HIDE DEF at, t, q
    <3> QED
      BY <1>1, <1>2, <3>1, <3>2, GoOnKeeps
  <2>4. Of(t, Top) /\ t.requests[Top] = q
    BY <1>1, <2>3 DEF Of, LifeInv
  <2>5. p \in Requested /\ AsAlive(q, p)
    <3> HIDE DEF q
    <3> QED
      BY <1>1 DEF Requested, AsAlive
  <2>6. [t EXCEPT !.requests[Top].transport = TRUE] = Set(t, Top, p)
    BY <2>3 DEF Set
  <2> HIDE DEF t, p, q
  <2>7. LifeInv(Set(t, Top, p))
    BY <2>3, <2>4, <2>5, SetKeeps, SameLifeKeeps DEF Of
  <2> QED
    BY <2>6, <2>7
<1> QED
  BY <1>3, <1>5, <1>6, <1>7

\* A request of which nobody is in a function is sent.
LEMMA SentKeeps ==
  ASSUME NEW t, NEW r, LifeInv(t), r \in DOMAIN t.requests, NEW b \in BOOLEAN,
         t.requests[r].state = 0,
         \A i \in DOMAIN t.stack : t.stack[i].r = r => t.stack[i].at \in Ending
  PROVE  LifeInv(Set(t, r, [t.requests[r] EXCEPT !.timer = b, !.state = 1]))
<1> DEFINE q == [t.requests[r] EXCEPT !.timer = b, !.state = 1]
           u == Set(t, r, q)
<1>1. t.requests[r] \in Requested /\ Typed(t) /\ t.requests \in Seq(Requested)
  BY TypedParts DEF LifeInv
<1>2. /\ q \in Requested /\ q.globals = t.requests[r].globals /\ q.state = 1
      /\ q.ends = t.requests[r].ends
  <2> DEFINE p == [t.requests[r] EXCEPT !.timer = b]
  <2>1. /\ p \in Requested /\ p.globals = t.requests[r].globals
        /\ p.ends = t.requests[r].ends
    <3> DEFINE o == t.requests[r]
    <3>1. o \in Requested
      BY <1>1
    <3> HIDE DEF o
    <3>2. /\ [o EXCEPT !.timer = b] \in Requested
          /\ [o EXCEPT !.timer = b].globals = o.globals /\ [o EXCEPT !.timer = b].ends = o.ends
      BY <3>1 DEF Requested
    <3> QED
      BY <3>2, Zenon DEF o
  <2>2. q = [p EXCEPT !.state = 1]
    OBVIOUS
  <2> HIDE DEF p, q
  <2>3. q \in Requested
    BY <2>1, <2>2 DEF Requested
  <2>4. q.globals = p.globals /\ q.state = 1 /\ q.ends = p.ends
    BY <2>1, <2>2 DEF Requested
  <2> QED
    BY <2>1, <2>3, <2>4
<1>3. /\ Typed(u) /\ u.requests = [t.requests EXCEPT ![r] = q] /\ u.stack = t.stack
      /\ u.active = t.active
  <2> HIDE DEF q
  <2> QED
    BY <1>1, <1>2, SetTyped
<1>4. /\ DOMAIN u.requests = DOMAIN t.requests /\ u.requests[r] = q
      /\ \A p \in DOMAIN t.requests : p # r => u.requests[p] = t.requests[p]
  <2> HIDE DEF u, q
  <2> QED
    BY <1>3
<1> HIDE DEF u, q
<1>5. \A i \in DOMAIN t.stack : t.stack[i].r # r
  BY DEF LifeInv, Lives, AtFits
<1>6. Lives(u)
  <2>1. \A p \in DOMAIN u.requests : EndsFit(u.requests[p])
    BY <1>2, <1>4 DEF LifeInv, Lives, EndsFit
  <2>2. \A i \in DOMAIN u.stack : AtFits(u.stack[i].at, u.requests[u.stack[i].r])
    BY <1>1, <1>3, <1>4, <1>5 DEF LifeInv, Lives, Typed
  <2> QED
    BY <1>3, <2>1, <2>2 DEF LifeInv, Lives
<1>7. Counted(u) = Counted(t)
  <2>1. \A p \in DOMAIN t.requests : Counts(u, p) <=> Counts(t, p)
    BY <1>2, <1>3, <1>4 DEF Counts, Ends
  <2> QED
    BY <1>4, <2>1 DEF Counted
<1>8. LifeInv(u)
  BY <1>3, <1>6, <1>7 DEF LifeInv
<1> QED
  BY <1>8 DEF u, q

LEMMA AjaxSendStep ==
  ASSUME LifeInv(s), NEW result \in Answers \cup {"sends", "throws"}, AfterAjaxSend(result)
  PROVE  LifeInv(s')
<1> DEFINE q == s.requests[Top]
           b == ~q.kind.sync /\ q.kind.timeout
           t == Set(Pop(s), Top, [q EXCEPT !.timer = b, !.state = 1])
           p == t.requests[Top]
           sent == [p EXCEPT !.listens = TRUE, !.wire = "sent"]
           answered == [p EXCEPT !.answer = result]
<1>1. /\ s.stack # <<>> /\ s.stack[1].at = "send" /\ Of(s, Top) /\ q \in Requested
      /\ AtFits(s.stack[1].at, q) /\ s.stack[1].r = Top
  BY InvOf, Zenon DEF AfterAjaxSend, Waits, Top
<1>2. s.stack[1].at \in Ajaxing /\ q.state = 0 /\ b \in BOOLEAN
  BY <1>1 DEF Ajaxing, AtFits
<1>3. /\ LifeInv(Pop(s)) /\ Pop(s).requests = s.requests
      /\ \A i \in DOMAIN Pop(s).stack : Pop(s).stack[i].r = Top => Pop(s).stack[i].at \in Ending
  BY <1>1, <1>2, PopKeeps
<1>4. /\ LifeInv(t) /\ Of(t, Top)
      /\ \A i \in DOMAIN t.stack : t.stack[i].r = Top => t.stack[i].at # "send"
  <2>1. Top \in DOMAIN Pop(s).requests /\ Typed(Pop(s))
    BY <1>1, <1>3 DEF Of, LifeInv
  <2>2. LifeInv(t)
    <3> HIDE DEF b
    <3> QED
      BY <1>2, <1>3, <2>1, SentKeeps
  <2>3. t.requests = [s.requests EXCEPT ![Top] = [q EXCEPT !.timer = b, !.state = 1]]
        /\ t.stack = Pop(s).stack
    BY <1>3 DEF Set, Pop
  <2> HIDE DEF t
  <2> QED
    BY <1>1, <1>3, <2>2, <2>3 DEF Of, LifeInv, Ending
<1> HIDE DEF t
<1>5. p \in Requested
  BY <1>4, TypedParts DEF Of
<1>6. \/ s' = Done(t, Top, "failed")
      \/ s' = [t EXCEPT !.requests[Top].listens = TRUE, !.requests[Top].wire = "sent"]
      \/ result \in Answers /\ s' = Done([t EXCEPT !.requests[Top].answer = result], Top, result)
  <2>1. CASE ~q.transport \/ result = "throws"
    BY <2>1, Zenon DEF AfterAjaxSend, t
  <2>2. CASE q.transport /\ result = "sends"
    BY <2>2, Zenon DEF AfterAjaxSend, t
  <2>3. CASE q.transport /\ result # "sends" /\ result # "throws"
    BY <2>3, Zenon DEF AfterAjaxSend, t
  <2> QED
    BY <2>1, <2>2, <2>3
<1>7. LifeInv(Done(t, Top, "failed"))
  BY <1>4, DoneKeeps
<1>8. LifeInv(Set(t, Top, sent))
  <2>1. sent \in Requested /\ AsAlive(p, sent)
    <3> HIDE DEF p
    <3> QED
      BY <1>5 DEF Requested, AsAlive
  <2> HIDE DEF sent
  <2> QED
    BY <1>4, <2>1, SetKeeps, SameLifeKeeps DEF Of
<1>9. [t EXCEPT !.requests[Top].listens = TRUE, !.requests[Top].wire = "sent"] = Set(t, Top, sent)
  <2>1. Typed(t) /\ Top \in DOMAIN t.requests
    BY <1>4 DEF Of
  <2>2. t \in States /\ t.requests \in Seq(Requested)
    BY <2>1, TypedParts DEF Typed
  <2>3. [t EXCEPT !.requests[Top].listens = TRUE, !.requests[Top].wire = "sent"]
          = [t EXCEPT !.requests = [t.requests EXCEPT ![Top] = [@ EXCEPT !.listens = TRUE, !.wire = "sent"]]]
    BY <2>1, <2>2 DEF States
  <2> QED
    BY <2>1, <2>3 DEF Set
<1>10. ASSUME result \in Answers
       PROVE  LifeInv(Done([t EXCEPT !.requests[Top].answer = result], Top, result))
  <2> DEFINE u == Set(t, Top, answered)
  <2>1. answered \in Requested /\ AsAlive(p, answered)
    <3> HIDE DEF p
    <3> QED
      BY <1>5, <1>10 DEF Requested, AsAlive
  <2>2. [t EXCEPT !.requests[Top].answer = result] = u
    BY DEF Set
  <2>3. Of(u, Top) /\ SameLife(t, u)
    <3> HIDE DEF answered
    <3> QED
      BY <1>4, <2>1, SetKeeps
  <2> HIDE DEF u
  <2>4. LifeInv(u) /\ u.stack = t.stack
    BY <1>4, <2>3, SameLifeKeeps DEF Of, SameLife
  <2>5. LifeInv(Done(u, Top, result))
    BY <1>4, <2>3, <2>4, DoneKeeps
  <2> QED
    BY <2>2, <2>5
<1> HIDE DEF sent, answered, p
<1> QED
  BY <1>6, <1>7, <1>8, <1>9, <1>10

LEMMA SettledStep ==
  ASSUME LifeInv(s), AfterSettled
  PROVE  LifeInv(s')
<1>1. /\ s.stack # <<>> /\ s.stack[1].at = "settled" /\ s' = GoOn(s, "completed")
      /\ AtFits(s.stack[1].at, s.requests[Top]) /\ s.stack[1].r = Top
  BY InvOf DEF AfterSettled, Waits, Top
<1>2. "completed" \in Ending /\ s.stack[1].at \in Ending
  BY <1>1 DEF Ending
<1>3. AtFits("completed", s.requests[s.stack[1].r])
  BY <1>1, <1>2 DEF AtFits, Ajaxing
<1> QED
  BY <1>1, <1>2, <1>3, GoOnKeeps

\* done() returns: its request counts no longer.
LEMMA CompletedStep ==
  ASSUME LifeInv(s), AfterCompleted
  PROVE  LifeInv(s')
<1> DEFINE t == Pop(s)
           q == s.requests[Top]
           active == s.active - (IF q.globals THEN 1 ELSE 0)
           u == [t EXCEPT !.active = active]
<1>1. /\ s.stack # <<>> /\ s.stack[1].at = "completed" /\ Of(s, Top) /\ q \in Requested
      /\ AtFits(s.stack[1].at, q) /\ s.stack[1].r = Top /\ Typed(s) /\ s.active \in Int
  BY InvOf, TypedParts DEF AfterCompleted, Waits, Top, LifeInv
<1>2. /\ Typed(t) /\ t.requests = s.requests /\ t.active = s.active
      /\ \A i \in DOMAIN t.stack : /\ i + 1 \in DOMAIN s.stack /\ i + 1 # 1
                                   /\ t.stack[i] = s.stack[i + 1]
      /\ \A i \in DOMAIN s.stack : i # 1 => i - 1 \in DOMAIN t.stack
      /\ 1 \in DOMAIN s.stack /\ DOMAIN s.stack \subseteq Nat
  BY <1>1, PopParts
<1>3. s' = u
  BY <1>2 DEF AfterCompleted
<1> HIDE DEF t
<1>4. active \in Int
  BY <1>1
<1>5. /\ Typed(u) /\ u.requests = s.requests /\ u.stack = t.stack /\ u.active = active
      /\ DOMAIN u.stack \subseteq Nat
  <2>1. /\ Typed(u) /\ u.requests = s.requests /\ u.stack = t.stack /\ u.active = active
    <3> HIDE DEF active
    <3> QED
      BY <1>2, <1>4 DEF Typed, States
  <2>2. u.stack \in Seq(Frames)
    BY <2>1, TypedParts
  <2> QED
    BY <2>1, <2>2
<1> HIDE DEF u, q
<1>6. q.state = 2 /\ s.stack[1].at \in Ending /\ s.stack[1].at \notin Ajaxing
  BY <1>1 DEF AtFits, Ending, Ajaxing
<1>7. \A i \in DOMAIN u.stack : u.stack[i].r = Top => u.stack[i].at \notin Ending
  <2> SUFFICES ASSUME NEW i \in DOMAIN u.stack, u.stack[i].r = Top
               PROVE  u.stack[i].at \notin Ending
    OBVIOUS
  <2>1. i + 1 \in DOMAIN s.stack /\ i + 1 # 1 /\ u.stack[i] = s.stack[i + 1]
    BY <1>2, <1>5
  <2>2. FramesApart(s.stack[1], s.stack[i + 1])
    <3>1. 1 \in DOMAIN s.stack /\ 1 # i + 1
      BY <1>2, <2>1
    <3> QED
      BY <2>1, <3>1, Zenon DEF LifeInv, Lives
  <2> QED
    BY <1>1, <1>6, <2>1, <2>2, Zenon DEF FramesApart
<1>8. Lives(u)
  <2>1. \A i, j \in DOMAIN u.stack : i # j => FramesApart(u.stack[i], u.stack[j])
    <3> SUFFICES ASSUME NEW i \in DOMAIN u.stack, NEW j \in DOMAIN u.stack, i # j
                 PROVE  FramesApart(u.stack[i], u.stack[j])
      OBVIOUS
    <3>1. i \in Int /\ j \in Int
      BY <1>5
    <3>2. i + 1 # j + 1
      BY <3>1
    <3> QED
      BY <1>2, <1>5, <3>2 DEF LifeInv, Lives
  <2>2. \A i \in DOMAIN u.stack : AtFits(u.stack[i].at, u.requests[u.stack[i].r])
    BY <1>2, <1>5 DEF LifeInv, Lives
  <2> QED
    BY <1>2, <1>5, <2>1, <2>2 DEF LifeInv, Lives
<1>9. \A r \in DOMAIN s.requests : r # Top => (Ends(u, r) <=> Ends(s, r))
  <2> TAKE r \in DOMAIN s.requests
  <2>1. ASSUME Ends(u, r) PROVE Ends(s, r)
    BY <1>2, <1>5, <2>1 DEF Ends
  <2>2. ASSUME r # Top, Ends(s, r) PROVE Ends(u, r)
    <3>1. PICK i \in DOMAIN s.stack : s.stack[i].r = r /\ s.stack[i].at \in Ending
      BY <2>2 DEF Ends
    <3>2. i # 1
      BY <1>1, <2>2, <3>1
    <3>3. i - 1 \in DOMAIN t.stack /\ (i - 1) + 1 = i
      BY <1>2, <3>2
    <3>4. u.stack[i - 1] = s.stack[i]
      BY <1>2, <1>5, <3>3
    <3> QED
      BY <1>5, <3>1, <3>3, <3>4 DEF Ends
  <2> QED
    BY <2>1, <2>2
<1>10. ~Ends(u, Top) /\ Ends(s, Top)
  BY <1>1, <1>2, <1>6, <1>7 DEF Ends
<1>11. \A r \in DOMAIN s.requests : r # Top => (Counts(u, r) <=> Counts(s, r))
  BY <1>5, <1>9 DEF Counts
<1>12. ~Counts(u, Top) /\ (Counts(s, Top) <=> q.globals)
  <2>1. ~(q.state < 2)
    BY <1>6
  <2> QED
    BY <1>5, <1>10, <2>1 DEF Counts, q
<1>13. Top \in DOMAIN s.requests
  BY <1>1 DEF Of
<1>14. Counted(u) = Counted(s) \ {Top} /\ (Top \in Counted(s) <=> q.globals)
  BY <1>5, <1>11, <1>12, <1>13 DEF Counted
<1>15. IsFiniteSet(Counted(s)) /\ s.active = Cardinality(Counted(s))
  BY <1>1, CountedFinite DEF LifeInv
<1>16. Cardinality(Counted(u)) = IF q.globals THEN Cardinality(Counted(s)) - 1
                                              ELSE Cardinality(Counted(s))
  <2>1. CASE q.globals
    BY <1>14, <1>15, <2>1, FS_RemoveElement
  <2>2. CASE ~q.globals
    <3>1. Counted(u) = Counted(s)
      BY <1>14, <2>2
    <3> QED
      BY <2>2, <3>1
  <2> QED
    BY <2>1, <2>2
<1>17. u.active = Cardinality(Counted(u))
  BY <1>1, <1>5, <1>15, <1>16
<1> QED
  BY <1>3, <1>5, <1>8, <1>17 DEF LifeInv

LEMMA PrefilterKeeps ==
  ASSUME MaxRequests \in Nat, NEW t, NEW r, Typed(t), r \in DOMAIN t.requests,
         t.nonce <= Len(t.requests)
  PROVE  Typed(Prefilter(t, r)) /\ SameLife(t, Prefilter(t, r))
<1> DEFINE q == t.requests[r]
           reuses == q.kind.jsonp = "auto" /\ t.free # <<>>
           name == CASE q.kind.jsonp = "own" -> OwnName
                     [] reuses -> t.free[Len(t.free)]
                     [] OTHER -> t.nonce
           p == [q EXCEPT !.name = name, !.overwritten = t.window[name]]
           window == [t.window EXCEPT ![name] = r]
           free == IF reuses THEN SubSeq(t.free, 1, Len(t.free) - 1) ELSE t.free
           nonce == IF q.kind.jsonp = "auto" /\ ~reuses THEN t.nonce + 1 ELSE t.nonce
           v == Set(t, r, p)
           u == [v EXCEPT !.window = window, !.free = free, !.nonce = nonce]
<1>1. /\ q \in Requested /\ t.free \in Seq(Names) /\ t.window \in [Names -> Nat] /\ t \in States
      /\ t.nonce \in Nat \ {0} /\ r \in Nat /\ t.requests \in Seq(Requested)
      /\ Len(t.requests) <= MaxRequests /\ Len(t.requests) \in Nat
  BY TypedParts DEF Typed
<1>2. CASE q.kind.jsonp = "no"
  BY <1>2 DEF Prefilter, SameLife, AsAlive
<1>3. CASE q.kind.jsonp # "no"
  <2>1. reuses => t.free[Len(t.free)] \in Names
    BY <1>1
  <2>2. OwnName \in Names /\ t.nonce \in Names
    BY <1>1 DEF Names, OwnName
  <2>3. name \in Names
    <3> HIDE DEF reuses
    <3> QED
      BY <2>1, <2>2
  <2>4. SubSeq(t.free, 1, Len(t.free) - 1) \in Seq(Names)
    BY <1>1
  <2>5. free \in Seq(Names) /\ nonce \in Nat \ {0} /\ nonce <= Len(t.requests) + 1
    <3> HIDE DEF reuses, q
    <3> QED
      BY <1>1, <2>4
  <2> HIDE DEF name
  <2>6. window \in [Names -> Nat] /\ t.window[name] \in Nat
    BY <1>1, <2>3
  <2>7. p \in Requested /\ AsAlive(q, p)
    <3> HIDE DEF q
    <3> QED
      BY <1>1, <2>3, <2>6 DEF Requested, AsAlive
  <2> HIDE DEF free, nonce, window
  <2>8. /\ Typed(v) /\ v.requests = [t.requests EXCEPT ![r] = p]
        /\ v.stack = t.stack /\ v.active = t.active
    <3> HIDE DEF p
    <3> QED
      BY <2>7, SetTyped
  <2>9. DOMAIN v.requests = DOMAIN t.requests /\ Len(v.requests) = Len(t.requests)
    <3>1. [t.requests EXCEPT ![r] = p] \in Seq(Requested)
      <4> HIDE DEF p
      <4> QED
        BY <1>1, <2>7
    <3> HIDE DEF p, v
    <3> QED
      BY <1>1, <2>8, <3>1
  <2>10. \A i \in DOMAIN t.requests : AsAlive(t.requests[i], v.requests[i])
    <3> HIDE DEF p, v
    <3> QED
      BY <2>7, <2>8 DEF AsAlive
  <2>11. /\ u \in States /\ u.requests = v.requests /\ u.stack = v.stack /\ u.active = v.active
         /\ u.nonce = nonce
    <3> HIDE DEF v
    <3> QED
      BY <2>5, <2>6, <2>8 DEF Typed, States
  <2>12. Typed(u) /\ SameLife(t, u)
    <3> HIDE DEF v, u
    <3> QED
      BY <1>1, <2>5, <2>8, <2>9, <2>10, <2>11 DEF Typed, SameLife
  <2>13. Prefilter(t, r) = u
    <3>1. Prefilter(t, r)
            = [t EXCEPT !.requests[r].name = name, !.requests[r].overwritten = t.window[name],
                        !.window = window, !.free = free, !.nonce = nonce]
      BY <1>3 DEF Prefilter, name, window, free, nonce
    <3>2. [t EXCEPT !.requests[r].name = name, !.requests[r].overwritten = t.window[name],
                        !.window = window, !.free = free, !.nonce = nonce] = u
      BY <1>1 DEF Set, States
    <3> QED
      BY <3>1, <3>2
  <2> QED
    BY <2>12, <2>13
<1> QED
  BY <1>2, <1>3

\* ajax() begins with a request of its own.
LEMMA BeginStep ==
  ASSUME MaxRequests \in Nat, Kinds \subseteq Options, LifeInv(s), NEW kind \in Kinds, Begin(kind)
  PROVE  LifeInv(s')
<1> DEFINE r == Len(s.requests) + 1
           t == [s EXCEPT !.requests = Append(@, Request(kind))]
           u == Prefilter(t, r)
           v == Push(u, r, "prefilter")
<1>1. /\ Typed(s) /\ s \in States /\ s.requests \in Seq(Requested) /\ Len(s.requests) \in Nat
      /\ s.nonce <= Len(s.requests) + 1 /\ s.nonce \in Nat
  BY TypedParts DEF LifeInv, Typed
<1>2. r <= MaxRequests /\ s' = v
  BY DEF Begin
<1>3. /\ Request(kind) \in Requested /\ Request(kind).state = 0 /\ Request(kind).ends = 0
      /\ ~Request(kind).globals
  BY DEF Request, Requested, OwnName, None, Names
<1>4. /\ Append(s.requests, Request(kind)) \in Seq(Requested)
      /\ Len(Append(s.requests, Request(kind))) = r
      /\ Append(s.requests, Request(kind))[r] = Request(kind)
      /\ DOMAIN Append(s.requests, Request(kind)) = DOMAIN s.requests \cup {r}
      /\ r \notin DOMAIN s.requests
      /\ \A i \in DOMAIN s.requests : Append(s.requests, Request(kind))[i] = s.requests[i]
  <2> DEFINE q == Request(kind)
  <2> HIDE DEF q
  <2>1. q \in Requested
    BY <1>3 DEF q
  <2> QED
    BY <1>1, <2>1 DEF q
<1>5. /\ t \in States /\ t.requests = Append(s.requests, Request(kind)) /\ t.stack = s.stack
      /\ t.active = s.active /\ t.nonce = s.nonce
  BY <1>1, <1>4 DEF States
<1> HIDE DEF t
<1>6. Typed(t) /\ r \in DOMAIN t.requests /\ t.nonce <= Len(t.requests)
  <2>1. \A i \in DOMAIN s.stack : s.stack[i].r \in DOMAIN s.requests
    BY <1>1 DEF Typed
  <2> QED
    BY <1>1, <1>2, <1>4, <1>5, <2>1 DEF Typed
<1>7. LifeInv(t) /\ \A i \in DOMAIN t.stack : t.stack[i].r # r
  <2>1. \A i \in DOMAIN t.stack : t.stack[i].r \in DOMAIN s.requests /\ t.stack[i].r # r
    BY <1>1, <1>4, <1>5 DEF Typed
  <2>2. \A p \in DOMAIN t.requests : EndsFit(t.requests[p])
    BY <1>3, <1>4, <1>5 DEF LifeInv, Lives, EndsFit
  <2>3. Lives(t)
    BY <1>4, <1>5, <2>1, <2>2 DEF LifeInv, Lives
  <2>4. \A p \in DOMAIN s.requests : Counts(t, p) <=> Counts(s, p)
    BY <1>4, <1>5 DEF Counts, Ends
  <2>5. ~Counts(t, r)
    BY <1>3, <1>4, <1>5 DEF Counts
  <2>6. Counted(t) = Counted(s)
    BY <1>4, <1>5, <2>4, <2>5 DEF Counted
  <2> QED
    BY <1>5, <1>6, <2>1, <2>3, <2>6 DEF LifeInv
<1>8. Typed(u) /\ SameLife(t, u)
  BY <1>6, PrefilterKeeps
<1> HIDE DEF u, r
<1>9. LifeInv(u)
  BY <1>7, <1>8, SameLifeKeeps
<1>10. /\ r \in DOMAIN u.requests /\ u.requests[r].state = 0 /\ ~u.requests[r].globals
       /\ \A i \in DOMAIN u.stack : u.stack[i].r # r
  BY <1>3, <1>4, <1>5, <1>6, <1>7, <1>8 DEF SameLife, AsAlive
<1>11. /\ Typed(v) /\ v.requests = u.requests /\ v.active = u.active
       /\ Len(v.stack) = Len(u.stack) + 1 /\ v.stack \in Seq(Frames)
       /\ v.stack[1] = [r |-> r, at |-> "prefilter"]
       /\ \A i \in DOMAIN u.stack : v.stack[i + 1] = u.stack[i]
  BY <1>8, <1>10, PushParts DEF Ajaxing
<1>12. u.stack \in Seq(Frames)
  BY <1>8, TypedParts
<1> HIDE DEF v
<1>13. /\ \A i \in DOMAIN v.stack : i # 1 => i - 1 \in DOMAIN u.stack /\ v.stack[i] = u.stack[i - 1]
       /\ \A i \in DOMAIN u.stack : i + 1 \in DOMAIN v.stack
       /\ DOMAIN v.stack \subseteq Int
  BY <1>11, <1>12
<1>14. v.stack[1].r = r /\ v.stack[1].at = "prefilter"
  BY <1>11
<1>15. Lives(v)
  <2>1. \A i \in DOMAIN v.stack : AtFits(v.stack[i].at, v.requests[v.stack[i].r])
    <3> TAKE i \in DOMAIN v.stack
    <3>1. CASE i = 1
      BY <1>10, <1>11, <1>14, <3>1 DEF AtFits, Ending
    <3>2. CASE i # 1
      BY <1>9, <1>11, <1>13, <3>2 DEF LifeInv, Lives
    <3> QED
      BY <3>1, <3>2
  <2>2. \A i, j \in DOMAIN v.stack : i # j => FramesApart(v.stack[i], v.stack[j])
    <3> SUFFICES ASSUME NEW i \in DOMAIN v.stack, NEW j \in DOMAIN v.stack, i # j
                 PROVE  FramesApart(v.stack[i], v.stack[j])
      OBVIOUS
    <3>1. CASE i = 1 \/ j = 1
      BY <1>10, <1>13, <1>14, <3>1 DEF FramesApart
    <3>2. CASE i # 1 /\ j # 1
      <4>1. i - 1 # j - 1
        BY <1>13
      <4> QED
        BY <1>9, <1>13, <3>2, <4>1 DEF LifeInv, Lives
    <3> QED
      BY <3>1, <3>2
  <2> QED
    BY <1>9, <1>11, <2>1, <2>2 DEF LifeInv, Lives
<1>16. \A p \in DOMAIN u.requests : Counts(v, p) <=> Counts(u, p)
  <2> TAKE p \in DOMAIN u.requests
  <2>1. ASSUME Ends(v, p) PROVE Ends(u, p)
    <3>1. PICK i \in DOMAIN v.stack : v.stack[i].r = p /\ v.stack[i].at \in Ending
      BY <2>1 DEF Ends
    <3>2. i # 1
      BY <1>14, <3>1 DEF Ending
    <3> QED
      BY <1>13, <3>1, <3>2 DEF Ends
  <2>2. ASSUME Ends(u, p) PROVE Ends(v, p)
    BY <1>11, <1>13, <2>2 DEF Ends
  <2> QED
    BY <1>11, <2>1, <2>2 DEF Counts
<1>17. Counted(v) = Counted(u)
  BY <1>11, <1>16 DEF Counted
<1> QED
  BY <1>2, <1>9, <1>11, <1>15, <1>17 DEF LifeInv

LEMMA AbortStep ==
  ASSUME "send" \notin AbortsIn, LifeInv(s), NEW r \in Ids, Abort(r)
  PROVE  LifeInv(s')
<1>1. s' = AbortRequest(s, r, "abort")
  BY DEF Abort
<1>2. \A i \in DOMAIN s.stack : s.stack[i].r = r => s.stack[i].at # "send"
  BY DEF Abort
<1> QED
  BY <1>1, <1>2, InvOf, AbortKeeps

\* A timer goes off, or is stopped.
LEMMA TimerKeeps ==
  ASSUME LifeInv(s), s.stack = <<>>, NEW r \in Ids
  PROVE  LET t == Set(s, r, [s.requests[r] EXCEPT !.timer = FALSE])
         IN  LifeInv(t) /\ Of(t, r) /\ t.stack = <<>>
<1> DEFINE q == [s.requests[r] EXCEPT !.timer = FALSE]
           t == Set(s, r, q)
<1>2. Of(s, r) /\ s.requests[r] \in Requested /\ Typed(s)
  BY InvOf DEF LifeInv
<1>3. /\ q \in Requested /\ q.globals = s.requests[r].globals /\ q.state = s.requests[r].state
      /\ q.ends = s.requests[r].ends /\ ~q.timer
  BY <1>2 DEF Requested
<1>4. /\ Typed(t) /\ t.requests = [s.requests EXCEPT ![r] = q] /\ t.stack = s.stack
      /\ t.active = s.active
  <2> HIDE DEF q
  <2> QED
    BY <1>2, <1>3, SetTyped DEF Of
<1>5. /\ DOMAIN t.requests = DOMAIN s.requests /\ t.requests[r] = q
      /\ \A p \in DOMAIN s.requests : p # r => t.requests[p] = s.requests[p]
  <2> HIDE DEF q, t
  <2> QED
    BY <1>2, <1>4 DEF Of
<1> HIDE DEF q, t
<1>6. DOMAIN s.stack = {}
  OBVIOUS
<1>7. Lives(t)
  BY <1>3, <1>4, <1>5, <1>6 DEF LifeInv, Lives, EndsFit
<1>8. \A p \in DOMAIN s.requests : Counts(t, p) <=> Counts(s, p)
  BY <1>3, <1>4, <1>5 DEF Counts, Ends
<1>9. Counted(t) = Counted(s)
  BY <1>5, <1>8 DEF Counted
<1>10. LifeInv(t) /\ Of(t, r)
  BY <1>2, <1>4, <1>5, <1>7, <1>9 DEF LifeInv, Of
<1> QED
  BY <1>4, <1>10 DEF t, q

LEMMA TimeoutStep ==
  ASSUME LifeInv(s), NEW r \in Ids, Timeout(r)
  PROVE  LifeInv(s')
<1> DEFINE t == Set(s, r, [s.requests[r] EXCEPT !.timer = FALSE])
<1>1. s' = AbortRequest(t, r, "timeout") /\ s.stack = <<>>
  BY DEF Timeout, Set
<1>2. LifeInv(t) /\ Of(t, r) /\ t.stack = <<>>
  BY <1>1, TimerKeeps
<1> HIDE DEF t
<1>3. \A i \in DOMAIN t.stack : t.stack[i].r = r => t.stack[i].at # "send"
  BY <1>2
<1> QED
  BY <1>1, <1>2, <1>3, AbortKeeps

LEMMA AnswerStep ==
  ASSUME LifeInv(s), NEW r \in Ids, NEW answer \in Answers, Answer(r, answer)
  PROVE  LifeInv(s')
<1> DEFINE q == s.requests[r]
           script == q.kind.transport = "script"
           p == [q EXCEPT !.wire = "none", !.listens = FALSE, !.answer = answer]
           lost == [q EXCEPT !.wire = "none"]
           t == Set(s, r, p)
           u == IF script /\ answer = "good" THEN RunScript(t, r) ELSE t
           unnoticed == script /\ answer \in {"failed", "refused"}
           given == IF script THEN "good" ELSE answer
<1>1. Of(s, r) /\ q \in Requested /\ s.stack = <<>>
  BY InvOf DEF Answer
<1>2. p \in Requested /\ AsAlive(q, p) /\ lost \in Requested /\ AsAlive(q, lost)
  <2> HIDE DEF q
  <2> QED
    BY <1>1 DEF Requested, AsAlive
<1>3. Of(t, r) /\ SameLife(s, t) /\ LifeInv(Set(s, r, lost))
  <2> HIDE DEF p, lost
  <2> QED
    BY <1>1, <1>2, SetKeeps, SameLifeKeeps DEF Of
<1> HIDE DEF t
<1>4. Of(u, r) /\ SameLife(s, u)
  <2>1. Of(RunScript(t, r), r) /\ SameLife(s, RunScript(t, r))
    BY <1>3, RunKeeps, LifeTransitive
  <2> QED
    BY <1>3, <2>1
<1>5. \/ s' = Set(s, r, lost)
      \/ s' = Done(u, r, given)
      \/ s' = u
  <2>1. CASE unnoticed
    BY <2>1 DEF Answer, Set
  <2>2. CASE ~unnoticed
    BY <2>2 DEF Answer, t
  <2> QED
    BY <2>1, <2>2
<1> HIDE DEF u, given, lost
<1>6. LifeInv(u) /\ u.stack = <<>>
  BY <1>1, <1>4, SameLifeKeeps DEF Of, SameLife
<1>7. LifeInv(Done(u, r, given))
  BY <1>4, <1>6, DoneKeeps
<1> QED
  BY <1>3, <1>5, <1>6, <1>7

LEMMA LifeInit ==
  ASSUME MaxRequests \in Nat, Init
  PROVE  LifeInv(s)
<1> DEFINE window == [n \in Names |-> IF n = OwnName THEN PageFunction ELSE None]
<1>1. s = [requests |-> <<>>, stack |-> <<>>, active |-> 0, free |-> <<>>, nonce |-> 1,
           window |-> window]
  BY DEF Init, Starts, Names
<1>2. window \in [Names -> Nat]
  BY DEF PageFunction, None
<1> HIDE DEF window
<1>3. Typed(s)
  <2>1. <<>> \in Seq(Requested) /\ <<>> \in Seq(Frames) /\ <<>> \in Seq(Names)
    OBVIOUS
  <2>2. s \in States
    BY <1>1, <1>2, <2>1 DEF States
  <2>3. Len(s.requests) = 0 /\ DOMAIN s.stack = {}
    BY <1>1
  <2> QED
    BY <1>1, <2>2, <2>3 DEF Typed
<1>4. Counted(s) = {}
  BY <1>1 DEF Counted
<1>5. Lives(s)
  BY <1>1 DEF Lives
<1>6. s.active = Cardinality(Counted(s))
  BY <1>1, <1>4, FS_EmptySet
<1> QED
  BY <1>3, <1>5, <1>6 DEF LifeInv

LEMMA LifeNext ==
  ASSUME Page, LifeInv(s), [Next]_s
  PROVE  LifeInv(s')
<1>1. CASE \E kind \in Kinds : Begin(kind)
  BY <1>1, BeginStep DEF Page
<1>2. CASE Continue
  BY <1>2, PrefiltersStep, BeforeSendStep, AjaxSendStep, SettledStep, CompletedStep DEF Continue
<1>3. CASE \E r \in Ids : Abort(r) \/ Timeout(r) \/ (\E answer \in Answers : Answer(r, answer))
  BY <1>3, AbortStep, TimeoutStep, AnswerStep DEF Page
<1>4. CASE UNCHANGED s
  BY <1>4
<1> QED
  BY <1>1, <1>2, <1>3, <1>4 DEF Next

LEMMA LifeEnds ==
  ASSUME LifeInv(s)
  PROVE  RequestsEndOnce
<1>1. EndsOnce
  BY DEF LifeInv, Lives, EndsFit, EndsOnce, Over, Ids
<1>2. \A r \in Ids : InDone(r) <=> Ends(s, r)
  BY DEF InDone, Ends, Ending
<1>3. Counted(s) = {r \in Ids : s.requests[r].globals /\ (s.requests[r].state < 2 \/ InDone(r))}
  BY <1>2 DEF Counted, Counts, Ids
<1>4. ActiveCounts
  BY <1>3 DEF LifeInv, ActiveCounts
<1> QED
  BY <1>1, <1>4 DEF RequestsEndOnce

\* However many requests the page makes, of whatever kinds, and whichever of an
\* answer, a timeout, an abort and an exception comes first: a request ends once,
\* no timer is left then, and jQuery.active counts those under way (ajax, done).
THEOREM EndOnce ==
  ASSUME Page
  PROVE  Spec => []RequestsEndOnce
<1>1. Init => LifeInv(s)
  BY LifeInit DEF Page
<1>2. LifeInv(s) /\ [Next]_s => LifeInv(s)'
  BY LifeNext
<1>3. LifeInv(s) => RequestsEndOnce
  BY LifeEnds
<1> QED
  BY <1>1, <1>2, <1>3, PTL DEF Spec

-----------------------------------------------------------------------------
(* The names of jsonp requests.                                              *)

\* The names are generated, and no script is asked for synchronously: the page
\* has one function of its own name only, and an open request could find it taken.
Generated == Page /\ \A kind \in Kinds : kind.jsonp # "own" /\ (kind.sync => kind.transport # "script")

Opens(q) == q.kind.jsonp = "auto" /\ q.state < 2

\* While a request is under way its name is its own, and nobody finds it free.
Held(t, r) ==
  LET q == t.requests[r]
  IN  /\ q.name \in 1 .. t.nonce - 1 /\ t.window[q.name] = r /\ q.overwritten = None
      /\ \A i \in DOMAIN t.free : t.free[i] # q.name

\* An answer that comes when its request is over delivers nothing.
Delivers(q, r) ==
  /\ q.state < 2 => q.outcome # "success"
  /\ q.wire = "sent" => q.state # 0 /\ (q.state = 2 => q.outcome = "error")
  /\ q.outcome = "success" /\ q.answer = "good" => q.data = r
  /\ q.transport \/ q.wire = "sent" => q.kind.transport # "none"

Freed(t) ==
  /\ \A i \in DOMAIN t.free : t.free[i] \in 1 .. t.nonce - 1
  /\ \A i, j \in DOMAIN t.free : t.free[i] = t.free[j] => i = j
InWindow(t) ==
  /\ t.window[OwnName] = PageFunction
  /\ \A n \in 1 .. MaxRequests : t.window[n] # None =>
       \E r \in DOMAIN t.requests : Opens(t.requests[r]) /\ t.requests[r].name = n
NamesInv(t) ==
  /\ \A r \in DOMAIN t.requests : Opens(t.requests[r]) => Held(t, r)
  /\ \A r \in DOMAIN t.requests : Delivers(t.requests[r], r)
  /\ Freed(t) /\ InWindow(t)

\* What may happen to a request while it is under way, or when it is over.
Alike(p, q) ==
  /\ q.kind = p.kind /\ q.name = p.name /\ q.overwritten = p.overwritten
  /\ q.outcome = p.outcome /\ q.data = p.data
  /\ q.state = p.state \/ (p.state = 0 /\ q.state = 1)
  /\ q.transport => p.transport \/ p.kind.transport # "none"
  /\ q.wire = p.wire \/ q.wire = "none" \/ (q.state = 1 /\ p.transport)
  /\ q.answer = p.answer \/ q.state < 2 \/ p.wire = "sent"
AlikeNames(t, u) ==
  /\ u.window = t.window /\ u.free = t.free /\ u.nonce = t.nonce
  /\ DOMAIN u.requests = DOMAIN t.requests
  /\ \A r \in DOMAIN t.requests : Alike(t.requests[r], u.requests[r])

LEMMA AlikeKeeps ==
  ASSUME NEW t, NEW u, Typed(t), NamesInv(t), AlikeNames(t, u)
  PROVE  NamesInv(u)
<1>1. \A r \in DOMAIN t.requests :
        /\ t.requests[r] \in Requested /\ Delivers(t.requests[r], r)
        /\ Alike(t.requests[r], u.requests[r])
  BY TypedParts DEF NamesInv, AlikeNames
<1>2. \A r \in DOMAIN t.requests : Opens(u.requests[r]) <=> Opens(t.requests[r])
  BY <1>1 DEF Alike, Opens
<1>3. \A r \in DOMAIN u.requests : Opens(u.requests[r]) => Held(u, r)
  <2> SUFFICES ASSUME NEW r \in DOMAIN t.requests, Opens(u.requests[r])
               PROVE  Held(u, r)
    BY DEF AlikeNames
  <2>1. Held(t, r)
    BY <1>2 DEF NamesInv
  <2> QED
    BY <1>1, <2>1 DEF Held, AlikeNames, Alike
<1>4. \A r \in DOMAIN u.requests : Delivers(u.requests[r], r)
  <2> SUFFICES ASSUME NEW r \in DOMAIN t.requests
               PROVE  Delivers(u.requests[r], r)
    BY DEF AlikeNames
  <2> DEFINE p == t.requests[r]
             q == u.requests[r]
  <2>1. p.state \in 0 .. 2 /\ Delivers(p, r) /\ Alike(p, q)
    BY <1>1 DEF Requested
  <2> HIDE DEF p, q
  <2>2. Delivers(q, r)
    BY <2>1 DEF Delivers, Alike
  <2> QED
    BY <2>2 DEF q
<1>5. Freed(u)
  BY DEF NamesInv, Freed, AlikeNames
<1>6. InWindow(u)
  <2>1. \A r \in DOMAIN t.requests : u.requests[r].name = t.requests[r].name
    BY <1>1 DEF Alike
  <2> QED
    BY <1>2, <2>1 DEF NamesInv, InWindow, AlikeNames
<1> QED
  BY <1>3, <1>4, <1>5, <1>6 DEF NamesInv

\* A step that sets one request, and nothing else.
LEMMA SetParts ==
  ASSUME NEW t, Typed(t), NEW r \in DOMAIN t.requests, NEW q
  PROVE  LET u == Set(t, r, q)
         IN  /\ u.window = t.window /\ u.free = t.free /\ u.nonce = t.nonce
             /\ u.stack = t.stack /\ u.active = t.active
             /\ DOMAIN u.requests = DOMAIN t.requests /\ u.requests[r] = q
             /\ \A p \in DOMAIN t.requests : p # r => u.requests[p] = t.requests[p]
<1>1. Set(t, r, q) = [t EXCEPT !.requests = [t.requests EXCEPT ![r] = q]]
  BY DEF Set
<1> DEFINE f == [t.requests EXCEPT ![r] = q]
<1>2. /\ DOMAIN f = DOMAIN t.requests /\ f[r] = q
      /\ \A p \in DOMAIN t.requests : p # r => f[p] = t.requests[p]
  OBVIOUS
<1> HIDE DEF f
<1>3. t \in States
  BY DEF Typed
<1> QED
  BY <1>1, <1>2, <1>3 DEF States, f

LEMMA AlikeSet ==
  ASSUME NEW t, Typed(t), NamesInv(t), NEW r \in DOMAIN t.requests, NEW q,
         Alike(t.requests[r], q)
  PROVE  NamesInv(Set(t, r, q))
<1>1. AlikeNames(t, Set(t, r, q))
  BY SetParts DEF AlikeNames, Alike
<1> QED
  BY <1>1, AlikeKeeps

\* Functions of window only give data.
AsNamed(p, q) ==
  /\ q.kind = p.kind /\ q.state = p.state /\ q.name = p.name /\ q.overwritten = p.overwritten
  /\ q.wire = p.wire /\ q.answer = p.answer /\ q.transport = p.transport
SameNames(t, u) ==
  /\ u.window = t.window /\ u.free = t.free /\ u.nonce = t.nonce
  /\ DOMAIN u.requests = DOMAIN t.requests
  /\ \A r \in DOMAIN t.requests : /\ AsNamed(t.requests[r], u.requests[r])
                                  /\ u.requests[r].outcome = t.requests[r].outcome
                                  /\ u.requests[r].data = t.requests[r].data

LEMMA CallNames ==
  ASSUME NEW t, NEW r, Of(t, r), NEW f, NEW data
  PROVE  /\ SameNames(t, CallFunction(t, f, data))
         /\ f = r => CallFunction(t, f, data).requests[r].container = data
<1>1. CASE f \in Ids
  <2> DEFINE q == [t.requests[f] EXCEPT !.container = data]
  <2>1. t.requests[f] \in Requested /\ Typed(t) /\ f \in DOMAIN t.requests
    BY <1>1, TypedParts DEF Of
  <2>2. AsNamed(t.requests[f], q) /\ q.outcome = t.requests[f].outcome
        /\ q.data = t.requests[f].data /\ q.container = data
    BY <2>1 DEF Requested, AsNamed
  <2> DEFINE u == Set(t, f, q)
  <2>3. CallFunction(t, f, data) = u
    BY <1>1 DEF CallFunction, Set
  <2> HIDE DEF q
  <2>4. /\ u.window = t.window /\ u.free = t.free /\ u.nonce = t.nonce
        /\ DOMAIN u.requests = DOMAIN t.requests /\ u.requests[f] = q
        /\ \A p \in DOMAIN t.requests : p # f => u.requests[p] = t.requests[p]
    BY <2>1, SetParts
  <2> HIDE DEF u
  <2>5. \A p \in DOMAIN t.requests : /\ AsNamed(t.requests[p], u.requests[p])
                                     /\ u.requests[p].outcome = t.requests[p].outcome
                                     /\ u.requests[p].data = t.requests[p].data
    <3> TAKE p \in DOMAIN t.requests
    <3>1. CASE p = f
      BY <2>2, <2>4, <3>1, Zenon
    <3>2. CASE p # f
      BY <2>4, <3>2, Zenon DEF AsNamed
    <3> QED
      BY <3>1, <3>2
  <2> QED
    BY <2>2, <2>3, <2>4, <2>5, Zenon DEF SameNames
<1>2. CASE f \notin Ids
  BY <1>2 DEF CallFunction, SameNames, AsNamed, Of
<1> QED
  BY <1>1, <1>2

LEMMA RunNames ==
  ASSUME NEW t, NEW r, Of(t, r)
  PROVE  /\ SameNames(t, RunScript(t, r))
         /\ t.requests[r].kind.jsonp # "no" /\ t.window[t.requests[r].name] = r
              => RunScript(t, r).requests[r].container = r
<1> DEFINE f == t.window[t.requests[r].name]
           u == CallFunction(t, f, r)
<1>1. CASE t.requests[r].kind.jsonp = "no"
  <2>1. RunScript(t, r) = t
    BY <1>1, Zenon DEF RunScript
  <2> QED
    BY <1>1, <2>1, Zenon DEF SameNames, AsNamed
<1>2. CASE t.requests[r].kind.jsonp # "no"
  <2>1. RunScript(t, r) = u
    BY <1>2, Zenon DEF RunScript
  <2>2. SameNames(t, u) /\ (f = r => u.requests[r].container = r)
    <3> HIDE DEF f
    <3> QED
      BY CallNames
  <2> HIDE DEF u
  <2> QED
    BY <2>1, <2>2, Zenon
<1> QED
  BY <1>1, <1>2, Zenon

\* What done() makes of an answer: an error, or the data of the request itself,
\* when the answer is good and not yet given to the function in window.
LEMMA ConvertNames ==
  ASSUME NEW t, NEW r, Of(t, r), NEW answer
  PROVE  LET u == Convert(t, r, answer)
             q == t.requests[r]
         IN  /\ u.window = t.window /\ u.free = t.free /\ u.nonce = t.nonce
             /\ DOMAIN u.requests = DOMAIN t.requests
             /\ \A p \in DOMAIN t.requests : AsNamed(t.requests[p], u.requests[p])
             /\ \A p \in DOMAIN t.requests : p # r =>
                  /\ u.requests[p].outcome = t.requests[p].outcome
                  /\ u.requests[p].data = t.requests[p].data
             /\ answer \notin {"good", "bad", "empty"} => u.requests[r].outcome = "error"
             /\ /\ answer = "good"
                /\ q.kind.jsonp # "no" => \/ q.kind.transport = "xhr" /\ t.window[q.name] = r
                                          \/ q.kind.transport # "xhr" /\ q.container = r
                => u.requests[r].data = r
<1> DEFINE q == t.requests[r]
           u == IF q.kind.transport = "xhr" /\ answer \in {"good", "refused"} THEN RunScript(t, r) ELSE t
           response == CASE q.kind.jsonp # "no" -> u.requests[r].container
                         [] q.kind.jsonp = "no" /\ (answer = "good" \/ q.kind.transport = "script") -> r
                         [] OTHER -> None
           got == [u.requests[r] EXCEPT !.data = response,
                                        !.outcome = IF response = None THEN "error" ELSE "success"]
           emptied == [u.requests[r] EXCEPT !.outcome = "success"]
           failed == [u.requests[r] EXCEPT !.outcome = "error"]
<1>1. SameNames(t, u) /\ Of(u, r)
  BY RunNames, RunKeeps DEF SameNames, AsNamed
<1>2. /\ answer = "good"
      /\ q.kind.jsonp # "no" => \/ q.kind.transport = "xhr" /\ t.window[q.name] = r
                                \/ q.kind.transport # "xhr" /\ q.container = r
      => response = r
  BY RunNames
<1> HIDE DEF u, response
<1>3. u.requests[r] \in Requested /\ Typed(u) /\ r \in DOMAIN u.requests
  BY <1>1, TypedParts DEF Of
<1>4. /\ AsNamed(u.requests[r], got) /\ got.data = response
      /\ AsNamed(u.requests[r], emptied)
      /\ AsNamed(u.requests[r], failed) /\ failed.outcome = "error"
  BY <1>3 DEF Requested, AsNamed
<1>5. Convert(t, r, answer) = CASE answer \in {"good", "bad"} -> Set(u, r, got)
                                [] answer = "empty" -> Set(u, r, emptied)
                                [] OTHER -> Set(u, r, failed)
  BY DEF Convert, u, response
<1> HIDE DEF got, emptied, failed, q
<1>6. \E p : /\ Convert(t, r, answer) = Set(u, r, p) /\ AsNamed(u.requests[r], p)
             /\ answer \notin {"good", "bad", "empty"} => p.outcome = "error"
             /\ answer = "good" => p.data = response
  BY <1>4, <1>5
<1>7. PICK p : /\ Convert(t, r, answer) = Set(u, r, p) /\ AsNamed(u.requests[r], p)
               /\ answer \notin {"good", "bad", "empty"} => p.outcome = "error"
               /\ answer = "good" => p.data = response
  BY <1>6
<1> DEFINE v == Set(u, r, p)
<1>8. /\ v.window = u.window /\ v.free = u.free /\ v.nonce = u.nonce
      /\ DOMAIN v.requests = DOMAIN u.requests /\ v.requests[r] = p
      /\ \A i \in DOMAIN u.requests : i # r => v.requests[i] = u.requests[i]
  BY <1>3, SetParts
<1> HIDE DEF v
<1>9. Convert(t, r, answer) = v
  BY <1>7 DEF v
<1>10. \A i \in DOMAIN t.requests : AsNamed(t.requests[i], v.requests[i])
  BY <1>1, <1>7, <1>8 DEF SameNames, AsNamed
<1>11. \A i \in DOMAIN t.requests : i # r => /\ v.requests[i].outcome = t.requests[i].outcome
                                            /\ v.requests[i].data = t.requests[i].data
  BY <1>1, <1>8 DEF SameNames
<1>12. v.window = t.window /\ v.free = t.free /\ v.nonce = t.nonce
       /\ DOMAIN v.requests = DOMAIN t.requests
  BY <1>1, <1>8 DEF SameNames
<1> QED
  BY <1>2, <1>7, <1>8, <1>9, <1>10, <1>11, <1>12 DEF q

\* When done() is called for a request by jsonp, its name is given back.
LEMMA CleanUpNames ==
  ASSUME NEW t, NEW r, Of(t, r), t.requests[r].overwritten = None
  PROVE  LET u == CleanUp(t, r)
             q == t.requests[r]
             frees == q.kind.jsonp = "auto"
         IN  /\ u.nonce = t.nonce
             /\ q.kind.jsonp = "no" => u.window = t.window /\ u.free = t.free
             /\ frees => u.window = [t.window EXCEPT ![q.name] = None]
             /\ frees => u.free = Append(t.free, q.name)
             /\ DOMAIN u.requests = DOMAIN t.requests
             /\ \A p \in DOMAIN t.requests : /\ AsNamed(t.requests[p], u.requests[p])
                                             /\ u.requests[p].outcome = t.requests[p].outcome
                                             /\ u.requests[p].data = t.requests[p].data
<1> DEFINE q == t.requests[r]
           free == IF q.kind.jsonp = "auto" THEN Append(t.free, q.name) ELSE t.free
           u == [t EXCEPT !.window[q.name] = q.overwritten, !.free = free]
           w == [q EXCEPT !.container = None, !.overwritten = None]
           v == Set(u, r, w)
<1>1. /\ q \in Requested /\ t.free \in Seq(Names) /\ t \in States /\ t.requests \in Seq(Requested)
      /\ r \in DOMAIN t.requests /\ DOMAIN t.requests = Ids /\ t.window \in [Names -> Nat]
  BY TypedParts DEF Of, Typed
<1>2. q.name \in Names /\ q.overwritten \in Nat
  BY <1>1 DEF Requested
<1>3. free \in Seq(Names)
  BY <1>1, <1>2
<1>4. /\ u.window = [t.window EXCEPT ![q.name] = q.overwritten] /\ u.free = free
      /\ u.nonce = t.nonce /\ u.requests = t.requests /\ Typed(u) /\ u \in States
  <2>1. Of(u, r)
    <3> HIDE DEF free, q
    <3> QED
      BY <1>2, <1>3, WindowKeeps
  <2>2. /\ u.window = [t.window EXCEPT ![q.name] = q.overwritten] /\ u.free = free
        /\ u.nonce = t.nonce /\ u.requests = t.requests
    <3> HIDE DEF free, q
    <3> QED
      BY <1>1 DEF States
  <2> QED
    BY <2>1, <2>2 DEF Of, Typed
<1>5. None \notin Ids
  BY <1>1 DEF None
<1>6. /\ AsNamed(q, w) /\ w.outcome = q.outcome /\ w.data = q.data
  <2>1. q.overwritten = None
    OBVIOUS
  <2> HIDE DEF q
  <2> QED
    BY <1>1, <2>1 DEF AsNamed, Requested
<1>7. CleanUp(t, r) = IF q.kind.jsonp = "no" THEN t ELSE v
  <2>1. u = [t EXCEPT !.window[q.name] = q.overwritten,
                      !.free = IF q.kind.jsonp = "auto" THEN Append(@, q.name) ELSE @]
    BY <1>1 DEF States
  <2>2. CallFunction(u, q.overwritten, q.container) = u
    BY <1>5 DEF CallFunction
  <2>3. v = [u EXCEPT !.requests[r].container = None, !.requests[r].overwritten = None]
    <3>1. u.requests[r] = q
      BY <1>4
    <3> HIDE DEF u, q, free
    <3>2. [u EXCEPT !.requests[r].container = None, !.requests[r].overwritten = None]
            = [u EXCEPT !.requests =
                 [u.requests EXCEPT ![r] = [@ EXCEPT !.container = None, !.overwritten = None]]]
      BY <1>1, <1>4 DEF States
    <3> QED
      BY <1>1, <1>4, <3>1, <3>2 DEF Set, w
  <2> DEFINE c == IF q.container # None THEN CallFunction(u, q.overwritten, q.container) ELSE u
  <2>4. c = u
    <3> HIDE DEF u
    <3> QED
      BY <2>2
  <2>5. CleanUp(t, r) =
          IF q.kind.jsonp = "no" THEN t
          ELSE [c EXCEPT !.requests[r].container = None, !.requests[r].overwritten = None]
    BY <2>1 DEF CleanUp
  <2> HIDE DEF c, u, v, q
  <2> QED
    BY <2>3, <2>4, <2>5
<1> HIDE DEF u
<1>8. /\ v.window = u.window /\ v.free = u.free /\ v.nonce = u.nonce
      /\ DOMAIN v.requests = DOMAIN u.requests /\ v.requests[r] = w
      /\ \A p \in DOMAIN u.requests : p # r => v.requests[p] = u.requests[p]
  <2> HIDE DEF w
  <2> QED
    BY <1>1, <1>4, SetParts
<1>9. \A p \in DOMAIN t.requests : /\ AsNamed(t.requests[p], v.requests[p])
                                   /\ v.requests[p].outcome = t.requests[p].outcome
                                   /\ v.requests[p].data = t.requests[p].data
  <2> HIDE DEF v, w
  <2> QED
    BY <1>4, <1>6, <1>8 DEF AsNamed, q
<1>10. \A p \in DOMAIN t.requests : AsNamed(t.requests[p], t.requests[p])
  BY DEF AsNamed
<1> HIDE DEF v, w
<1> QED
  BY <1>4, <1>7, <1>8, <1>9, <1>10 DEF q, free

LEMMA PushNames ==
  ASSUME NEW t, Typed(t), NEW r, NEW at
  PROVE  /\ Push(t, r, at).window = t.window /\ Push(t, r, at).free = t.free
         /\ Push(t, r, at).nonce = t.nonce /\ Push(t, r, at).requests = t.requests
BY DEF Push, Typed, States

LEMMA FinishedNames ==
  ASSUME NEW q \in Requested
  PROVE  LET p == Finished(q)
         IN  /\ p.kind = q.kind /\ p.name = q.name /\ p.overwritten = q.overwritten
             /\ p.wire = q.wire /\ p.answer = q.answer /\ p.container = q.container
             /\ p.state = 2 /\ ~p.transport
BY DEF Finished, Requested

\* The end of a request, with an error or with an answer that has come in order.
LEMMA DoneNames ==
  ASSUME Generated, NEW t, NEW r, NamesInv(t), Of(t, r), LifeInv(t), NEW answer,
         LET q == t.requests[r]
         IN  \/ answer \notin {"good", "bad", "empty"}
             \/ /\ q.wire = "none"
                /\ q.answer = "good" =>
                     /\ answer = "good"
                     /\ q.kind.jsonp # "no" => q.kind.transport = "xhr" \/ q.container = r
  PROVE  NamesInv(Done(t, r, answer))
<1> DEFINE q == t.requests[r]
           f == Finished(q)
           u == Set(t, r, f)
           v == Convert(u, r, answer)
           w == CleanUp(v, r)
           x == Push(w, r, "settled")
<1>1. CASE q.state = 2
  BY <1>1 DEF Done
<1>2. CASE q.state # 2
  <2>1. /\ q \in Requested /\ q.ends = 0 /\ r \in DOMAIN t.requests /\ Typed(t)
        /\ t.free \in Seq(Names) /\ t.window \in [Names -> Nat] /\ t.nonce \in Nat
        /\ t.requests \in Seq(Requested) /\ r \in Nat /\ DOMAIN t.requests = Ids
        /\ q.state \in 0 .. 2 /\ r # None
    <3>1. /\ q \in Requested /\ r \in DOMAIN t.requests /\ Typed(t)
          /\ t.free \in Seq(Names) /\ t.window \in [Names -> Nat] /\ t.nonce \in Nat
          /\ t.requests \in Seq(Requested) /\ r \in Nat /\ DOMAIN t.requests = Ids
      BY TypedParts DEF Of
    <3>2. EndsFit(q)
      BY <3>1 DEF LifeInv, Lives
    <3>3. r # None
      BY <3>1 DEF None
    <3> HIDE DEF q
    <3>4. q.ends = 0 /\ q.state \in 0 .. 2
      BY <1>2, <3>1, <3>2 DEF EndsFit, Requested
    <3> QED
      BY <3>1, <3>3, <3>4
  <2>2. /\ f \in Requested /\ f.kind = q.kind /\ f.name = q.name
        /\ f.overwritten = q.overwritten /\ f.wire = q.wire /\ f.answer = q.answer
        /\ f.container = q.container /\ f.state = 2 /\ ~f.transport
    <3> HIDE DEF q
    <3> QED
      BY <2>1, FinishedFits, FinishedNames
  <2> HIDE DEF f
  <2>3. /\ u.window = t.window /\ u.free = t.free /\ u.nonce = t.nonce
        /\ DOMAIN u.requests = DOMAIN t.requests /\ u.requests[r] = f
        /\ \A p \in DOMAIN t.requests : p # r => u.requests[p] = t.requests[p]
        /\ Typed(u)
    <3>1. Typed(u)
      BY <2>1, <2>2, SetTyped
    <3> QED
      BY <2>1, <3>1, SetParts
  <2>4. Of(u, r)
    BY <2>1, <2>3 DEF Of
  <2> HIDE DEF u
  <2>5. q.kind.jsonp = "auto" \/ q.kind.jsonp = "no"
    BY <2>1 DEF Generated, Page, Options, Requested
  <2>6. q.kind.jsonp = "auto" => Held(t, r)
    BY <1>2, <2>1 DEF NamesInv, Opens
  <2>7. q.state < 2
    BY <1>2, <2>1
  <2>8. /\ Of(v, r) /\ v.window = t.window /\ v.free = t.free /\ v.nonce = t.nonce
        /\ DOMAIN v.requests = DOMAIN t.requests
        /\ \A p \in DOMAIN t.requests : AsNamed(u.requests[p], v.requests[p])
        /\ \A p \in DOMAIN t.requests : p # r =>
             /\ v.requests[p].outcome = t.requests[p].outcome
             /\ v.requests[p].data = t.requests[p].data
        /\ answer \notin {"good", "bad", "empty"} => v.requests[r].outcome = "error"
        /\ /\ answer = "good"
           /\ f.kind.jsonp # "no" => \/ f.kind.transport = "xhr" /\ u.window[f.name] = r
                                     \/ f.kind.transport # "xhr" /\ f.container = r
           => v.requests[r].data = r
    BY <2>3, <2>4, ConvertNames, ConvertKeeps
  <2> HIDE DEF v
  <2>9. v.requests[r].kind = q.kind /\ v.requests[r].name = q.name
        /\ v.requests[r].overwritten = q.overwritten
    BY <2>1, <2>2, <2>3, <2>8 DEF AsNamed
  <2>10. /\ w.nonce = t.nonce
         /\ q.kind.jsonp = "no" => w.window = t.window /\ w.free = t.free
         /\ q.kind.jsonp = "auto" => /\ w.window = [t.window EXCEPT ![q.name] = None]
                                     /\ w.free = Append(t.free, q.name)
         /\ DOMAIN w.requests = DOMAIN t.requests
         /\ \A p \in DOMAIN t.requests : /\ AsNamed(v.requests[p], w.requests[p])
                                         /\ w.requests[p].outcome = v.requests[p].outcome
                                         /\ w.requests[p].data = v.requests[p].data
    <3>1. CASE q.kind.jsonp = "no"
      <4>1. w = v
        BY <2>9, <3>1 DEF CleanUp
      <4> QED
        BY <2>8, <3>1, <4>1 DEF AsNamed
    <3>2. CASE q.kind.jsonp = "auto"
      <4>1. v.requests[r].overwritten = None
        BY <2>6, <2>9, <3>2 DEF Held
      <4> DEFINE y == v.requests[r]
      <4>2. /\ w.nonce = v.nonce
            /\ y.kind.jsonp = "auto" => w.window = [v.window EXCEPT ![y.name] = None]
            /\ y.kind.jsonp = "auto" => w.free = Append(v.free, y.name)
            /\ DOMAIN w.requests = DOMAIN v.requests
            /\ \A p \in DOMAIN v.requests : /\ AsNamed(v.requests[p], w.requests[p])
                                            /\ w.requests[p].outcome = v.requests[p].outcome
                                            /\ w.requests[p].data = v.requests[p].data
        <5> HIDE DEF v
        <5>1. CleanUp(v, r) = w
          BY DEF w
        <5>2. Of(v, r)
          BY <2>8
        <5> HIDE DEF w
        <5> QED
          BY <4>1, <5>1, <5>2, CleanUpNames
      <4>3. y.kind = q.kind /\ y.name = q.name
        BY <2>9
      <4> HIDE DEF w, y, q
      <4> QED
        BY <2>8, <3>2, <4>2, <4>3
    <3> QED
      BY <2>5, <3>1, <3>2
  <2>11. Of(w, r)
    BY <2>8, CleanUpKeeps
  <2> HIDE DEF w
  <2>12. /\ Done(t, r, answer) = x
         /\ x.window = w.window /\ x.free = w.free /\ x.nonce = w.nonce /\ x.requests = w.requests
    <3>1. Done(t, r, answer) = x
      BY <1>2, Zenon DEF Done, f, u, v, w
    <3>2. Typed(w)
      BY <2>11 DEF Of
    <3> QED
      BY <3>1, <3>2, PushNames
  <2> HIDE DEF x
  <2>13. /\ DOMAIN x.requests = DOMAIN t.requests /\ x.nonce = t.nonce
         /\ \A p \in DOMAIN t.requests : p # r =>
              /\ AsNamed(t.requests[p], x.requests[p])
              /\ x.requests[p].outcome = t.requests[p].outcome
              /\ x.requests[p].data = t.requests[p].data
         /\ AsNamed(f, x.requests[r]) /\ x.requests[r].state = 2 /\ ~x.requests[r].transport
         /\ x.requests[r].outcome = v.requests[r].outcome
         /\ x.requests[r].data = v.requests[r].data
    <3>1. /\ DOMAIN u.requests = DOMAIN t.requests /\ u.requests[r] = f
          /\ \A p \in DOMAIN t.requests : p # r => u.requests[p] = t.requests[p]
      BY <2>1, <2>2, <2>3
    <3>2. /\ DOMAIN x.requests = DOMAIN t.requests /\ x.nonce = t.nonce
          /\ x.requests = w.requests
      BY <2>10, <2>12
    <3>3. \A p \in DOMAIN t.requests :
             /\ AsNamed(u.requests[p], x.requests[p])
             /\ x.requests[p].outcome = v.requests[p].outcome
             /\ x.requests[p].data = v.requests[p].data
      <4> TAKE p \in DOMAIN t.requests
      <4>1. AsNamed(u.requests[p], v.requests[p])
        BY <2>8
      <4>2. /\ AsNamed(v.requests[p], w.requests[p])
            /\ w.requests[p].outcome = v.requests[p].outcome
            /\ w.requests[p].data = v.requests[p].data
        BY <2>10
      <4>3. x.requests[p] = w.requests[p]
        BY <3>2
      <4> QED
        BY <4>1, <4>2, <4>3, Zenon DEF AsNamed
    <3>4. AsNamed(f, x.requests[r])
      BY <2>1, <3>1, <3>3
    <3> QED
      BY <2>1, <2>2, <2>8, <3>1, <3>2, <3>3, <3>4 DEF AsNamed
  <2>14. ~Opens(x.requests[r]) /\ (Opens(t.requests[r]) <=> q.kind.jsonp = "auto")
    BY <2>7, <2>13 DEF Opens
  <2>15. \A p \in DOMAIN t.requests : p # r => (Opens(x.requests[p]) <=> Opens(t.requests[p]))
    BY <2>13 DEF Opens, AsNamed
  <2>16. Delivers(x.requests[r], r)
    <3> DEFINE y == x.requests[r]
    <3>1. y.state = 2 /\ y.wire = q.wire /\ y.answer = q.answer /\ ~y.transport
          /\ y.kind = q.kind /\ Delivers(q, r)
          /\ y.outcome = v.requests[r].outcome /\ y.data = v.requests[r].data
      BY <2>1, <2>2, <2>13 DEF AsNamed, NamesInv
    <3>2. CASE answer \notin {"good", "bad", "empty"}
      BY <2>8, <3>1, <3>2 DEF Delivers
    <3>3. CASE /\ q.wire = "none"
               /\ q.answer = "good" =>
                    /\ answer = "good"
                    /\ q.kind.jsonp # "no" => q.kind.transport = "xhr" \/ q.container = r
      <4>1. q.kind.jsonp # "no" => t.window[q.name] = r
        BY <2>5, <2>6 DEF Held
      <4>2. q.answer = "good" => y.data = r
        BY <2>2, <2>3, <2>8, <3>1, <3>3, <4>1
      <4> HIDE DEF y
      <4>3. Delivers(y, r)
        BY <3>1, <3>3, <4>2 DEF Delivers
      <4> QED
        BY <4>3 DEF y
    <3> QED
      BY <3>2, <3>3
  <2>17. \A p \in DOMAIN x.requests : Delivers(x.requests[p], p)
    BY <2>13, <2>16 DEF NamesInv, Delivers, AsNamed
  <2>18. \A p \in DOMAIN t.requests : p # r /\ Opens(t.requests[p]) =>
            Held(t, p) /\ (q.kind.jsonp = "auto" => t.requests[p].name # q.name)
    BY <2>6 DEF NamesInv, Held
  <2>19. \A p \in DOMAIN x.requests : Opens(x.requests[p]) => Held(x, p)
    <3> SUFFICES ASSUME NEW p \in DOMAIN t.requests, Opens(x.requests[p])
                 PROVE  Held(x, p)
      BY <2>13
    <3>1. /\ p # r /\ Held(t, p) /\ AsNamed(t.requests[p], x.requests[p])
          /\ q.kind.jsonp = "auto" => t.requests[p].name # q.name
      BY <2>13, <2>14, <2>15, <2>18
    <3>2. CASE q.kind.jsonp = "no"
      <4>1. x.window = t.window /\ x.free = t.free /\ x.nonce = t.nonce
        BY <2>10, <2>12, <2>13, <3>2
      <4>2. /\ x.requests[p].name = t.requests[p].name
            /\ x.requests[p].overwritten = t.requests[p].overwritten
        BY <3>1 DEF AsNamed
      <4> QED
        BY <3>1, <4>1, <4>2, Zenon DEF Held
    <3>3. CASE q.kind.jsonp = "auto"
      <4> DEFINE n == t.requests[p].name
      <4>2. q.name \in Names /\ q.name # n /\ n \in Names
        <5>1. t.requests[p] \in Requested
          BY <2>1, TypedParts
        <5> QED
          BY <2>1, <3>1, <3>3, <5>1 DEF Requested
      <4>1. /\ x.window[n] = t.window[n] /\ x.free = Append(t.free, q.name)
        <5>1. /\ x.window = [t.window EXCEPT ![q.name] = None] /\ x.free = Append(t.free, q.name)
          BY <2>10, <2>12, <3>3
        <5> HIDE DEF q, n
        <5> QED
          BY <2>1, <4>2, <5>1
      <4>3. \A i \in DOMAIN x.free : x.free[i] # n
        <5>1. \A i \in DOMAIN t.free : t.free[i] # n
          BY <3>1 DEF Held
        <5>2. t.free \in Seq(Names)
          BY <2>1
        <5> HIDE DEF n, q
        <5>3. x.free = Append(t.free, q.name) /\ q.name # n /\ q.name \in Names
          BY <4>1, <4>2, Zenon
        <5> QED
          BY <5>1, <5>2, <5>3
      <4> QED
        BY <2>13, <3>1, <4>1, <4>3 DEF Held, AsNamed
    <3> QED
      BY <2>5, <3>2, <3>3
  <2>20. Freed(x)
    <3>1. CASE q.kind.jsonp = "no"
      BY <2>10, <2>12, <2>13, <3>1 DEF NamesInv, Freed
    <3>2. CASE q.kind.jsonp = "auto"
      <4>1. /\ q.name \in 1 .. t.nonce - 1 /\ \A i \in DOMAIN t.free : t.free[i] # q.name
            /\ q.name \in Names /\ x.free = Append(t.free, q.name) /\ Freed(t)
        BY <2>1, <2>6, <2>10, <2>12, <3>2 DEF Held, NamesInv, Requested
      <4> HIDE DEF q
      <4>2. \A i \in DOMAIN x.free : \/ i \in DOMAIN t.free /\ x.free[i] = t.free[i]
                                     \/ i = Len(t.free) + 1 /\ x.free[i] = q.name
        <5>1. t.free \in Seq(Names)
          BY <2>1
        <5>2. x.free = Append(t.free, q.name) /\ q.name \in Names
          BY <4>1, Zenon
        <5> QED
          BY <5>1, <5>2
      <4>3. \A i \in DOMAIN x.free : x.free[i] \in 1 .. t.nonce - 1
        BY <4>1, <4>2 DEF Freed
      <4>4. \A i, j \in DOMAIN x.free : x.free[i] = x.free[j] => i = j
        BY <4>1, <4>2 DEF Freed
      <4> QED
        BY <2>13, <4>3, <4>4 DEF Freed
    <3> QED
      BY <2>5, <3>1, <3>2
  <2>21. InWindow(x)
    <3>1. x.window[OwnName] = PageFunction
      <4>1. t.window[OwnName] = PageFunction
        BY DEF NamesInv, InWindow
      <4>2. CASE q.kind.jsonp = "no"
        BY <2>10, <2>12, <4>1, <4>2
      <4>3. CASE q.kind.jsonp = "auto"
        <5>1. q.name # OwnName
          BY <2>1, <2>6, <4>3 DEF Held, OwnName
        <5> HIDE DEF q
        <5>2. x.window = [t.window EXCEPT ![q.name] = None] /\ OwnName \in Names
          BY <2>10, <2>12, <4>3, <2>1 DEF OwnName, Names, Generated, Page
        <5> QED
          BY <2>1, <4>1, <5>1, <5>2
      <4> QED
        BY <2>5, <4>2, <4>3
    <3>2. ASSUME NEW n \in 1 .. MaxRequests, x.window[n] # None
          PROVE  \E p \in DOMAIN x.requests : Opens(x.requests[p]) /\ x.requests[p].name = n
      <4>1. t.window[n] # None /\ (q.kind.jsonp = "auto" => n # q.name)
        <5>1. CASE q.kind.jsonp = "no"
          BY <2>10, <2>12, <3>2, <5>1
        <5>2. CASE q.kind.jsonp = "auto"
          <6>1. x.window = [t.window EXCEPT ![q.name] = None] /\ n \in Names
            BY <2>10, <2>12, <3>2, <5>2 DEF Names, Generated, Page
          <6>2. q.name \in Names
            BY <2>1 DEF Requested
          <6> HIDE DEF q
          <6> QED
            BY <2>1, <3>2, <6>1, <6>2
        <5> QED
          BY <2>5, <5>1, <5>2
      <4>2. PICK p \in DOMAIN t.requests : Opens(t.requests[p]) /\ t.requests[p].name = n
        BY <4>1 DEF NamesInv, InWindow
      <4>3. p # r
        BY <2>14, <4>1, <4>2
      <4> QED
        BY <2>13, <2>15, <4>2, <4>3 DEF AsNamed
    <3> QED
      BY <3>1, <3>2 DEF InWindow
  <2>22. NamesInv(x)
    BY <2>17, <2>19, <2>20, <2>21 DEF NamesInv
  <2> QED
    BY <2>12, <2>22
<1> QED
  BY <1>1, <1>2

\* Steps of the stack leave the names alone.
LEMMA PlainNames ==
  ASSUME NEW t, NEW u, NamesInv(t), u.requests = t.requests, u.window = t.window,
         u.free = t.free, u.nonce = t.nonce
  PROVE  NamesInv(u)
BY DEF NamesInv, Held, Freed, InWindow

LEMMA PopNames ==
  ASSUME NEW t, NamesInv(t), Typed(t), t.stack # <<>>
  PROVE  NamesInv(Pop(t)) /\ Typed(Pop(t)) /\ Pop(t).requests = t.requests
<1>1. /\ Typed(Pop(t)) /\ Pop(t).requests = t.requests /\ Pop(t).window = t.window
      /\ Pop(t).free = t.free /\ Pop(t).nonce = t.nonce
  BY PopParts
<1> QED
  BY <1>1, PlainNames

LEMMA GoOnNames ==
  ASSUME NEW t, NamesInv(t), Typed(t), t.stack # <<>>, NEW at \in Ajaxing \cup Ending
  PROVE  NamesInv(GoOn(t, at)) /\ Typed(GoOn(t, at)) /\ GoOn(t, at).requests = t.requests
<1>1. /\ Typed(GoOn(t, at)) /\ GoOn(t, at).requests = t.requests
      /\ GoOn(t, at).window = t.window /\ GoOn(t, at).free = t.free
      /\ GoOn(t, at).nonce = t.nonce
  BY GoOnParts
<1> QED
  BY <1>1, PlainNames

LEMMA DropNames ==
  ASSUME NEW t, NEW r, NamesInv(t), Of(t, r)
  PROVE  NamesInv(DropListener(t, r))
<1> DEFINE q == t.requests[r]
           p == [q EXCEPT !.listens = FALSE, !.wire = IF q.kind.transport = "xhr" THEN "none" ELSE @]
<1>1. q \in Requested /\ Typed(t) /\ r \in DOMAIN t.requests
  BY TypedParts DEF Of
<1>2. Alike(q, p)
  <2> HIDE DEF q
  <2> QED
    BY <1>1 DEF Requested, Alike
<1>3. NamesInv(Set(t, r, p))
  <2> HIDE DEF p
  <2> QED
    BY <1>1, <1>2, AlikeSet
<1>4. DropListener(t, r) = IF ~q.listens THEN t ELSE Set(t, r, p)
  BY DEF DropListener
<1> HIDE DEF p, q
<1> QED
  BY <1>3, <1>4

LEMMA AbortNames ==
  ASSUME Generated, NEW t, NEW r, NamesInv(t), Of(t, r), LifeInv(t), NEW text,
         text \notin {"good", "bad", "empty"}
  PROVE  NamesInv(AbortRequest(t, r, text))
<1> DEFINE u == IF t.requests[r].transport THEN DropListener(t, r) ELSE t
<1>1. Of(u, r) /\ SameLife(t, u)
  BY DropKeeps DEF SameLife, AsAlive
<1>2. NamesInv(u)
  BY DropNames
<1>3. AbortRequest(t, r, text) = Done(u, r, text)
  BY DEF AbortRequest
<1> HIDE DEF u
<1>4. LifeInv(u)
  BY <1>1, SameLifeKeeps DEF Of
<1> QED
  BY <1>1, <1>2, <1>3, <1>4, DoneNames

LEMMA PrefiltersNames ==
  ASSUME LifeInv(s), NamesInv(s), AfterPrefilters
  PROVE  NamesInv(s')
<1> DEFINE q == s.requests[Top]
           t == GoOn(s, "before")
           b == FiresGlobals(q.kind)
           p == [q EXCEPT !.globals = b]
           u == [t EXCEPT !.requests[Top].globals = b, !.active = @ + IF b THEN 1 ELSE 0]
<1>1. /\ s.stack # <<>> /\ s.stack[1].at = "prefilter" /\ Of(s, Top) /\ q \in Requested /\ Typed(s)
  BY InvOf DEF AfterPrefilters, Waits, LifeInv
<1>2. s' = IF q.state = 2 THEN Pop(s) ELSE u
  BY DEF AfterPrefilters
<1>3. NamesInv(Pop(s))
  BY <1>1, PopNames
<1>4. /\ NamesInv(t) /\ Typed(t) /\ t.requests = s.requests
  <2> DEFINE at == "before"
  <2>1. at \in Ajaxing \cup Ending /\ t = GoOn(s, at)
    BY DEF Ajaxing
  <2> HIDE DEF at, t
  <2> QED
    BY <1>1, <2>1, GoOnNames
<1> HIDE DEF t
<1>5. Alike(t.requests[Top], p)
  <2> HIDE DEF q, b
  <2> QED
    BY <1>1, <1>4 DEF Requested, Alike, q
<1>6. NamesInv(Set(t, Top, p)) /\ Typed(t) /\ Top \in DOMAIN t.requests
  <2> HIDE DEF p
  <2> QED
    BY <1>1, <1>4, <1>5, AlikeSet DEF Of
<1> DEFINE v == Set(t, Top, p)
<1>7. u = [v EXCEPT !.active = t.active + IF b THEN 1 ELSE 0]
  BY <1>4 DEF Set
<1>8. t \in States
  BY <1>4 DEF Typed
<1>9. /\ u.requests = v.requests /\ u.window = v.window /\ u.free = v.free /\ u.nonce = v.nonce
  <2> HIDE DEF u, b, p
  <2> QED
    BY <1>7, <1>8 DEF Set, States
<1> HIDE DEF u
<1>10. NamesInv(u)
  BY <1>6, <1>9, PlainNames
<1> QED
  BY <1>2, <1>3, <1>10

LEMMA BeforeSendNames ==
  ASSUME Generated, LifeInv(s), NamesInv(s), NEW vetoes \in BOOLEAN, AfterBeforeSend(vetoes)
  PROVE  NamesInv(s')
<1> DEFINE q == s.requests[Top]
           t == GoOn(s, "send")
           p == [q EXCEPT !.transport = TRUE]
<1>1. /\ s.stack # <<>> /\ s.stack[1].at = "before" /\ Of(s, Top) /\ q \in Requested /\ Typed(s)
  BY InvOf DEF AfterBeforeSend, Waits, LifeInv
<1>2. s.stack[1].at \in Ajaxing
  BY <1>1 DEF Ajaxing
<1>3. \/ s' = AbortRequest(Pop(s), Top, "canceled")
      \/ s' = Done(Pop(s), Top, "failed")
      \/ q.kind.transport # "none" /\ s' = [t EXCEPT !.requests[Top].transport = TRUE]
  <2>1. CASE vetoes \/ q.state = 2
    BY <2>1 DEF AfterBeforeSend
  <2>2. CASE ~vetoes /\ q.state # 2 /\ q.kind.transport = "none"
    BY <2>2 DEF AfterBeforeSend
  <2>3. CASE ~vetoes /\ q.state # 2 /\ q.kind.transport # "none"
    BY <2>3 DEF AfterBeforeSend
  <2> QED
    BY <2>1, <2>2, <2>3
<1>4. /\ LifeInv(Pop(s)) /\ Of(Pop(s), Top) /\ NamesInv(Pop(s))
  <2>1. LifeInv(Pop(s)) /\ Pop(s).requests = s.requests
    BY <1>1, <1>2, PopKeeps
  <2>2. NamesInv(Pop(s))
    BY <1>1, PopNames
  <2> QED
    BY <1>1, <2>1, <2>2 DEF LifeInv, Of
<1>5. NamesInv(AbortRequest(Pop(s), Top, "canceled"))
  BY <1>4, AbortNames
<1>6. NamesInv(Done(Pop(s), Top, "failed"))
  BY <1>4, DoneNames
<1>7. ASSUME q.kind.transport # "none"
      PROVE  NamesInv([t EXCEPT !.requests[Top].transport = TRUE])
  <2>1. NamesInv(t) /\ Typed(t) /\ t.requests = s.requests
    <3> DEFINE at == "send"
    <3>1. at \in Ajaxing \cup Ending /\ t = GoOn(s, at)
      BY DEF Ajaxing
    <3> HIDE DEF at, t
    <3> QED
      BY <1>1, <3>1, GoOnNames
  <2>2. Alike(t.requests[Top], p)
    <3> HIDE DEF q, t
    <3> QED
      BY <1>1, <1>7, <2>1 DEF Requested, Alike, q
  <2>3. [t EXCEPT !.requests[Top].transport = TRUE] = Set(t, Top, p)
    BY <2>1, Zenon DEF Set
  <2>4. Top \in DOMAIN t.requests
    BY <1>1, <2>1 DEF Of
  <2> HIDE DEF t, p, q
  <2>5. NamesInv(Set(t, Top, p))
    BY <2>1, <2>2, <2>4, AlikeSet
  <2> QED
    BY <2>3, <2>5
<1> QED
  BY <1>3, <1>5, <1>6, <1>7

LEMMA AjaxSendNames ==
  ASSUME Generated, LifeInv(s), NamesInv(s), NEW result \in Answers \cup {"sends", "throws"},
         AfterAjaxSend(result)
  PROVE  NamesInv(s')
<1> DEFINE q == s.requests[Top]
           b == ~q.kind.sync /\ q.kind.timeout
           p == [q EXCEPT !.timer = b, !.state = 1]
           t == Set(Pop(s), Top, p)
           sent == [p EXCEPT !.listens = TRUE, !.wire = "sent"]
           answered == [p EXCEPT !.answer = result]
<1>1. /\ s.stack # <<>> /\ s.stack[1].at = "send" /\ Of(s, Top) /\ q \in Requested
      /\ AtFits(s.stack[1].at, q) /\ s.stack[1].r = Top /\ Typed(s)
  BY InvOf, Zenon DEF AfterAjaxSend, Waits, Top, LifeInv
<1>2. s.stack[1].at \in Ajaxing /\ q.state = 0 /\ b \in BOOLEAN /\ Delivers(q, Top)
  BY <1>1 DEF Ajaxing, AtFits, NamesInv, Of, Ids
<1>3. /\ LifeInv(Pop(s)) /\ Pop(s).requests = s.requests /\ NamesInv(Pop(s)) /\ Typed(Pop(s))
      /\ \A i \in DOMAIN Pop(s).stack : Pop(s).stack[i].r = Top => Pop(s).stack[i].at \in Ending
  <2>1. /\ LifeInv(Pop(s)) /\ Pop(s).requests = s.requests
        /\ \A i \in DOMAIN Pop(s).stack : Pop(s).stack[i].r = Top => Pop(s).stack[i].at \in Ending
    BY <1>1, <1>2, PopKeeps
  <2> QED
    BY <1>1, <2>1, PopNames
<1>4. Top \in DOMAIN Pop(s).requests /\ Pop(s).requests[Top] = q
  BY <1>1, <1>3 DEF Of
<1>5. LifeInv(t)
  <2> HIDE DEF b
  <2> QED
    BY <1>2, <1>3, <1>4, SentKeeps
<1>6. /\ Alike(q, p) /\ p.state = 1 /\ p.kind = q.kind /\ p.wire = q.wire /\ p.answer = q.answer
      /\ p.transport = q.transport /\ p.name = q.name /\ p.overwritten = q.overwritten
      /\ p.outcome = q.outcome /\ p.data = q.data
  <2> DEFINE o == [q EXCEPT !.timer = b]
  <2>1. /\ o \in Requested /\ o.state = 0 /\ o.kind = q.kind /\ o.wire = q.wire
        /\ o.answer = q.answer /\ o.transport = q.transport /\ o.name = q.name
        /\ o.overwritten = q.overwritten /\ o.outcome = q.outcome /\ o.data = q.data
    <3> HIDE DEF q, b
    <3> QED
      BY <1>1, <1>2 DEF Requested
  <2>2. p = [o EXCEPT !.state = 1]
    OBVIOUS
  <2> HIDE DEF o, p, q
  <2>3. /\ p.state = 1 /\ p.kind = o.kind /\ p.wire = o.wire /\ p.answer = o.answer
        /\ p.transport = o.transport /\ p.name = o.name /\ p.overwritten = o.overwritten
        /\ p.outcome = o.outcome /\ p.data = o.data
    BY <2>1, <2>2 DEF Requested
  <2> QED
    BY <1>2, <2>1, <2>3 DEF Alike
<1>7. /\ NamesInv(t) /\ t.requests[Top] = p /\ DOMAIN t.requests = DOMAIN s.requests /\ Typed(t)
  <2> HIDE DEF p, q
  <2> QED
    BY <1>3, <1>4, <1>5, <1>6, AlikeSet, SetParts DEF LifeInv
<1>8. Of(t, Top) /\ p \in Requested
  BY <1>1, <1>7, TypedParts DEF Of
<1> HIDE DEF t
<1>9. \/ s' = Done(t, Top, "failed")
      \/ q.transport /\ s' = [t EXCEPT !.requests[Top].listens = TRUE, !.requests[Top].wire = "sent"]
      \/ /\ result \in Answers /\ q.transport /\ q.kind.sync
         /\ s' = Done([t EXCEPT !.requests[Top].answer = result], Top, result)
  <2>1. CASE ~q.transport \/ result = "throws"
    BY <2>1, Zenon DEF AfterAjaxSend, t
  <2>2. CASE q.transport /\ result = "sends"
    BY <2>2, Zenon DEF AfterAjaxSend, t
  <2>3. CASE q.transport /\ result # "sends" /\ result # "throws"
    BY <2>3, Zenon DEF AfterAjaxSend, t
  <2> QED
    BY <2>1, <2>2, <2>3
<1> HIDE DEF p
<1>10. NamesInv(Done(t, Top, "failed"))
  BY <1>5, <1>7, <1>8, DoneNames
<1>11. ASSUME q.transport
       PROVE  NamesInv(Set(t, Top, sent))
  <2>1. Alike(p, sent)
    BY <1>6, <1>8, <1>11 DEF Requested, Alike
  <2> HIDE DEF sent
  <2> QED
    BY <1>7, <1>8, <2>1, AlikeSet DEF Of
<1>12. [t EXCEPT !.requests[Top].listens = TRUE, !.requests[Top].wire = "sent"] = Set(t, Top, sent)
  <2>1. Top \in DOMAIN t.requests
    BY <1>8 DEF Of
  <2>2. t \in States /\ t.requests \in Seq(Requested)
    BY <1>7, TypedParts DEF Typed
  <2>3. [t EXCEPT !.requests[Top].listens = TRUE, !.requests[Top].wire = "sent"]
          = [t EXCEPT !.requests = [t.requests EXCEPT ![Top] = [@ EXCEPT !.listens = TRUE, !.wire = "sent"]]]
    BY <2>1, <2>2 DEF States
  <2> QED
    BY <1>7, <2>1, <2>3 DEF Set
<1>13. ASSUME result \in Answers, q.transport, q.kind.sync
       PROVE  NamesInv(Done([t EXCEPT !.requests[Top].answer = result], Top, result))
  <2> DEFINE u == Set(t, Top, answered)
  <2>1. /\ answered \in Requested /\ AsAlive(p, answered) /\ Alike(p, answered)
        /\ answered.answer = result /\ answered.kind = q.kind /\ answered.wire = q.wire
    BY <1>6, <1>8, <1>13 DEF Requested, AsAlive, Alike
  <2>2. [t EXCEPT !.requests[Top].answer = result] = u
    BY <1>7 DEF Set
  <2> HIDE DEF answered
  <2>3. Of(u, Top) /\ SameLife(t, u)
    BY <1>7, <1>8, <2>1, SetKeeps
  <2>4. NamesInv(u) /\ u.requests[Top] = answered
    BY <1>7, <1>8, <2>1, AlikeSet, SetParts DEF Of
  <2> HIDE DEF u
  <2>5. LifeInv(u)
    BY <1>5, <2>3, SameLifeKeeps DEF Of
  <2>6. q.wire = "none" /\ q.kind.transport = "xhr"
    <3>1. q.wire = "none" /\ q.kind.transport # "none"
      BY <1>1, <1>2, <1>13 DEF Delivers, Requested
    <3>2. q.kind.transport # "script" /\ q.kind.transport \in {"xhr", "script", "none"}
      BY <1>1, <1>13 DEF Generated, Page, Options, Requested
    <3> QED
      BY <3>1, <3>2
  <2>7. /\ u.requests[Top].wire = "none" /\ u.requests[Top].answer = result
        /\ u.requests[Top].kind.transport = "xhr"
    BY <2>1, <2>4, <2>6
  <2>8. NamesInv(Done(u, Top, result))
    <3> HIDE DEF q
    <3> QED
      BY <2>3, <2>4, <2>5, <2>7, DoneNames
  <2> QED
    BY <2>2, <2>8
<1> HIDE DEF sent, answered, q
<1> QED
  BY <1>9, <1>10, <1>11, <1>12, <1>13

LEMMA SettledNames ==
  ASSUME LifeInv(s), NamesInv(s), AfterSettled
  PROVE  NamesInv(s')
<1> DEFINE at == "completed"
<1>1. /\ s.stack # <<>> /\ Typed(s) /\ s' = GoOn(s, at) /\ at \in Ajaxing \cup Ending
  BY DEF AfterSettled, Waits, LifeInv, Ending
<1> HIDE DEF at
<1> QED
  BY <1>1, GoOnNames

LEMMA CompletedNames ==
  ASSUME LifeInv(s), NamesInv(s), AfterCompleted
  PROVE  NamesInv(s')
<1> DEFINE t == Pop(s)
           active == t.active - IF s.requests[Top].globals THEN 1 ELSE 0
<1>1. Typed(t) /\ NamesInv(t)
  BY PopNames DEF AfterCompleted, Waits, LifeInv
<1>2. s' = [t EXCEPT !.active = active]
  BY DEF AfterCompleted
<1> HIDE DEF active, t
<1>3. /\ s'.requests = t.requests /\ s'.window = t.window /\ s'.free = t.free
      /\ s'.nonce = t.nonce
  BY <1>1, <1>2 DEF Typed, States
<1> QED
  BY <1>1, <1>3, PlainNames

LEMMA AbortStepNames ==
  ASSUME Generated, LifeInv(s), NamesInv(s), NEW r \in Ids, Abort(r)
  PROVE  NamesInv(s')
BY InvOf, AbortNames DEF Abort

LEMMA TimeoutNames ==
  ASSUME Generated, LifeInv(s), NamesInv(s), NEW r \in Ids, Timeout(r)
  PROVE  NamesInv(s')
<1> DEFINE q == [s.requests[r] EXCEPT !.timer = FALSE]
           t == Set(s, r, q)
<1>1. s' = AbortRequest(t, r, "timeout") /\ s.stack = <<>>
  BY DEF Timeout, Set
<1>2. Of(s, r) /\ s.requests[r] \in Requested /\ Typed(s) /\ r \in DOMAIN s.requests
  BY InvOf DEF LifeInv, Of
<1>3. Alike(s.requests[r], q) /\ q \in Requested
  BY <1>2 DEF Requested, Alike
<1>5. NamesInv(t)
  <2> HIDE DEF q
  <2> QED
    BY <1>2, <1>3, AlikeSet
<1>6. LifeInv(t) /\ Of(t, r)
  BY <1>1, TimerKeeps
<1> HIDE DEF q, t
<1> QED
  BY <1>1, <1>5, <1>6, AbortNames

LEMMA AnswerNames ==
  ASSUME Generated, LifeInv(s), NamesInv(s), NEW r \in Ids, NEW answer \in Answers,
         Answer(r, answer)
  PROVE  NamesInv(s')
<1> DEFINE q == s.requests[r]
           script == q.kind.transport = "script"
           p == [q EXCEPT !.wire = "none", !.listens = FALSE, !.answer = answer]
           lost == [q EXCEPT !.wire = "none"]
           t == Set(s, r, p)
           u == IF script /\ answer = "good" THEN RunScript(t, r) ELSE t
           unnoticed == script /\ answer \in {"failed", "refused"}
           given == IF script THEN "good" ELSE answer
<1>1. /\ Of(s, r) /\ q \in Requested /\ s.stack = <<>> /\ Typed(s) /\ r \in DOMAIN s.requests
      /\ q.wire = "sent" /\ Delivers(q, r)
  BY InvOf DEF Answer, Of, NamesInv
<1>2. /\ p \in Requested /\ AsAlive(q, p) /\ Alike(q, p) /\ lost \in Requested /\ Alike(q, lost)
      /\ p.wire = "none" /\ p.answer = answer /\ p.kind = q.kind
  <2> HIDE DEF q
  <2> QED
    BY <1>1 DEF Requested, AsAlive, Alike
<1> HIDE DEF p, lost
<1>3. /\ Of(t, r) /\ SameLife(s, t) /\ NamesInv(Set(s, r, lost)) /\ NamesInv(t)
      /\ t.requests[r] = p
  <2> HIDE DEF q
  <2> QED
    BY <1>1, <1>2, SetKeeps, AlikeSet, SetParts DEF q
<1> HIDE DEF t
<1>4. Of(u, r) /\ SameLife(s, u) /\ SameNames(t, u)
  <2>1. /\ Of(RunScript(t, r), r) /\ SameLife(s, RunScript(t, r)) /\ SameNames(t, RunScript(t, r))
    BY <1>3, RunKeeps, RunNames, LifeTransitive
  <2>2. SameNames(t, t)
    BY DEF SameNames, AsNamed
  <2> QED
    BY <1>3, <2>1, <2>2
<1>5. \/ s' = Set(s, r, lost)
      \/ ~unnoticed /\ s' = Done(u, r, given)
      \/ s' = u
  <2>1. CASE unnoticed
    BY <2>1 DEF Answer, Set, lost
  <2>2. CASE ~unnoticed
    BY <2>2 DEF Answer, t, p
  <2> QED
    BY <2>1, <2>2
<1>6. script /\ answer = "good" /\ Opens(p) => u.requests[r].container = r
  <2>1. Opens(p) => t.window[p.name] = r /\ p.kind.jsonp # "no"
    BY <1>3 DEF NamesInv, Held, Opens, Of
  <2> QED
    BY <1>3, <2>1, RunNames
<1> HIDE DEF u
<1>7. NamesInv(u)
  <2>1. AlikeNames(t, u)
    BY <1>4 DEF SameNames, AsNamed, AlikeNames, Alike
  <2> QED
    BY <1>3, <2>1, AlikeKeeps DEF Of
<1>8. LifeInv(u)
  BY <1>4, SameLifeKeeps DEF Of
<1>9. ASSUME ~unnoticed
      PROVE  NamesInv(Done(u, r, given))
  <2>1. /\ u.requests[r].wire = "none" /\ u.requests[r].answer = answer
        /\ u.requests[r].kind = q.kind /\ u.requests[r].state = p.state
    BY <1>2, <1>3, <1>4 DEF SameNames, AsNamed, Of
  <2>2. CASE p.state = 2
    BY <1>7, <2>1, <2>2 DEF Done
  <2>3. CASE p.state # 2
    <3>1. p.state < 2
      BY <1>2, <2>3 DEF Requested
    <3>2. q.kind.transport \in {"xhr", "script"}
      BY <1>1 DEF Delivers, Requested, Generated, Page, Options
    <3>3. q.kind.jsonp \in {"no", "auto"}
      BY <1>1 DEF Requested, Generated, Page, Options
    <3>4. answer = "good" =>
            /\ given = "good"
            /\ q.kind.jsonp # "no" => q.kind.transport = "xhr" \/ u.requests[r].container = r
      BY <1>2, <1>6, <3>1, <3>2, <3>3 DEF Opens
    <3> HIDE DEF q, given
    <3> QED
      BY <1>4, <1>7, <1>8, <2>1, <3>4, DoneNames
  <2> QED
    BY <2>2, <2>3
<1> HIDE DEF given, q
<1> QED
  BY <1>3, <1>5, <1>7, <1>9

\* The prefilter gives a request a name that was free, or one not used before.
LEMMA PrefilterNames ==
  ASSUME Generated, NEW t, NEW r, Typed(t), r \in DOMAIN t.requests,
         t.nonce <= Len(t.requests), t.requests[r].kind.jsonp = "auto"
  PROVE  LET u == Prefilter(t, r)
             q == t.requests[r]
             p == u.requests[r]
             name == IF t.free # <<>> THEN t.free[Len(t.free)] ELSE t.nonce
         IN  /\ name \in Names /\ u.window = [t.window EXCEPT ![name] = r]
             /\ u.free = IF t.free # <<>> THEN SubSeq(t.free, 1, Len(t.free) - 1) ELSE t.free
             /\ u.nonce = IF t.free # <<>> THEN t.nonce ELSE t.nonce + 1
             /\ DOMAIN u.requests = DOMAIN t.requests
             /\ p.name = name /\ p.overwritten = t.window[name]
             /\ p.kind = q.kind /\ p.state = q.state /\ p.outcome = q.outcome /\ p.data = q.data
             /\ p.wire = q.wire /\ p.answer = q.answer /\ p.transport = q.transport
             /\ \A i \in DOMAIN t.requests : i # r => u.requests[i] = t.requests[i]
<1> DEFINE q == t.requests[r]
           name == IF t.free # <<>> THEN t.free[Len(t.free)] ELSE t.nonce
           p == [q EXCEPT !.name = name, !.overwritten = t.window[name]]
           window == [t.window EXCEPT ![name] = r]
           free == IF t.free # <<>> THEN SubSeq(t.free, 1, Len(t.free) - 1) ELSE t.free
           nonce == IF t.free # <<>> THEN t.nonce ELSE t.nonce + 1
           v == Set(t, r, p)
           u == [v EXCEPT !.window = window, !.free = free, !.nonce = nonce]
<1>1. /\ q \in Requested /\ t.free \in Seq(Names) /\ t.window \in [Names -> Nat] /\ t \in States
      /\ t.nonce \in Nat \ {0} /\ t.requests \in Seq(Requested)
      /\ Len(t.requests) <= MaxRequests /\ Len(t.requests) \in Nat /\ MaxRequests \in Nat
  BY TypedParts DEF Typed, Generated, Page
<1>2. name \in Names
  <2>1. t.free # <<>> => t.free[Len(t.free)] \in Names
    BY <1>1
  <2>2. t.nonce \in Names
    BY <1>1 DEF Names
  <2> QED
    BY <2>1, <2>2
<1> HIDE DEF name, free, nonce
<1>3. /\ p.name = name /\ p.overwritten = t.window[name]
      /\ p.kind = q.kind /\ p.state = q.state /\ p.outcome = q.outcome /\ p.data = q.data
      /\ p.wire = q.wire /\ p.answer = q.answer /\ p.transport = q.transport
  <2> HIDE DEF q
  <2> QED
    BY <1>1 DEF Requested
<1> HIDE DEF window
<1>4. Prefilter(t, r) = u
  <2>1. Prefilter(t, r)
          = [t EXCEPT !.requests[r].name = name, !.requests[r].overwritten = t.window[name],
                      !.window = window, !.free = free, !.nonce = nonce]
    BY DEF Prefilter, name, window, free, nonce
  <2>2. [t EXCEPT !.requests[r].name = name, !.requests[r].overwritten = t.window[name],
                      !.window = window, !.free = free, !.nonce = nonce] = u
    BY <1>1 DEF Set, States
  <2> QED
    BY <2>1, <2>2
<1>5. /\ DOMAIN v.requests = DOMAIN t.requests /\ v.requests[r] = p
      /\ \A i \in DOMAIN t.requests : i # r => v.requests[i] = t.requests[i]
  <2> HIDE DEF p
  <2> QED
    BY SetParts
<1>6. /\ u.requests = v.requests /\ u.window = window /\ u.free = free /\ u.nonce = nonce
  <2> HIDE DEF p
  <2> QED
    BY <1>1 DEF Set, States
<1> HIDE DEF u, v, p
<1> QED
  BY <1>2, <1>3, <1>4, <1>5, <1>6 DEF name, window, free, nonce

\* Nobody holds a name that is free or new, and window has nothing of that name.
LEMMA NameIsFree ==
  ASSUME Generated, Typed(s), NamesInv(s), Len(s.requests) < MaxRequests
  PROVE  LET name == IF s.free # <<>> THEN s.free[Len(s.free)] ELSE s.nonce
         IN  /\ name \in 1 .. MaxRequests /\ s.window[name] = None
             /\ \A p \in Ids : Opens(s.requests[p]) => s.requests[p].name # name
<1> DEFINE name == IF s.free # <<>> THEN s.free[Len(s.free)] ELSE s.nonce
<1>1. /\ s.free \in Seq(Names) /\ s.nonce \in Nat \ {0} /\ s.nonce <= Len(s.requests) + 1
      /\ Len(s.requests) \in Nat /\ MaxRequests \in Nat
  <2>1. s.free \in Seq(Names) /\ s.nonce \in Nat \ {0} /\ s.requests \in Seq(Requested)
    BY TypedParts
  <2> QED
    BY <2>1 DEF Typed, Generated, Page
<1>2. CASE s.free # <<>>
  <2>1. Len(s.free) \in DOMAIN s.free /\ name = s.free[Len(s.free)]
    BY <1>1, <1>2
  <2>2. name \in 1 .. s.nonce - 1
    BY <2>1 DEF NamesInv, Freed
  <2>3. \A p \in Ids : Opens(s.requests[p]) => s.requests[p].name # name
    BY <2>1 DEF NamesInv, Held, Ids
  <2>4. name \in 1 .. MaxRequests
    BY <1>1, <2>2
  <2> HIDE DEF name
  <2>5. s.window[name] = None
    BY <2>3, <2>4 DEF NamesInv, InWindow, Ids
  <2> QED
    BY <2>3, <2>4, <2>5 DEF name
<1>3. CASE s.free = <<>>
  <2>1. name = s.nonce
    BY <1>3
  <2>2. \A p \in Ids : Opens(s.requests[p]) => s.requests[p].name # name
    BY <1>1, <2>1 DEF NamesInv, Held, Ids
  <2>3. name \in 1 .. MaxRequests
    BY <1>1, <2>1
  <2> HIDE DEF name
  <2>4. s.window[name] = None
    BY <2>2, <2>3 DEF NamesInv, InWindow, Ids
  <2> QED
    BY <2>2, <2>3, <2>4 DEF name
<1> QED
  BY <1>2, <1>3

LEMMA BeginNames ==
  ASSUME Generated, LifeInv(s), NamesInv(s), NEW kind \in Kinds, Begin(kind)
  PROVE  NamesInv(s')
<1> DEFINE r == Len(s.requests) + 1
           q == Request(kind)
           t == [s EXCEPT !.requests = Append(@, q)]
           u == Prefilter(t, r)
           name == IF s.free # <<>> THEN s.free[Len(s.free)] ELSE s.nonce
<1>1. /\ Typed(s) /\ s \in States /\ s.requests \in Seq(Requested) /\ Len(s.requests) \in Nat
      /\ s.nonce <= Len(s.requests) + 1 /\ s.nonce \in Nat \ {0} /\ s.free \in Seq(Names)
      /\ s.window \in [Names -> Nat] /\ MaxRequests \in Nat
  BY TypedParts DEF LifeInv, Typed, Generated, Page
<1>2. r <= MaxRequests /\ s' = Push(u, r, "prefilter")
  BY DEF Begin
<1>3. /\ q \in Requested /\ q.kind = kind /\ q.state = 0 /\ ~q.transport /\ q.wire = "none"
      /\ q.outcome = "none" /\ q.answer = "none" /\ kind.jsonp \in {"no", "auto"}
  BY DEF Request, Requested, OwnName, None, Names, Generated, Page, Options
<1> HIDE DEF q
<1>4. /\ Append(s.requests, q) \in Seq(Requested) /\ Len(Append(s.requests, q)) = r
      /\ Append(s.requests, q)[r] = q
      /\ DOMAIN Append(s.requests, q) = DOMAIN s.requests \cup {r}
      /\ r \notin DOMAIN s.requests
      /\ \A i \in DOMAIN s.requests : Append(s.requests, q)[i] = s.requests[i]
  BY <1>1, <1>3
<1>5. /\ t \in States /\ t.requests = Append(s.requests, q) /\ t.stack = s.stack
      /\ t.nonce = s.nonce /\ t.free = s.free /\ t.window = s.window
  BY <1>1, <1>4 DEF States
<1> HIDE DEF t
<1>6. Typed(t) /\ r \in DOMAIN t.requests /\ t.nonce <= Len(t.requests)
  <2>1. \A i \in DOMAIN s.stack : s.stack[i].r \in DOMAIN s.requests
    BY <1>1 DEF Typed
  <2> QED
    BY <1>1, <1>2, <1>4, <1>5, <2>1 DEF Typed
<1>7. Typed(u)
  BY <1>6, PrefilterKeeps DEF Generated, Page
<1>8. ~Opens(t.requests[r]) => NamesInv(t)
  <2> SUFFICES ASSUME ~Opens(t.requests[r]) PROVE NamesInv(t)
    OBVIOUS
  <2>1. \A p \in DOMAIN t.requests : Opens(t.requests[p]) => Held(t, p)
    BY <1>4, <1>5 DEF NamesInv, Held
  <2>2. \A p \in DOMAIN t.requests : Delivers(t.requests[p], p)
    BY <1>3, <1>4, <1>5 DEF NamesInv, Delivers
  <2>3. Freed(t) /\ InWindow(t)
    BY <1>4, <1>5 DEF NamesInv, Freed, InWindow
  <2> QED
    BY <2>1, <2>2, <2>3 DEF NamesInv
<1>9. CASE kind.jsonp = "no"
  <2>1. t.requests[r].kind.jsonp = "no"
    BY <1>3, <1>4, <1>5, <1>9
  <2>2. u = t /\ NamesInv(t)
    BY <1>8, <2>1 DEF Prefilter, Opens
  <2> HIDE DEF u
  <2> QED
    BY <1>2, <1>7, <2>2, PushNames, PlainNames
<1>10. CASE kind.jsonp = "auto"
  <2> DEFINE p == u.requests[r]
  <2>1. t.requests[r].kind.jsonp = "auto"
    BY <1>3, <1>4, <1>5, <1>10
  <2>2. /\ name \in Names /\ u.window = [s.window EXCEPT ![name] = r]
        /\ u.free = IF s.free # <<>> THEN SubSeq(s.free, 1, Len(s.free) - 1) ELSE s.free
        /\ u.nonce = IF s.free # <<>> THEN s.nonce ELSE s.nonce + 1
        /\ DOMAIN u.requests = DOMAIN s.requests \cup {r}
        /\ p.name = name /\ p.overwritten = s.window[name]
        /\ p.kind = kind /\ p.state = 0 /\ p.outcome = "none"
        /\ p.wire = "none" /\ p.answer = "none" /\ ~p.transport
        /\ \A i \in DOMAIN s.requests : u.requests[i] = s.requests[i]
    <3> DEFINE named == IF t.free # <<>> THEN t.free[Len(t.free)] ELSE t.nonce
    <3>1. named = name
      BY <1>5
    <3>2. /\ named \in Names /\ u.window = [t.window EXCEPT ![named] = r]
          /\ u.free = IF t.free # <<>> THEN SubSeq(t.free, 1, Len(t.free) - 1) ELSE t.free
          /\ u.nonce = IF t.free # <<>> THEN t.nonce ELSE t.nonce + 1
          /\ DOMAIN u.requests = DOMAIN t.requests
          /\ p.name = named /\ p.overwritten = t.window[named]
          /\ p.kind = t.requests[r].kind /\ p.state = t.requests[r].state
          /\ p.outcome = t.requests[r].outcome
          /\ p.wire = t.requests[r].wire /\ p.answer = t.requests[r].answer
          /\ p.transport = t.requests[r].transport
          /\ \A i \in DOMAIN t.requests : i # r => u.requests[i] = t.requests[i]
      <4> HIDE DEF r
      <4> QED
        BY <1>6, <2>1, PrefilterNames
    <3> HIDE DEF u, name, named, r
    <3> QED
      BY <1>3, <1>4, <1>5, <3>1, <3>2
  <2>3. /\ name \in 1 .. MaxRequests /\ s.window[name] = None
        /\ \A i \in DOMAIN s.requests : Opens(s.requests[i]) => s.requests[i].name # name
    <3>1. Len(s.requests) < MaxRequests
      BY <1>1, <1>2
    <3> QED
      BY <1>1, <3>1, NameIsFree DEF Ids
  <2>4. /\ name \in 1 .. u.nonce - 1 /\ u.nonce \in Nat /\ s.nonce <= u.nonce
        /\ \A i \in DOMAIN u.free : /\ i \in DOMAIN s.free /\ u.free[i] = s.free[i]
                                    /\ u.free[i] # name
    <3>1. CASE s.free # <<>>
      <4>1. name = s.free[Len(s.free)] /\ Len(s.free) \in DOMAIN s.free
            /\ u.free = SubSeq(s.free, 1, Len(s.free) - 1) /\ u.nonce = s.nonce
        BY <1>1, <2>2, <3>1
      <4> HIDE DEF u, name
      <4>2. \A i \in DOMAIN u.free : /\ i \in DOMAIN s.free /\ u.free[i] = s.free[i]
                                     /\ i # Len(s.free)
        BY <1>1, <3>1, <4>1
      <4>3. name \in 1 .. s.nonce - 1
        BY <4>1 DEF NamesInv, Freed
      <4>4. \A i \in DOMAIN u.free : u.free[i] # name
        BY <4>1, <4>2 DEF NamesInv, Freed
      <4> QED
        BY <1>1, <4>1, <4>2, <4>3, <4>4
    <3>2. CASE s.free = <<>>
      <4>1. name = s.nonce /\ u.free = s.free /\ u.nonce = s.nonce + 1
        BY <2>2, <3>2
      <4> HIDE DEF u, name
      <4>2. DOMAIN u.free = {}
        BY <3>2, <4>1
      <4> QED
        BY <1>1, <4>1, <4>2
    <3> QED
      BY <3>1, <3>2
  <2> HIDE DEF u, name
  <2>5. Opens(p)
    BY <1>10, <2>2 DEF Opens
  <2>6. u.window[name] = r /\ \A n \in Names : n # name => u.window[n] = s.window[n]
    <3> HIDE DEF r
    <3> QED
      BY <1>1, <2>2
  <2>7. Held(u, r)
    BY <2>2, <2>3, <2>4, <2>6 DEF Held
  <2>8. \A i \in DOMAIN s.requests : Opens(s.requests[i]) => Held(u, i)
    <3> SUFFICES ASSUME NEW i \in DOMAIN s.requests, Opens(s.requests[i])
                 PROVE  Held(u, i)
      OBVIOUS
    <3>1. Held(s, i) /\ u.requests[i] = s.requests[i] /\ s.requests[i].name # name
      BY <2>2, <2>3 DEF NamesInv
    <3> DEFINE old == s.requests[i]
    <3>2. old.name \in Names
      BY <1>1, TypedParts DEF Requested
    <3> HIDE DEF old
    <3>3. /\ old.name \in 1 .. s.nonce - 1 /\ s.window[old.name] = i /\ old.overwritten = None
          /\ \A j \in DOMAIN s.free : s.free[j] # old.name
      BY <3>1, Zenon DEF Held, old
    <3>4. u.requests[i] = old /\ old.name # name
      BY <3>1, Zenon DEF old
    <3>5. old.name \in 1 .. u.nonce - 1
      <4>1. s.nonce \in Nat /\ u.nonce \in Nat /\ s.nonce <= u.nonce
        BY <1>1, <2>4
      <4> QED
        BY <3>3, <4>1
    <3>6. u.window[old.name] = i
      BY <2>6, <3>2, <3>3, <3>4, Zenon
    <3>7. \A j \in DOMAIN u.free : u.free[j] # old.name
      BY <2>4, <3>3, Zenon
    <3> QED
      BY <3>3, <3>4, <3>5, <3>6, <3>7, Zenon DEF Held
  <2>9. \A i \in DOMAIN u.requests : Opens(u.requests[i]) => Held(u, i)
    BY <2>2, <2>7, <2>8
  <2>10. \A i \in DOMAIN u.requests : Delivers(u.requests[i], i)
    BY <2>2 DEF NamesInv, Delivers
  <2>11. Freed(u)
    <3>1. s.nonce \in Nat /\ u.nonce \in Nat /\ s.nonce <= u.nonce /\ Freed(s)
      BY <1>1, <2>4 DEF NamesInv
    <3>2. \A i \in DOMAIN u.free : u.free[i] \in 1 .. u.nonce - 1
      BY <2>4, <3>1 DEF Freed
    <3>3. \A i, j \in DOMAIN u.free : u.free[i] = u.free[j] => i = j
      BY <2>4, <3>1, Zenon DEF Freed
    <3> QED
      BY <3>2, <3>3, Zenon DEF Freed
  <2>12. InWindow(u)
    <3>1. u.window[OwnName] = PageFunction
      <4>1. OwnName \in Names /\ OwnName # name
        BY <1>1, <2>3 DEF OwnName, Names
      <4>2. s.window[OwnName] = PageFunction
        BY DEF NamesInv, InWindow
      <4> QED
        BY <2>6, <4>1, <4>2
    <3>2. ASSUME NEW n \in 1 .. MaxRequests, u.window[n] # None
          PROVE  \E i \in DOMAIN u.requests : Opens(u.requests[i]) /\ u.requests[i].name = n
      <4>1. CASE n = name
        BY <2>2, <2>5, <4>1
      <4>2. CASE n # name
        <5>1. n \in Names
          BY <1>1 DEF Names
        <5>2. s.window[n] # None
          BY <2>6, <3>2, <4>2, <5>1
        <5>3. PICK i \in DOMAIN s.requests : Opens(s.requests[i]) /\ s.requests[i].name = n
          BY <5>2 DEF NamesInv, InWindow
        <5> QED
          BY <2>2, <5>3
      <4> QED
        BY <4>1, <4>2
    <3> QED
      BY <3>1, <3>2 DEF InWindow
  <2>13. NamesInv(u)
    BY <2>9, <2>10, <2>11, <2>12 DEF NamesInv
  <2> HIDE DEF r
  <2> QED
    BY <1>2, <1>7, <2>13, PushNames, PlainNames
<1> QED
  BY <1>3, <1>9, <1>10

LEMMA NamesInit ==
  ASSUME Generated, Init
  PROVE  NamesInv(s)
<1>1. /\ s.requests = <<>> /\ s.free = <<>>
      /\ s.window = [n \in Names |-> IF n = OwnName THEN PageFunction ELSE None]
  BY DEF Init, Starts, Names
<1>2. DOMAIN s.requests = {} /\ DOMAIN s.free = {}
  BY <1>1
<1>3. InWindow(s)
  BY <1>1 DEF InWindow, Names, OwnName, Generated, Page
<1> QED
  BY <1>2, <1>3 DEF NamesInv, Freed

LEMMA NamesNext ==
  ASSUME Generated, LifeInv(s), NamesInv(s), [Next]_s
  PROVE  NamesInv(s')
<1>1. CASE \E kind \in Kinds : Begin(kind)
  BY <1>1, BeginNames
<1>2. CASE Continue
  BY <1>2, PrefiltersNames, BeforeSendNames, AjaxSendNames, SettledNames, CompletedNames DEF Continue
<1>3. CASE \E r \in Ids : Abort(r) \/ Timeout(r) \/ (\E answer \in Answers : Answer(r, answer))
  BY <1>3, AbortStepNames, TimeoutNames, AnswerNames
<1>4. CASE UNCHANGED s
  BY <1>4
<1> QED
  BY <1>1, <1>2, <1>3, <1>4 DEF Next

LEMMA NamesAreApart ==
  ASSUME Generated, LifeInv(s), NamesInv(s)
  PROVE  JsonpApart
<1>1. /\ s.window \in [Names -> Nat] /\ MaxRequests \in Nat
      /\ \A r \in Ids : s.requests[r].kind.jsonp \in {"no", "auto"}
  BY TypedParts DEF LifeInv, Ids, Requested, Generated, Page, Options
<1>2. \A r \in Ids : JsonpOpen(r) <=> Opens(s.requests[r])
  BY <1>1 DEF JsonpOpen, Opens
<1>3. OwnData
  BY DEF OwnData, NamesInv, Delivers, Ids
<1>4. NamesApart
  BY <1>2 DEF NamesApart, NamesInv, Held, Ids
<1>5. WindowRestored
  BY <1>1, <1>2 DEF WindowRestored, NamesInv, InWindow, Ids, Names, OwnName
<1> QED
  BY <1>3, <1>4, <1>5 DEF JsonpApart

\* However many jsonp requests are under way, nested or not, with the names jQuery
\* generates: each delivers the data of its own answer, two never share a name,
\* although a script may come late, and window is left as the page had it (the
\* jsonp prefilter, its clean-up and converter).
THEOREM NamesKept ==
  ASSUME Generated
  PROVE  Spec => []JsonpApart
<1>1. Init => LifeInv(s) /\ NamesInv(s)
  BY LifeInit, NamesInit DEF Generated, Page
<1>2. (LifeInv(s) /\ NamesInv(s)) /\ [Next]_s => (LifeInv(s) /\ NamesInv(s))'
  BY LifeNext, NamesNext DEF Generated
<1>3. LifeInv(s) /\ NamesInv(s) => JsonpApart
  BY NamesAreApart
<1> QED
  BY <1>1, <1>2, <1>3, PTL DEF Spec
=============================================================================
