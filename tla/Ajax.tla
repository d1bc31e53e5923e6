-------------------------------- MODULE Ajax ---------------------------------
(***************************************************************************)
(* jQuery.ajax(): the life of requests from the prefilters to "complete",  *)
(* with the xhr and script transports and the jsonp prefilter.             *)
(*                                                                         *)
(* Everything runs on the thread of the page, but the functions of the     *)
(* page that ajax() and done() call may begin or abort other requests, or  *)
(* the same one: a call of ajax() or done() waits on the stack while such  *)
(* functions run, and goes on with Continue.                               *)
(*                                                                         *)
(* A request is a number.  A value of window is None, the function some    *)
(* request has put there, or a function of the page.  The name 0 is the    *)
(* one the page chooses for its jsonp functions, the others are generated. *)
(* Data is known by the request it answers.                                *)
(***************************************************************************)
EXTENDS Naturals, Sequences, FiniteSets

CONSTANTS
  Kinds,        \* the options of requests: transport ("xhr", "script",
                \* "none"), jsonp ("no", "own", "auto"), global, timeout,
                \* sync
  MaxRequests,  \* bound: requests of the page
  AbortsIn      \* the functions called by ajax() itself that abort its
                \* request: "prefilter", "before" (beforeSend), "send"
                \* (ajaxSend)

VARIABLE s

None == 0
PageFunction == MaxRequests + 1
OwnName == 0
Ids == DOMAIN s.requests

Request(kind) ==
  [kind |-> kind, globals |-> FALSE, state |-> 0, transport |-> FALSE, listens |-> FALSE, timer |-> FALSE,
   wire |-> "none", name |-> OwnName, overwritten |-> None, container |-> None,
   outcome |-> "none", data |-> None, answer |-> "none", ends |-> 0]

\* A request to another domain for a script fires no global events.
FiresGlobals(kind) == kind.global /\ kind.transport # "script"

Set(t, r, q) == [t EXCEPT !.requests[r] = q]
Push(t, r, at) == [t EXCEPT !.stack = <<[r |-> r, at |-> at]>> \o @]
Pop(t) == [t EXCEPT !.stack = Tail(@)]
GoOn(t, at) == [t EXCEPT !.stack[1].at = at]

-----------------------------------------------------------------------------
(* The jsonp prefilter.                                                      *)

\* Faulty: a name is taken, but left free.
PrefilterShares(t, r) ==
  LET reuses == t.free # <<>>
      name == IF reuses THEN t.free[Len(t.free)] ELSE t.nonce
  IN  IF t.requests[r].kind.jsonp = "no" THEN t
      ELSE [t EXCEPT !.requests[r].name = name, !.requests[r].overwritten = t.window[name],
                     !.window[name] = r, !.nonce = IF reuses THEN @ ELSE @ + 1]

\* jsonpCallback: a name that is free again, or a new one.
Prefilter(t, r) ==
  LET q == t.requests[r]
      reuses == q.kind.jsonp = "auto" /\ t.free # <<>>
      name == CASE q.kind.jsonp = "own" -> OwnName
                [] reuses -> t.free[Len(t.free)]
                [] OTHER -> t.nonce
  IN  IF q.kind.jsonp = "no" THEN t
      ELSE [t EXCEPT !.requests[r].name = name,
                     !.requests[r].overwritten = t.window[name],
                     !.window[name] = r,
                     !.free = IF reuses THEN SubSeq(@, 1, Len(@) - 1) ELSE @,
                     !.nonce = IF q.kind.jsonp = "auto" /\ ~reuses THEN @ + 1 ELSE @]

\* A function of window is called with data.
CallFunction(t, f, data) == IF f \in Ids THEN [t EXCEPT !.requests[f].container = data] ELSE t

\* The script that answers a jsonp request is run.
RunScript(t, r) ==
  IF t.requests[r].kind.jsonp = "no" THEN t
  ELSE CallFunction(t, t.window[t.requests[r].name], r)

\* The clean-up function: the first one the deferred calls.
CleanUp(t, r) ==
  LET q == t.requests[r]
      u == [t EXCEPT !.window[q.name] = q.overwritten,
                     !.free = IF q.kind.jsonp = "auto" THEN Append(@, q.name) ELSE @]
      v == IF q.container # None THEN CallFunction(u, q.overwritten, q.container) ELSE u
  IN  IF q.kind.jsonp = "no" THEN t
      ELSE [v EXCEPT !.requests[r].container = None, !.requests[r].overwritten = None]

-----------------------------------------------------------------------------
(* done(), up to the functions the deferred calls.  answer: what the server  *)
(* sent ("good"; "bad", which cannot be converted or does not call the       *)
(* function; "empty", of status 204; "failed", and "refused", a failure with *)
(* the script in its body) or why there is none.                             *)

\* ajaxConvert() runs the script of an answer, whatever its status.
Convert(t, r, answer) ==
  LET q == t.requests[r]
      u == IF q.kind.transport = "xhr" /\ answer \in {"good", "refused"} THEN RunScript(t, r) ELSE t
      response == CASE q.kind.jsonp # "no" -> u.requests[r].container
                    [] q.kind.jsonp = "no" /\ (answer = "good" \/ q.kind.transport = "script") -> r
                    [] OTHER -> None
  IN  CASE answer \in {"good", "bad"} ->
             Set(u, r, [u.requests[r] EXCEPT !.data = response,
                                             !.outcome = IF response = None THEN "error" ELSE "success"])
        [] answer = "empty" -> Set(u, r, [u.requests[r] EXCEPT !.outcome = "success"])
        [] OTHER -> Set(u, r, [u.requests[r] EXCEPT !.outcome = "error"])

Finished(q) == [q EXCEPT !.state = 2, !.timer = FALSE, !.transport = FALSE, !.ends = @ + 1]

\* Faulty: a request that is over ends again.
DoneAgain(t, r, answer) ==
  LET u == Set(t, r, Finished(t.requests[r]))
  IN  IF t.requests[r].ends > 1 THEN t ELSE Push(CleanUp(Convert(u, r, answer), r), r, "settled")

Done(t, r, answer) ==
  IF t.requests[r].state = 2 THEN t
  ELSE LET u == Set(t, r, Finished(t.requests[r]))
       IN  Push(CleanUp(Convert(u, r, answer), r), r, "settled")

\* transport.abort(): the listener is dropped.  An xhr is aborted; a script is
\* taken out of the page, and may be run all the same.
DropListener(t, r) ==
  LET q == t.requests[r]
  IN  IF ~q.listens THEN t
      ELSE Set(t, r, [q EXCEPT !.listens = FALSE,
                               !.wire = IF q.kind.transport = "xhr" THEN "none" ELSE @])

AbortRequest(t, r, text) ==
  Done(IF t.requests[r].transport THEN DropListener(t, r) ELSE t, r, text)

-----------------------------------------------------------------------------
(* ajax().                                                                   *)

Begin(kind) ==
  LET r == Len(s.requests) + 1
      t == [s EXCEPT !.requests = Append(@, Request(kind))]
  IN  /\ r <= MaxRequests
      /\ s' = Push(Prefilter(t, r), r, "prefilter")

Waits(at) == s.stack # <<>> /\ s.stack[1].at = at
Top == s.stack[1].r

AfterPrefilters ==
  /\ Waits("prefilter")
  /\ LET q == s.requests[Top]
     IN  s' = IF q.state = 2 THEN Pop(s)
              ELSE [GoOn(s, "before") EXCEPT !.requests[Top].globals = FiresGlobals(q.kind),
                                                !.active = @ + IF FiresGlobals(q.kind) THEN 1 ELSE 0]

\* beforeSend has returned; vetoes: with false.
AfterBeforeSend(vetoes) ==
  /\ Waits("before")
  /\ LET q == s.requests[Top]
     IN  s' = CASE vetoes \/ q.state = 2 -> AbortRequest(Pop(s), Top, "canceled")
                [] ~vetoes /\ q.state # 2 /\ q.kind.transport = "none" -> Done(Pop(s), Top, "failed")
                [] OTHER -> [GoOn(s, "send") EXCEPT !.requests[Top].transport = TRUE]

\* Faulty: no timeout is set.
SendsUntimed(result) ==
  /\ Waits("send")
  /\ LET t == [Pop(s) EXCEPT !.requests[Top].state = 1]
     IN  IF s.requests[Top].transport /\ result = "sends"
         THEN s' = [t EXCEPT !.requests[Top].listens = TRUE, !.requests[Top].wire = "sent"]
         ELSE result = "throws" /\ s' = Done(t, Top, "failed")

\* result: what send() of the transport does.  A synchronous xhr has its answer
\* when send() returns.
AfterAjaxSend(result) ==
  /\ Waits("send")
  /\ LET q == s.requests[Top]
         t == Set(Pop(s), Top, [q EXCEPT !.timer = ~q.kind.sync /\ q.kind.timeout, !.state = 1])
     IN  CASE ~q.transport \/ result = "throws" ->
                /\ result = "throws"
                /\ s' = Done(t, Top, "failed")
           [] q.transport /\ result = "sends" ->
                /\ ~q.kind.sync
                /\ s' = [t EXCEPT !.requests[Top].listens = TRUE, !.requests[Top].wire = "sent"]
           [] OTHER ->
                /\ q.kind.sync
                /\ s' = Done([t EXCEPT !.requests[Top].answer = result], Top, result)

(* done() goes on: statusCode, ajaxSuccess or ajaxError, complete; then       *)
(* ajaxComplete and ajaxStop.                                                *)

AfterSettled ==
  /\ Waits("settled")
  /\ s' = GoOn(s, "completed")

AfterCompleted ==
  /\ Waits("completed")
  /\ s' = [Pop(s) EXCEPT !.active = @ - IF s.requests[Top].globals THEN 1 ELSE 0]

-----------------------------------------------------------------------------
(* The page, the browser and the server.                                     *)

\* abort(), by a function of the page that has the request.
Abort(r) ==
  /\ \A i \in DOMAIN s.stack :
       s.stack[i].r = r => s.stack[i].at \in AbortsIn \cup {"settled", "completed"}
  /\ s' = AbortRequest(s, r, "abort")

Timeout(r) ==
  /\ s.stack = <<>> /\ s.requests[r].timer
  /\ s' = AbortRequest([s EXCEPT !.requests[r].timer = FALSE], r, "timeout")

\* The answer of the server.  A script that could not be loaded is not noticed.
Answer(r, answer) ==
  LET q == s.requests[r]
      script == q.kind.transport = "script"
      t == Set(s, r, [q EXCEPT !.wire = "none", !.listens = FALSE, !.answer = answer])
      u == IF script /\ answer = "good" THEN RunScript(t, r) ELSE t
      unnoticed == script /\ answer \in {"failed", "refused"}
  IN  /\ s.stack = <<>> /\ q.wire = "sent"
      /\ s' = CASE unnoticed -> [s EXCEPT !.requests[r].wire = "none"]
                [] ~unnoticed ->
                     IF q.listens THEN Done(u, r, IF script THEN "good" ELSE answer) ELSE u

Answers == {"good", "bad", "empty", "failed", "refused"}

Starts ==
  {[requests |-> <<>>, stack |-> <<>>, active |-> 0, free |-> <<>>, nonce |-> 1,
    window |-> [n \in 0 .. MaxRequests |-> IF n = OwnName THEN PageFunction ELSE None]]}
Init == s \in Starts

Continue ==
  \/ AfterPrefilters
  \/ \E vetoes \in BOOLEAN : AfterBeforeSend(vetoes)
  \/ \E result \in Answers \cup {"sends", "throws"} : AfterAjaxSend(result)
  \/ AfterSettled
  \/ AfterCompleted

Next ==
  \/ \E kind \in Kinds : Begin(kind)
  \/ Continue
  \/ \E r \in Ids : Abort(r) \/ Timeout(r) \/ (\E answer \in Answers : Answer(r, answer))

Spec == Init /\ [][Next]_s

\* The functions of the page return, and timers go off.
FairSpec == Spec /\ WF_s(Continue) /\ WF_s(\E r \in Ids : Timeout(r))

-----------------------------------------------------------------------------
(* Properties.                                                               *)

OnStack(r) == \E i \in DOMAIN s.stack : s.stack[i].r = r
InDone(r) == \E i \in DOMAIN s.stack :
  s.stack[i].r = r /\ s.stack[i].at \in {"settled", "completed"}
Over(r) == s.requests[r].state = 2 /\ ~OnStack(r)
JsonpOpen(r) == s.requests[r].kind.jsonp # "no" /\ s.requests[r].state < 2

\* A request ends once, whatever of its answer, its timeout, aborts and an
\* exception of its transport comes first, second or nested in another; and no
\* timer of it is left that could abort it later.
EndsOnce == \A r \in Ids : /\ s.requests[r].ends <= 1
                           /\ Over(r) => s.requests[r].ends = 1 /\ ~s.requests[r].timer

\* active counts the requests whose global events have begun and not ended:
\* ajaxStart and ajaxStop enclose them all.
ActiveCounts ==
  s.active = Cardinality({r \in Ids : s.requests[r].globals /\ (s.requests[r].state < 2 \/ InDone(r))})

\* A request that is answered in order delivers the data of its own answer, also
\* when its name was that of an earlier one whose script comes late.
OwnData ==
  \A r \in Ids : s.requests[r].outcome = "success" /\ s.requests[r].answer = "good"
                 => s.requests[r].data = r

\* No two requests under way share a generated name, and none of them finds its
\* name free for others.
NamesApart ==
  \A r \in Ids : JsonpOpen(r) /\ s.requests[r].kind.jsonp = "auto" =>
    /\ s.window[s.requests[r].name] = r
    /\ \A i \in DOMAIN s.free : s.free[i] # s.requests[r].name

\* When no jsonp request is under way, window is as the page left it.
WindowRestored ==
  (\A r \in Ids : ~JsonpOpen(r))
    => \A n \in DOMAIN s.window : s.window[n] = IF n = OwnName THEN PageFunction ELSE None

\* Every request with a timeout ends, even if it is never answered.
Completes == \A r \in 1 .. MaxRequests :
  (r \in Ids /\ s.requests[r].kind.timeout) ~> (r \in Ids /\ Over(r))

\* The end of a request, and the count that ajaxStart and ajaxStop depend on.
RequestsEndOnce == EndsOnce /\ ActiveCounts

\* Requests by jsonp, whose answers are calls of functions of window, do not get
\* into each other's way, though scripts come late, after their request ended.
JsonpApart == OwnData /\ NamesApart /\ WindowRestored
=============================================================================
