------------------------------ MODULE Atmosphere ------------------------------
(***************************************************************************)
(* One subscription of jquery.atmosphere.js: AtmosphereRequest with its    *)
(* web socket, server-sent events, XMLHttpRequest (long polling and        *)
(* streaming), jQuery.ajax() (JSONP and ajax) transports, and the two of   *)
(* old versions of the Internet Explorer: XDomainRequest and a hidden      *)
(* document that is read while it loads.                                   *)
(*                                                                         *)
(* The script runs to completion between two events of the browser.  A     *)
(* function of the script is an operator from one state of the             *)
(* subscription to the next; calls are applied in the order of the code,   *)
(* nested calls included: abort() calls handlers while it runs.  An action *)
(* is one event of the browser.                                            *)
(*                                                                         *)
(* URLs, headers and contents are left out.  A body is "data", "space"     *)
(* (the padding of Atmosphere) or "empty".  Whole messages only: the page  *)
(* does not ask for trackMessageLength.                                    *)
(***************************************************************************)
EXTENDS Naturals, Sequences, FiniteSets

CONSTANTS
  Slots,        \* connection objects of the browser (numbers)
  MaxTimers,    \* bound: timers set at the same time
  MaxReconnectOnClose,
  Options       \* what the page asks for and the browser has: see opt

VARIABLES
  opt,          \* the options, and which transports the browser has
  s             \* the subscription: _request, _response and the handles

vars == <<opt, s>>

None == 0

\* The old Internet Explorers have neither transport of HTML 5; XDomainRequest for
\* long polling is not modelled.  The script falls back to what the page names.
OptionsAssumption ==
  /\ Slots \subseteq Nat \ {None}
  /\ \A o \in Options :
       /\ o.transport \in {"websocket", "sse", "long-polling", "streaming", "jsonp", "ajax"}
       /\ o.fallback \in {"none", "long-polling", "streaming"}
       /\ o.browser \in {"other", "ie", "ieXDR"}
       /\ o.browser # "other" => ~o.webSocket /\ ~o.eventSource
       /\ o.browser = "ieXDR" => "long-polling" \notin {o.transport, o.fallback}
ASSUME OptionsAssumption

LowestOf(S) == CHOOSE n \in S : \A m \in S : n <= m

\* A connection object of the browser.  Its handlers close over the flag opened;
\* marked is the property webSocketOpened that onopen sets on the object, mute
\* says that its onclose has been replaced by a function that does nothing.
Idle == [kind |-> "none", st |-> "none", opened |-> FALSE, marked |-> FALSE, mute |-> FALSE]
Free(t) == {c \in Slots : t.conns[c].kind = "none" /\ c \notin {t.ws, t.sse, t.active, t.jq, t.ie}}
\* None if all of them are in use: Room keeps one free for each that a step opens.
NewConn(t) == IF Free(t) = {} THEN None ELSE LowestOf(Free(t))
WithConn(t, kind, opened) ==
  [t EXCEPT !.conns[NewConn(t)] = [Idle EXCEPT !.kind = kind, !.st = "connecting", !.opened = opened]]
Ended(t, c) == [t EXCEPT !.conns[c] = Idle]

-----------------------------------------------------------------------------
(* Timers.  request.id names the timer set last, of whatever kind.           *)

ClearTimer(t) ==
  [t EXCEPT !.timers = {x \in @ : x.n # t.id}, !.id = None]

\* setTimeout() does not clear the timer that request.id has named so far.
SetTimer(t, kind, c) ==
  LET n == LowestOf((1 .. MaxTimers) \ {x.n : x \in t.timers})
  IN  [t EXCEPT !.timers = @ \cup {[n |-> n, kind |-> kind, c |-> c]}, !.id = n]

Later(t, delayed, kind, Op(_)) == IF delayed THEN SetTimer(t, kind, None) ELSE Op(t)

\* Faulty: the timer set before goes on.
SetTimeoutAgain(t) == IF t.transport # "polling" THEN SetTimer(t, "timeout", None) ELSE t

SetTimeout(t) ==
  LET u == ClearTimer(t)
  IN  IF t.transport # "polling" THEN SetTimer(u, "timeout", None) ELSE u

-----------------------------------------------------------------------------
(* Calls of the application.                                                 *)

CallbackOf == [messageReceived |-> "onMessage", error |-> "onError", opening |-> "onOpen",
               re_connecting |-> "onReconnect", re_opening |-> "onReopen",
               closed |-> "onClose", unsubscribe |-> "onClose"]

\* Ghosts: the calls of this event, the last one, whether onOpen has been called,
\* and whether onMessage was called before it.
Tell(t, f) ==
  [t EXCEPT !.out = Append(@, f), !.told = f, !.opened = @ \/ f = "onOpen",
            !.hasty = @ \/ (f = "onMessage" /\ ~t.opened)]

InvokeFunction(t) ==
  LET f == CallbackOf[t.state] IN
  CASE f = "onMessage" -> Tell([t EXCEPT !.count = 0], f)
    [] f = "onClose"   -> [IF t.closed THEN t ELSE Tell(t, f) EXCEPT !.closed = TRUE]
    [] OTHER           -> Tell(t, f)

InvokeCallback(t) == InvokeFunction([t EXCEPT !.reconnect = opt.reconnect])

\* A blank message is not delivered.
Deliver(t, body) ==
  IF body = "data" THEN InvokeCallback(t) ELSE [t EXCEPT !.reconnect = opt.reconnect]

InvokeClose(t) ==
  IF t.state = "closed" THEN t ELSE InvokeCallback([t EXCEPT !.state = "closed"])

TryingToReconnect(t) == InvokeFunction([t EXCEPT !.state = "re_connecting"])

Open(t, state) ==
  IF t.count > 0 /\ state = "re_connecting"
  THEN TryingToReconnect([t EXCEPT !.isReopen = TRUE])
  ELSE IF t.error THEN t
  ELSE [InvokeCallback([t EXCEPT !.state = state]) EXCEPT !.state = t.state]

TriggerOpen(t) ==
  IF ~t.isOpen THEN Open([t EXCEPT !.isOpen = TRUE], "opening")
  ELSE IF t.isReopen THEN Open([t EXCEPT !.isReopen = FALSE], "re_opening")
  ELSE t

\* The first message carries the identity the server has given the client.
IsProtocol(t, body) == opt.protocol /\ t.firstMessage /\ body = "data"

HandleProtocol(t, body) ==
  IF ~IsProtocol(t, body) THEN TriggerOpen(t)
  ELSE LET u == [t EXCEPT !.firstMessage = FALSE]
       IN  IF t.transport = "long-polling" THEN u ELSE TriggerOpen(u)

SkipsCallback(t, body) == IsProtocol(t, body) \/ body = "empty"

\* Faulty: the message is delivered before the connection is told to be open.
ReceivedFirst(t, body) ==
  HandleProtocol(IF SkipsCallback(t, body) THEN t
                 ELSE Deliver([t EXCEPT !.state = "messageReceived"], body), body)

Received(t, body) ==
  LET u == HandleProtocol(t, body)
  IN  IF SkipsCallback(t, body) THEN u
      ELSE Deliver([u EXCEPT !.state = "messageReceived"], body)

-----------------------------------------------------------------------------
(* Requests: long polling, streaming, jQuery.ajax().                         *)

\* The handles are forgotten.  Only a web socket that has called onopen is
\* closed, and calls onclose later; an EventSource closes without a call.
DropHandles(t) ==
  LET closing(c) == IF c = t.ws /\ t.conns[c].marked THEN [t.conns[c] EXCEPT !.st = "closing"]
                    ELSE IF c \in {t.sse, t.ie} THEN Idle ELSE t.conns[c]
  IN  [t EXCEPT !.conns = [c \in Slots |-> closing(c)],
                !.ws = None, !.sse = None, !.active = None, !.jq = None, !.ie = None]

\* _clearState() and _onError() when no request is under way.
ClearQuiet(t) == DropHandles(ClearTimer(t))
ErrorQuiet(t) == InvokeCallback([ClearQuiet(t) EXCEPT !.state = "error"])

Jquery(t) == [WithConn(t, "jquery", FALSE) EXCEPT !.jq = NewConn(t)]

Timed(t) == IF opt.connectTimeout THEN SetTimer(t, "connectXhr", None) ELSE t

IeXDR(t) == Timed([WithConn(t, "xdr", FALSE) EXCEPT !.ie = NewConn(t)])
IeStreaming(t) ==
  [WithConn(t, "frame", FALSE) EXCEPT !.ie = NewConn(t), !.rtransport = t.transport]

Xhr(t) ==
  IF ~t.reconnect THEN ErrorQuiet(t)
  ELSE [WithConn(Timed(t), "xhr", FALSE) EXCEPT !.active = NewConn(t), !.rtransport = t.transport]

ExecuteRequest(t) ==
  LET u == [t EXCEPT !.ready = 0] IN
  CASE t.transport \in {"jsonp", "ajax"} -> Jquery(u)
    [] t.transport = "streaming" /\ opt.browser = "ie" -> IeStreaming(u)
    [] t.transport \notin {"jsonp", "ajax"} /\ opt.browser = "ieXDR" -> IeXDR(u)
    [] OTHER -> Xhr(u)

Reconnect(t, delayed) == Later(ClearTimer(t), delayed, "reconnect", ExecuteRequest)

\* reconnectF() of _executeRequest().
ReconnectF(t) ==
  IF t.reconnect /\ t.count < MaxReconnectOnClose
  THEN Reconnect(Open([t EXCEPT !.count = @ + 1], "re_connecting"), opt.reconnectInterval)
  ELSE ErrorQuiet(t)

\* abort() on a request under way calls onreadystatechange, with status 0, and
\* onabort before it returns; the request the former starts is then forgotten.
AbortedState(t) ==
  IF t.abording THEN t
  ELSE LET u == [t EXCEPT !.error = FALSE]
       IN  IF t.transport = "streaming" /\ t.ready > 2 THEN ReconnectF(ClearQuiet(u))
           ELSE ReconnectF(ClearQuiet([SetTimeout(u) EXCEPT !.ready = 4, !.errorHandled = TRUE]))

AbortActive(t) ==
  IF t.active = None \/ t.conns[t.active].kind # "xhr" THEN t
  ELSE [InvokeClose(AbortedState(Ended(t, t.active))) EXCEPT !.active = None]

\* abort() of a jqXHR calls its error function, which sends another request.
AbortJquery(t) ==
  IF t.jq = None \/ t.conns[t.jq].kind # "jquery" THEN t
  ELSE [Reconnect([Ended(t, t.jq) EXCEPT !.error = TRUE], FALSE) EXCEPT !.jq = None]

\* Closing the hidden document tells the application.
CloseIe(t) ==
  IF t.ie # None /\ opt.browser = "ie" THEN InvokeClose(Ended(t, t.ie)) ELSE t

ClearState(t) == DropHandles(AbortActive(AbortJquery(CloseIe(ClearTimer(t)))))

\* Faulty: the application is not called.
OnErrorSilently(t) == [ClearTimer(ClearState(t)) EXCEPT !.state = "error"]

OnError(t) == InvokeCallback([ClearTimer(ClearState(t)) EXCEPT !.state = "error"])

-----------------------------------------------------------------------------
(* Transports and their order.                                               *)

ExecuteWebSocket(t, opened) ==
  LET u == [t EXCEPT !.rtransport = "websocket"]
      v == [WithConn(u, "ws", opened) EXCEPT !.ws = NewConn(u)]
  IN  IF opened /\ ~t.reconnect THEN (IF t.ws # None THEN ClearState(u) ELSE u)
      ELSE IF opt.connectTimeout THEN SetTimer(v, "connectWs", v.ws) ELSE v

ExecuteSSE(t, opened) ==
  LET u == [t EXCEPT !.rtransport = "sse"]
      v == [WithConn(u, "sse", opened) EXCEPT !.sse = NewConn(u)]
  IN  IF opened /\ ~t.reconnect THEN (IF t.sse # None THEN ClearState(u) ELSE u)
      ELSE IF opt.connectTimeout THEN SetTimer(v, "connectSse", v.sse) ELSE v

ExecuteOr(t, Unsupported(_)) ==
  LET u == [t EXCEPT !.firstMessage = TRUE, !.isOpen = FALSE] IN
  CASE t.transport = "websocket" -> IF opt.webSocket THEN ExecuteWebSocket(u, FALSE) ELSE Unsupported(u)
    [] t.transport = "sse" -> IF opt.eventSource THEN ExecuteSSE(u, FALSE) ELSE Unsupported(u)
    [] OTHER -> ExecuteRequest(u)

\* onTransportFailure() of fbw.serverpush.js.
OnTransportFailure(t) == IF opt.eventSource THEN [t EXCEPT !.fallback = "sse"] ELSE t

GiveUp(t) == OnError([OnTransportFailure(t) EXCEPT !.transport = "none"])

\* _reconnectWithFallbackTransport().  Without server-sent events there is no
\* further fallback: OnTransportFailure names none.
Fallback(t) ==
  LET f == OnTransportFailure(t)
      u == [f EXCEPT !.transport = f.fallback]
      Again(w) == ExecuteOr(w, GiveUp)
  IN  IF f.reconnect /\ f.fallback # "none"
      THEN Later([u EXCEPT !.rtransport = f.fallback, !.fallback = "none"],
                 opt.connectTimeout, "fallback", Again)
      ELSE OnError(u)

Execute(t) == ExecuteOr(t, Fallback)

-----------------------------------------------------------------------------
(* Events.  The calls of the application during the last event are in out.   *)

Calm(t) == [t EXCEPT !.out = <<>>]
Of(kind, st) == {c \in Slots : s.conns[c].kind = kind /\ s.conns[c].st \in st}
Room(n) == /\ Cardinality(Free(s)) >= n
           /\ Cardinality(s.timers) + n <= MaxTimers
Step(t) == s' = t /\ UNCHANGED opt

\* Web socket.
WsOpened(t, c) ==
  LET u == SetTimeout(t)
      v == IF opt.protocol THEN u
           ELSE Open(u, IF t.conns[c].opened THEN "re_opening" ELSE "opening")
      w == [v EXCEPT !.conns[c].opened = TRUE, !.conns[c].st = "open"]
  IN  IF w.ws = None THEN w ELSE [w EXCEPT !.conns[w.ws].marked = TRUE]

WsOnOpen(c) ==
  /\ c \in Of("ws", {"connecting"}) /\ Room(1)
  /\ Step(WsOpened(Calm(s), c))

\* A browser drops what comes for a socket that is not open (any more).
WsOnMessage(c, body) ==
  /\ c \in Of("ws", {"open"}) /\ Room(1)
  /\ Step(Received([SetTimeout(Calm(s)) EXCEPT !.state = "messageReceived"], body))

\* opened is the flag the handler closes over.
WsClosed(t, opened) ==
  IF t.state = "closed" THEN t
  ELSE LET u == [InvokeClose(ClearTimer(t)) EXCEPT !.state = "closed"]
           v == [ClearState(u) EXCEPT !.count = @ + 1]
           Again(w) == ExecuteWebSocket(w, TRUE)
       IN  CASE u.abording -> u
             [] ~u.abording /\ ~opened -> Fallback(u)
             [] ~u.abording /\ opened /\ u.reconnect /\ u.rtransport = "websocket" ->
                  IF u.count < MaxReconnectOnClose
                  THEN Later(Open(v, "re_connecting"), opt.reconnectInterval, "reopenWs", Again)
                  ELSE OnError(v)
             [] OTHER -> u

\* An error clears the timer, as onclose does right after it.
WsOnClose(c) ==
  /\ c \in Of("ws", {"connecting", "open", "closing"}) /\ Room(2)
  /\ Step(IF s.conns[c].mute THEN Ended(Calm(s), c)
          ELSE WsClosed(Ended(Calm(s), c), s.conns[c].opened))

\* Server-sent events.
SseOnOpen(c) ==
  /\ c \in Of("sse", {"connecting"}) /\ Room(1)
  /\ LET u == SetTimeout(Calm(s))
         v == IF opt.protocol THEN u
              ELSE Open(u, IF s.conns[c].opened THEN "re_opening" ELSE "opening")
     IN  Step([v EXCEPT !.conns[c].opened = TRUE, !.conns[c].st = "open"])

SseOnMessage(c, body) ==
  /\ c \in Of("sse", {"open"}) /\ Room(1)
  /\ Step(Received([SetTimeout(Calm(s)) EXCEPT !.state = "messageReceived"], body))

SseFailed(t, opened) ==
  LET u == ClearState(InvokeClose(ClearTimer(t)))
      v == [u EXCEPT !.count = @ + 1]
      Again(w) == ExecuteSSE(w, TRUE)
  IN  CASE u.abording -> u
        [] ~u.abording /\ ~opened -> Fallback(u)
        [] ~u.abording /\ opened /\ u.reconnect /\ u.rtransport = "sse" ->
             IF u.count < MaxReconnectOnClose
             THEN Later(Open(v, "re_connecting"), opt.reconnectInterval, "reopenSse", Again)
             ELSE OnError(v)
        [] OTHER -> u

SseOnError(c) ==
  /\ c \in Of("sse", {"connecting", "open"}) /\ Room(2)
  /\ Step(SseFailed(Ended(Calm(s), c), s.conns[c].opened))

\* XMLHttpRequest: headers, data, end, network error.  Two requests may be
\* under way: all of them share the fields of the subscription.
Refused(t) == ReconnectF(ClearState([t EXCEPT !.errorHandled = TRUE]))

Headers(t, ok) ==
  LET u == SetTimeout([t EXCEPT !.error = FALSE, !.ready = 2])
      v == IF ~opt.protocol \/ ~u.firstMessage THEN TriggerOpen(u) ELSE u
  IN  IF t.abording THEN t ELSE IF ok THEN v ELSE Refused([v EXCEPT !.cut = TRUE])

XhrOnHeaders(c, ok) ==
  /\ c \in Of("xhr", {"connecting"}) /\ Room(3)
  /\ Step(Headers([Calm(s) EXCEPT !.conns[c].st = IF ok THEN "headers" ELSE "refused"], ok))

\* _disconnect() tells the server only when the server has named the client.
Known(t) == opt.protocol /\ ~t.firstMessage

\* More than maxStreamingLength has been read: a new stream is opened.
VerifyStreamingLength(t, long) ==
  IF ~long THEN t
  ELSE Reconnect(ClearState([InvokeClose(t) EXCEPT !.bye = @ \/ Known(t), !.cut = TRUE]), FALSE)

Streamed(t, body, long) ==
  LET u == Received(t, body) IN
  IF SkipsCallback(t, body) THEN u
  ELSE VerifyStreamingLength([u EXCEPT !.state = "messageReceived"], long)

\* Faulty: what comes after unsubscribe() is read.
ReadsOn(t, body, long) ==
  LET u == SetTimeout([t EXCEPT !.error = FALSE, !.ready = 3])
  IN  IF t.transport = "streaming" THEN Streamed(u, body, long) ELSE u

Progress(t, body, long) ==
  LET u == SetTimeout([t EXCEPT !.error = FALSE, !.ready = 3]) IN
  IF t.abording THEN t
  ELSE IF t.transport = "streaming" THEN Streamed(u, body, long) ELSE u

XhrOnProgress(c, body, long) ==
  /\ c \in Of("xhr", {"headers", "loading"}) /\ Room(3)
  /\ Step(Progress([Calm(s) EXCEPT !.conns[c].st = "loading"], body, long))

\* Faulty: the next poll is sent before and after.
PolledTwice(t, body) ==
  LET u == Reconnect([HandleProtocol(t, body) EXCEPT !.state = "messageReceived"], FALSE)
  IN  Reconnect(IF SkipsCallback(t, body) THEN u ELSE Deliver(u, body), FALSE)

\* The next poll is sent before the application is called, or after it.
Polled(t, body) ==
  LET u == [HandleProtocol(t, body) EXCEPT !.state = "messageReceived"]
      v == IF opt.early THEN u ELSE Reconnect(u, FALSE)
      w == IF SkipsCallback(t, body) THEN v ELSE Deliver(v, body)
  IN  IF opt.early THEN Reconnect(w, FALSE) ELSE w

\* ok says whether the status is one of success, and not 0.
Done(t, body, ok) ==
  LET u == [t EXCEPT !.error = FALSE]
      v == SetTimeout([u EXCEPT !.ready = 4])
  IN  CASE t.abording -> t
        [] ~t.abording /\ t.transport = "streaming" /\ t.ready > 2 -> ReconnectF(ClearState(u))
        [] ~t.abording /\ ~(t.transport = "streaming" /\ t.ready > 2) ->
             IF ~ok THEN Refused(v)
             ELSE IF t.transport = "streaming" THEN Streamed(v, body, FALSE) ELSE Polled(v, body)

XhrOnDone(c, body) ==
  /\ c \in Of("xhr", {"headers", "loading", "refused"}) /\ Room(3)
  /\ Step(Done(Ended(Calm(s), c), body, s.conns[c].st # "refused"))

\* The browser calls onreadystatechange and then onerror.
XhrOnError(c) ==
  /\ c \in Of("xhr", {"connecting", "headers", "loading"}) /\ Room(3)
  /\ LET u == ClearState([Done(Ended(Calm(s), c), "empty", FALSE) EXCEPT !.error = TRUE])
     IN  Step(IF u.errorHandled THEN u ELSE ReconnectF(u))

\* jQuery.ajax(), for JSONP and for ajax.
JqueryOnSuccess(c, body) ==
  /\ c \in Of("jquery", {"connecting"}) /\ Room(2)
  /\ LET t == Ended(Calm(s), c)
         v == IF opt.early THEN t ELSE Reconnect(t, FALSE)
         w == Received(v, body)
     IN  Step(IF ~t.reconnect THEN t ELSE IF opt.early THEN Reconnect(w, FALSE) ELSE w)

JqueryOnError(c, http) ==
  /\ c \in Of("jquery", {"connecting"}) /\ Room(2)
  /\ LET t == [Ended(Calm(s), c) EXCEPT !.error = TRUE]
     IN  Step(IF http THEN OnError(t) ELSE Reconnect(t, FALSE))

\* XDomainRequest.  The option executeCallbackBeforeReconnect works the other
\* way round here; the request that has made progress goes on.
XdrReconnect(t) == IF t.transport = "long-polling" /\ t.reconnect THEN IeXDR(t) ELSE t

XdrOnProgress(c, body) ==
  /\ c \in Of("xdr", {"connecting"}) /\ Room(2)
  /\ LET t == SetTimeout(Calm(s))
         u == HandleProtocol(t, body)
         v == IF opt.early THEN XdrReconnect(u) ELSE u
         w == IF SkipsCallback(t, body) THEN v
              ELSE Deliver([v EXCEPT !.state = "messageReceived", !.rtransport = t.transport], body)
     IN  Step(IF opt.early THEN w ELSE XdrReconnect(w))

XdrOnError(c) ==
  /\ c \in Of("xdr", {"connecting"}) /\ Room(2)
  /\ LET t == ClearState(Ended(Calm(s), c))
         u == [t EXCEPT !.count = @ + 1]
         Again(w) == IeXDR(Open(w, "re_connecting"))
     IN  Step(IF t.count < MaxReconnectOnClose THEN Later(u, opt.reconnectInterval, "reopenXdr", Again)
              ELSE OnError(u))

\* onload does nothing.
XdrOnLoad(c) ==
  /\ c \in Of("xdr", {"connecting"}) /\ Room(1)
  /\ Step(Ended(Calm(s), c))

\* The hidden document: timers of their own read it until it is complete.
FrameOnData(c, body) ==
  /\ c \in Of("frame", {"connecting"}) /\ Room(1)
  /\ LET t == [SetTimeout(Calm(s)) EXCEPT !.error = FALSE, !.isReopen = @ \/ s.closed]
     IN  Step(Received(t, body))

FrameOnComplete(c) ==
  /\ c \in Of("frame", {"connecting"}) /\ Room(2)
  /\ LET t == Open(InvokeClose(Ended(Calm(s), c)), "re_connecting")
     IN  Step(Later(t, opt.reconnectInterval, "reopenFrame", IeStreaming))

FrameOnFailure(c) ==
  /\ c \in Of("frame", {"connecting"}) /\ Room(2)
  /\ LET t == Ended(Calm(s), c)
         u == Open([t EXCEPT !.error = TRUE], "re_connecting")
         v == [u EXCEPT !.count = @ + 1]
     IN  \/ Step(InvokeCallback([t EXCEPT !.state = "error", !.rtransport = t.transport]))
         \/ Step(IF u.count < MaxReconnectOnClose
                 THEN Later(v, opt.reconnectInterval, "reopenFrame", IeStreaming) ELSE OnError(v))

\* Timers.
Disconnect(t) == [t EXCEPT !.bye = @ \/ Known(t)]

\* Nothing has come for the time of the option timeout.
Inactive(t) == Disconnect(ClearState(InvokeClose(t)))

\* Nothing has been opened for the time of the option connectTimeout.
ConnectXhrFired(t) == InvokeCallback([ClearState(t) EXCEPT !.state = "closed"])
ConnectSseFired(t, c) == IF t.conns[c].opened THEN t ELSE ClearState(t)
ConnectWsFired(t, c) ==
  IF t.conns[c].opened \/ t.ws = None THEN t ELSE ClearState(WsClosed(t, t.conns[t.ws].opened))

TimerFired(t, x) ==
  CASE x.kind = "timeout"    -> Inactive(t)
    [] x.kind = "fallback"   -> Execute(t)
    [] x.kind = "reconnect"  -> ExecuteRequest(t)
    [] x.kind = "reopenWs"   -> ExecuteWebSocket(t, TRUE)
    [] x.kind = "reopenSse"  -> ExecuteSSE(t, TRUE)
    [] x.kind = "reopenXdr"  -> IeXDR(Open(t, "re_connecting"))
    [] x.kind = "reopenFrame" -> IeStreaming(t)
    [] x.kind = "connectXhr" -> ConnectXhrFired(t)
    [] x.kind = "connectSse" -> ConnectSseFired(t, x.c)
    [] x.kind = "connectWs"  -> ConnectWsFired(t, x.c)

OnTimer(x) ==
  /\ x \in s.timers /\ Room(3)
  /\ LET t == [Calm(s) EXCEPT !.timers = @ \ {x}, !.id = IF @ = x.n THEN None ELSE @]
     IN  Step(TimerFired(t, x))

-----------------------------------------------------------------------------
(* What the page does.                                                       *)

\* unsubscribe(), which the events unload and offline call too.  The call of
\* the application restores the permission to reconnect.
Close(t) ==
  LET u == InvokeCallback([t EXCEPT !.reconnect = FALSE, !.abording = TRUE, !.state = "unsubscribe"])
  IN  ClearTimer(ClearState(Disconnect(u)))

Unsubscribe ==
  /\ ~s.abording /\ Room(2)
  /\ Step(Close(Calm(s)))

\* A message travels in a request of its own, which only counts as activity.
PushAjaxMessage(t) == WithConn(t, "push", FALSE)

\* send() throws while the web socket connects.
PushWebSocket(t) ==
  IF t.conns[t.ws].st # "connecting" THEN t
  ELSE PushAjaxMessage(Fallback(ClearState([t EXCEPT !.conns[t.ws].mute = TRUE])))

Push(t) ==
  IF {t.active, t.sse, t.jq, t.ie} # {None} THEN PushAjaxMessage(t)
  ELSE IF t.ws # None THEN PushWebSocket(t) ELSE t

Publish ==
  /\ opt.pushes /\ ~s.abording /\ Room(3)
  /\ Of("push", {"connecting"}) = {}
  /\ Step(Push(Calm(s)))

PushOnDone(c) ==
  /\ c \in Of("push", {"connecting"}) /\ Room(1)
  /\ LET t == Ended(Calm(s), c)
     IN  Step(IF t.abording THEN t ELSE SetTimeout([t EXCEPT !.error = FALSE]))

-----------------------------------------------------------------------------
Fresh ==
  [transport |-> opt.transport, fallback |-> opt.fallback, rtransport |-> "polling",
   reconnect |-> TRUE, count |-> 0, firstMessage |-> TRUE, isOpen |-> FALSE, isReopen |-> FALSE,
   closed |-> FALSE, ready |-> 0, state |-> "messageReceived", error |-> FALSE,
   errorHandled |-> FALSE, abording |-> FALSE, bye |-> FALSE,
   ws |-> None, sse |-> None, active |-> None, jq |-> None, ie |-> None,
   conns |-> [c \in Slots |-> Idle], timers |-> {}, id |-> None,
   out |-> <<>>, told |-> "nothing", opened |-> FALSE, hasty |-> FALSE, cut |-> FALSE]

\* subscribe(): the constructor, then execute().
Init ==
  /\ opt \in Options
  /\ s = Execute(Fresh)

Body == {"data", "space", "empty"}

\* Everything the browser may report of one connection.
Event(c) ==
  \/ WsOnOpen(c) \/ WsOnClose(c) \/ SseOnOpen(c) \/ SseOnError(c) \/ XhrOnError(c)
  \/ \E ok \in BOOLEAN : XhrOnHeaders(c, ok) \/ JqueryOnError(c, ok)
  \/ \E body \in Body : XhrOnDone(c, body) \/ JqueryOnSuccess(c, body)
  \/ \E body \in Body \ {"empty"} :
       \/ WsOnMessage(c, body) \/ SseOnMessage(c, body)
       \/ XdrOnProgress(c, body) \/ FrameOnData(c, body)
       \/ \E long \in BOOLEAN : XhrOnProgress(c, body, long)
  \/ XdrOnError(c) \/ XdrOnLoad(c) \/ FrameOnComplete(c) \/ FrameOnFailure(c)
  \/ PushOnDone(c)

Next ==
  \/ \E c \in Slots : Event(c)
  \/ \E x \in s.timers : OnTimer(x)
  \/ Unsubscribe
  \/ Publish

Spec == Init /\ [][Next]_vars

-----------------------------------------------------------------------------
(* Properties.                                                               *)

\* Connections that may still deliver a message.
Live == {c \in Slots : s.conns[c].kind \notin {"none", "push"} /\ s.conns[c].st # "closing"}
Called(f) == \E i \in DOMAIN s.out : s.out[i] = f

\* A subscription has one connection at a time, however its timers, failures and
\* reconnections interleave.  The script itself breaks this after an answer that
\* is an HTTP error or too long (cut), and when a message is pushed while the web
\* socket connects.
OneConnection ==
  ~s.cut /\ ~(opt.pushes /\ opt.transport = "websocket") => Cardinality(Live) <= 1

\* request.id names every timer that is set: clearing it leaves none behind to
\* reconnect or to close the connection later.  The hidden document forgets the
\* inactivity timer when it is to be opened again after an interval.
OneTimer ==
  ~(opt.reconnectInterval /\ opt.browser = "ie") => \A x \in s.timers : x.n = s.id

\* The application is told that the connection is open before its first message.
\* After one failed request JSONP never tells it again (response.error stays).
OpenedFirst == opt.transport # "jsonp" => ~s.hasty

\* The end of all connections and timers is told: onClose or onError has been
\* called.  Without: a network error clears the timer of the reconnection it has
\* just set, an XDomainRequest ends without a call, JSONP just does not go on.
EndIsTold ==
  (/\ ~opt.reconnectInterval
   /\ opt.browser # "ieXDR"
   /\ opt.transport = "jsonp" => opt.reconnect)
    => (Live = {} /\ s.timers = {} => s.closed \/ s.told = "onError")

\* After onError a web socket or an EventSource is not opened again.  An
\* XMLHttpRequest is: abort() calls a handler that reconnects.
ErrorIsFinal ==
  opt.transport \notin {"long-polling", "streaming"} /\ ~opt.pushes
    => (s.told = "onError" => Live = {})

\* Once unsubscribed, the application is told of no message and no opening, in
\* the transports that read an answer as it comes.
QuietAfterUnsubscribe ==
  opt.transport \in {"long-polling", "streaming"} /\ s.abording
    => ~Called("onMessage") /\ ~Called("onOpen")

\* The two ends a subscription may come to are final.
EndIsFinal == ErrorIsFinal /\ QuietAfterUnsubscribe

\* 'This method closes the "persistent communication channel" to the server and
\* prevents the latter from pushing any updates' (disconnect() of
\* fbw.serverpush.js): with no transport is a message delivered after it.  A web
\* socket that was still connecting is not closed, opens and delivers.
NothingAfterDisconnect == s.abording => ~Called("onMessage")

\* "Automatically use fallback transport if SSE can't be opened": server-sent
\* events that could not be opened are not tried again.
FallsBack ==
  [][\A c \in Slots :
       (/\ s.conns[c].kind = "sse" /\ ~s.conns[c].opened /\ s.conns[c].st = "connecting"
        /\ s'.conns[c] = Idle /\ ~s'.abording)
         => \A d \in Slots : d # c => s'.conns[d].kind # "sse"]_vars
=============================================================================
