----------------------------- MODULE MCAtmosphere -----------------------------
(* Options of Atmosphere: what fbw.serverpush.js asks for, in browsers with  *)
(* and without EventSource, and the other transports of the script.          *)
EXTENDS Atmosphere

Fbw ==
  [transport |-> "websocket", fallback |-> "long-polling", webSocket |-> TRUE,
   eventSource |-> TRUE, browser |-> "other", protocol |-> TRUE, reconnect |-> TRUE,
   connectTimeout |-> FALSE, reconnectInterval |-> FALSE, early |-> FALSE, pushes |-> FALSE]

NoEventSource == [Fbw EXCEPT !.eventSource = FALSE]
LongPolling == [NoEventSource EXCEPT !.transport = "long-polling", !.fallback = "none"]
Streaming == [LongPolling EXCEPT !.transport = "streaming"]
OldIE == [Streaming EXCEPT !.webSocket = FALSE]
Jsonp == [LongPolling EXCEPT !.transport = "jsonp"]
Xdr == [OldIE EXCEPT !.browser = "ieXDR"]
Frame == [OldIE EXCEPT !.browser = "ie"]

Transports == {Fbw, LongPolling, Streaming, Jsonp, Xdr, Frame}

AllOptions ==
  Transports
    \cup {[o EXCEPT !.reconnectInterval = TRUE] : o \in Transports \cup {NoEventSource}}
    \cup {[o EXCEPT !.reconnect = FALSE] : o \in Transports}
    \cup {[o EXCEPT !.protocol = FALSE] : o \in Transports \ {LongPolling, Streaming}}
    \cup {[o EXCEPT !.connectTimeout = TRUE] : o \in {Fbw, Xdr}}
    \cup {[o EXCEPT !.early = TRUE] : o \in {Jsonp, Frame}}
    \cup {[o EXCEPT !.pushes = TRUE] : o \in {Fbw, Jsonp, Xdr, Frame}}

OnlyFbw == {Fbw}
=============================================================================
