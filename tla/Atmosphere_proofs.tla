-------------------------- MODULE Atmosphere_proofs --------------------------
(***************************************************************************)
(* A subscription has one connection and one timer, whatever the           *)
(* transports, the options and the browser: the theorems about Atmosphere. *)
(*                                                                         *)
(* Every function of the script is an operator on states of the            *)
(* subscription, so there is a lemma for each, from the innermost on: what *)
(* it keeps (Kept), what it leaves of the timers and what of the           *)
(* connections.                                                            *)
(***************************************************************************)
EXTENDS Atmosphere, FiniteSetTheorems, WellFoundedInduction, TLAPS

Fields ==
  {"transport", "fallback", "rtransport", "reconnect", "count", "firstMessage", "isOpen",
   "isReopen", "closed", "ready", "state", "error", "errorHandled", "abording", "bye", "ws",
   "sse", "active", "jq", "ie", "conns", "timers", "id", "out", "told", "opened", "hasty", "cut"}
Sub(t) == DOMAIN t = Fields
Table(t) ==
  /\ DOMAIN t.conns = Slots
  /\ \A c \in Slots : DOMAIN t.conns[c] = {"kind", "st", "opened", "marked", "mute"}

Ajax == {"jsonp", "ajax"}
Sockets == opt.transport \in {"websocket", "sse"}

\* The subscription is past its web socket, and is not one for EventSource: it
\* may send requests.
Requests(t) == t.transport # "websocket" /\ ~(opt.eventSource /\ Sockets)

\* Which connections and timers there may be, and which transports.
KindFits(t, kind) ==
  /\ kind = "xhr" => Requests(t) /\ opt.browser # "ieXDR" /\ opt.transport \notin Ajax
  /\ kind = "frame" => opt.browser = "ie" /\ opt.transport \notin Ajax
  /\ kind = "xdr" => opt.browser = "ieXDR" /\ opt.transport \notin Ajax
  /\ kind = "jquery" => opt.transport \in Ajax
  /\ kind = "sse" => opt.eventSource /\ Sockets
  /\ kind = "ws" => opt.webSocket /\ opt.transport = "websocket"
Kinds(t) ==
  \A c \in Slots : /\ KindFits(t, t.conns[c].kind)
                   /\ t.conns[c].st = "closing" => t.conns[c].kind \in {"ws", "none"}

Handles(t) ==
  /\ {t.ws, t.sse, t.active, t.jq, t.ie} \subseteq Slots \cup {None}
  /\ t.ws # None => opt.transport = "websocket" /\ t.conns[t.ws].kind \in {"ws", "none"}
  /\ t.jq # None => opt.transport \in Ajax
  /\ t.active # None => /\ Requests(t) /\ opt.browser # "ieXDR"
                        /\ opt.transport \notin Ajax /\ t.rtransport # "websocket"

Opening == {"fallback", "reconnect", "reopenWs", "reopenSse", "reopenXdr", "reopenFrame"}
TimerFits(t, x) ==
  /\ x.kind \in Opening \cup {"timeout", "connectXhr", "connectSse", "connectWs"}
  /\ x.kind = "reconnect" => Requests(t)
  /\ x.kind = "fallback" => Sockets
  /\ x.kind \in {"reopenWs", "connectWs"} => opt.webSocket /\ opt.transport = "websocket"
  /\ x.kind = "reopenWs" => t.active = None
  /\ x.kind = "connectWs" => opt.connectTimeout /\ (x.c = t.ws \/ t.ws = None)
  /\ x.kind = "reopenSse" => opt.eventSource /\ Sockets
  /\ x.kind = "reopenXdr" => opt.browser = "ieXDR" /\ opt.transport \notin Ajax
  /\ x.kind = "reopenFrame" => opt.browser = "ie" /\ opt.transport \notin Ajax
Pending(t) == \A x \in t.timers : TimerFits(t, x)

Order(t) ==
  /\ t.transport \in {opt.transport, opt.fallback, "sse", "none"}
  /\ ~Sockets => t.transport = opt.transport
  /\ t.transport = "websocket" => opt.transport = "websocket"
  /\ opt.eventSource /\ Sockets => t.transport \in {"websocket", "sse"}
  /\ t.fallback \in {opt.fallback, "sse", "none"}

Fit(t) ==
  /\ opt \in Options
  /\ Sub(t) /\ Table(t) /\ Kinds(t) /\ Handles(t) /\ Pending(t) /\ Order(t)

\* Timers: none, or the one that request.id names.
Forgets == opt.reconnectInterval /\ opt.browser = "ie"
Clear(t) == ~Forgets => t.timers = {}
Named(t) == ~Forgets => t.timers = {} \/ \E x \in t.timers : t.timers = {x} /\ x.n = t.id

\* Connections, and timers that are to open one: at most one in all.
Conns(t) ==
  {c \in Slots : /\ t.conns[c].kind \notin {"none", "push"}
                 /\ ~(t.abording /\ t.conns[c].st = "closing")}
Waits(t) == {x \in t.timers : x.kind \in Opening}
Quiet(t) == Conns(t) = {} /\ Waits(t) = {}
One(t) ==
  /\ \A c, d \in Conns(t) : c = d
  /\ \A x, y \in Waits(t) : x = y
  /\ Conns(t) = {} \/ Waits(t) = {}

Kept(t, u) ==
  /\ Fit(u) /\ u.abording = t.abording
  /\ t.cut => u.cut
  /\ t.errorHandled => u.errorHandled
  /\ Requests(t) => Requests(u)

Modes(t, u) ==
  /\ u.transport = t.transport /\ u.rtransport = t.rtransport /\ u.fallback = t.fallback
  /\ u.ready = t.ready /\ u.errorHandled = t.errorHandled
  /\ u.abording = t.abording /\ u.cut = t.cut
Links(t, u) ==
  /\ u.ws = t.ws /\ u.sse = t.sse /\ u.active = t.active /\ u.jq = t.jq /\ u.ie = t.ie
  /\ u.conns = t.conns

LEMMA OptionTypes ==
  ASSUME opt \in Options
  PROVE  /\ Slots \subseteq Nat \ {None}
         /\ opt.transport \in {"websocket", "sse", "long-polling", "streaming", "jsonp", "ajax"}
         /\ opt.fallback \in {"none", "long-polling", "streaming"}
         /\ opt.browser \in {"other", "ie", "ieXDR"}
         /\ opt.browser # "other" => ~opt.webSocket /\ ~opt.eventSource
         /\ opt.browser = "ieXDR" => "long-polling" \notin {opt.transport, opt.fallback}
BY OptionsAssumption DEF OptionsAssumption

-----------------------------------------------------------------------------
(* Calls of the application: connections and timers stay as they are.        *)

Same(t, u) ==
  /\ Sub(u) /\ Modes(t, u) /\ Links(t, u)
  /\ u.timers = t.timers /\ u.id = t.id

LEMMA SameItself ==
  ASSUME NEW t, Sub(t)
  PROVE  Same(t, t)
BY DEF Same, Modes, Links

LEMMA TellSame ==
  ASSUME NEW t, NEW u, Same(t, u), NEW f
  PROVE  Same(t, Tell(u, f))
BY DEF Tell, Same, Modes, Links, Sub, Fields

LEMMA InvokeFunctionSame ==
  ASSUME NEW t, NEW u, Same(t, u)
  PROVE  Same(t, InvokeFunction(u))
<1> DEFINE f == CallbackOf[u.state]
           v == [u EXCEPT !.count = 0]
<1>1. Same(t, v)
  BY DEF Same, Modes, Links, Sub, Fields
<1>2. InvokeFunction(u) \in {Tell(v, f), [Tell(u, f) EXCEPT !.closed = TRUE],
                             [u EXCEPT !.closed = TRUE], Tell(u, f)}
  BY DEF InvokeFunction
<1> HIDE DEF v, f
<1>3. Same(t, Tell(u, f)) /\ Same(t, Tell(v, f))
  BY <1>1, TellSame
<1>4. Same(t, [Tell(u, f) EXCEPT !.closed = TRUE]) /\ Same(t, [u EXCEPT !.closed = TRUE])
  BY <1>3 DEF Same, Modes, Links, Sub, Fields
<1> QED
  BY <1>2, <1>3, <1>4

LEMMA InvokeCallbackSame ==
  ASSUME NEW t, NEW u, Same(t, u)
  PROVE  Same(t, InvokeCallback(u))
<1>1. Same(t, [u EXCEPT !.reconnect = opt.reconnect])
  BY DEF Same, Modes, Links, Sub, Fields
<1> QED
  BY <1>1, InvokeFunctionSame DEF InvokeCallback

LEMMA DeliverSame ==
  ASSUME NEW t, NEW u, Same(t, u), NEW body
  PROVE  Same(t, Deliver(u, body))
<1>1. Same(t, [u EXCEPT !.reconnect = opt.reconnect])
  BY DEF Same, Modes, Links, Sub, Fields
<1> QED
  BY <1>1, InvokeCallbackSame DEF Deliver

LEMMA InvokeCloseSame ==
  ASSUME NEW t, NEW u, Same(t, u)
  PROVE  Same(t, InvokeClose(u))
<1>1. Same(t, [u EXCEPT !.state = "closed"])
  BY DEF Same, Modes, Links, Sub, Fields
<1> QED
  BY <1>1, InvokeCallbackSame DEF InvokeClose

LEMMA OpenSame ==
  ASSUME NEW t, NEW u, Same(t, u), NEW state
  PROVE  Same(t, Open(u, state))
<1> DEFINE v == [u EXCEPT !.isReopen = TRUE]
           w == [v EXCEPT !.state = "re_connecting"]
           x == [u EXCEPT !.state = state]
<1>1. Same(t, w) /\ Same(t, x)
  BY DEF Same, Modes, Links, Sub, Fields
<1>2. Open(u, state) \in {InvokeFunction(w), u, [InvokeCallback(x) EXCEPT !.state = u.state]}
  BY DEF Open, TryingToReconnect
<1> HIDE DEF w, x
<1>3. Same(t, InvokeFunction(w)) /\ Same(t, InvokeCallback(x))
  BY <1>1, InvokeFunctionSame, InvokeCallbackSame
<1>4. Same(t, [InvokeCallback(x) EXCEPT !.state = u.state])
  BY <1>3 DEF Same, Modes, Links, Sub, Fields
<1> QED
  BY <1>2, <1>3, <1>4

LEMMA TriggerOpenSame ==
  ASSUME NEW t, NEW u, Same(t, u)
  PROVE  Same(t, TriggerOpen(u))
<1>1. Same(t, [u EXCEPT !.isOpen = TRUE]) /\ Same(t, [u EXCEPT !.isReopen = FALSE])
  BY DEF Same, Modes, Links, Sub, Fields
<1> QED
  BY <1>1, OpenSame DEF TriggerOpen

LEMMA HandleProtocolSame ==
  ASSUME NEW t, NEW u, Same(t, u), NEW body
  PROVE  Same(t, HandleProtocol(u, body))
<1>1. Same(t, [u EXCEPT !.firstMessage = FALSE])
  BY DEF Same, Modes, Links, Sub, Fields
<1> QED
  BY <1>1, TriggerOpenSame DEF HandleProtocol

LEMMA ReceivedSame ==
  ASSUME NEW t, NEW u, Same(t, u), NEW body
  PROVE  Same(t, Received(u, body))
<1> DEFINE v == HandleProtocol(u, body)
           w == [v EXCEPT !.state = "messageReceived"]
<1>1. Same(t, v)
  BY HandleProtocolSame
<1>2. Received(u, body) \in {v, Deliver(w, body)}
  BY DEF Received
<1> HIDE DEF v
<1>3. Same(t, w)
  BY <1>1 DEF Same, Modes, Links, Sub, Fields
<1> HIDE DEF w
<1> QED
  BY <1>1, <1>2, <1>3, DeliverSame

-----------------------------------------------------------------------------
(* Timers.                                                                   *)

\* What changes no connection, and no timer but those it clears.
Still(t, u) ==
  /\ Kept(t, u) /\ Modes(t, u) /\ Links(t, u)
  /\ Named(t) => Named(u)
  /\ Conns(u) = Conns(t) /\ Waits(u) \subseteq Waits(t)

LEMMA TimersKeep ==
  ASSUME NEW t, NEW u, Fit(t), Sub(u), Modes(t, u), Links(t, u),
         \A x \in u.timers : TimerFits(t, x)
  PROVE  Kept(t, u) /\ Conns(u) = Conns(t)
<1>1. Conns(u) = Conns(t)
  BY DEF Modes, Links, Conns
<1>2. Table(u)
  BY DEF Fit, Links, Table
<1>3. Kinds(u)
  BY DEF Fit, Modes, Links, Kinds, KindFits, Requests
<1>4. Handles(u)
  BY DEF Fit, Modes, Links, Handles, Requests
<1>5. Pending(u)
  BY DEF Modes, Links, Pending, TimerFits, Requests
<1>6. Order(u)
  BY DEF Fit, Modes, Order
<1> QED
  BY <1>1, <1>2, <1>3, <1>4, <1>5, <1>6 DEF Modes, Fit, Kept, Requests

LEMMA SameStill ==
  ASSUME NEW t, NEW u, Fit(t), Same(t, u)
  PROVE  /\ Still(t, u)
         /\ Waits(u) = Waits(t)
         /\ Clear(t) => Clear(u)
<1>1. Kept(t, u) /\ Conns(u) = Conns(t)
  BY TimersKeep DEF Same, Fit, Pending
<1>2. Waits(u) = Waits(t)
  BY DEF Same, Waits
<1>3. (Clear(t) => Clear(u)) /\ (Named(t) => Named(u))
  BY DEF Same, Clear, Named
<1> QED
  BY <1>1, <1>2, <1>3 DEF Same, Still

LEMMA StillOne ==
  ASSUME NEW t, NEW u, Still(t, u)
  PROVE  (One(t) => One(u)) /\ (Quiet(t) => Quiet(u))
BY DEF Still, One, Quiet

LEMMA StillStill ==
  ASSUME NEW t, NEW u, NEW v, Still(t, u), Still(u, v)
  PROVE  Still(t, v)
BY DEF Still, Kept, Modes, Links

LEMMA ClearTimerKeeps ==
  ASSUME NEW t, Fit(t)
  PROVE  /\ Still(t, ClearTimer(t))
         /\ Named(t) => Clear(ClearTimer(t))
         /\ \A x \in Waits(ClearTimer(t)) : x.n # t.id
<1> DEFINE u == ClearTimer(t)
<1>1. /\ Sub(u) /\ Modes(t, u) /\ Links(t, u)
      /\ u.timers = {x \in t.timers : x.n # t.id}
  BY DEF ClearTimer, Fit, Sub, Fields, Modes, Links
<1> HIDE DEF u
<1>2. Kept(t, u) /\ Conns(u) = Conns(t)
  BY <1>1, TimersKeep DEF Fit, Pending
<1>3. Named(t) => Clear(u)
  BY <1>1 DEF Named, Clear
<1>4. Waits(u) \subseteq Waits(t) /\ \A x \in Waits(u) : x.n # t.id
  BY <1>1 DEF Waits
<1>5. Clear(u) => Named(u)
  BY DEF Clear, Named
<1> QED
  BY <1>1, <1>2, <1>3, <1>4, <1>5 DEF Still, u

\* The timers that are to open a connection are named.
WaitsNamed(t) == \A x \in Waits(t) : x.n = t.id

LEMMA SetTimerKeeps ==
  ASSUME NEW t, NEW kind, NEW c, Fit(t),
         \A n : TimerFits(t, [n |-> n, kind |-> kind, c |-> c])
  PROVE  LET u == SetTimer(t, kind, c) IN
         /\ Kept(t, u) /\ Modes(t, u) /\ Links(t, u) /\ Conns(u) = Conns(t)
         /\ Clear(t) => Named(u)
         /\ kind \notin Opening => Waits(u) = Waits(t)
         /\ Quiet(t) => One(u)
         /\ Waits(t) = {} => WaitsNamed(u)
<1> DEFINE u == SetTimer(t, kind, c)
<1>1. PICK n : u = [t EXCEPT !.timers = @ \cup {[n |-> n, kind |-> kind, c |-> c]}, !.id = n]
  BY DEF SetTimer
<1> DEFINE x == [n |-> n, kind |-> kind, c |-> c]
<1>2. /\ Sub(u) /\ Modes(t, u) /\ Links(t, u)
      /\ u.timers = t.timers \cup {x} /\ u.id = n
  BY <1>1 DEF Fit, Sub, Fields, Modes, Links
<1>3. x.n = n /\ x.kind = kind
  OBVIOUS
<1>4. TimerFits(t, x)
  OBVIOUS
<1> HIDE DEF u, x
<1>5. Kept(t, u) /\ Conns(u) = Conns(t)
  BY <1>2, <1>4, TimersKeep DEF Fit, Pending
<1>6. Clear(t) => Named(u)
  BY <1>2, <1>3 DEF Named, Clear
<1>7. /\ kind \notin Opening => Waits(u) = Waits(t)
      /\ Waits(u) \subseteq Waits(t) \cup {x}
  BY <1>2, <1>3 DEF Waits
<1>8. Quiet(t) => One(u)
  BY <1>5, <1>7 DEF Quiet, One
<1>9. Waits(t) = {} => WaitsNamed(u)
  BY <1>2, <1>3, <1>7 DEF WaitsNamed
<1> QED
  BY <1>2, <1>5, <1>6, <1>7, <1>8, <1>9 DEF u

\* A timer that watches a connection: the inactivity timer, for one.
LEMMA WatchKeeps ==
  ASSUME NEW t, NEW kind, NEW c, Fit(t), kind \in {"timeout", "connectXhr", "connectSse"}
  PROVE  LET u == SetTimer(t, kind, c) IN
         /\ Kept(t, u) /\ Modes(t, u) /\ Links(t, u) /\ Conns(u) = Conns(t)
         /\ Clear(t) => Named(u)
         /\ Waits(u) = Waits(t)
<1>1. \A n : TimerFits(t, [n |-> n, kind |-> kind, c |-> c])
  BY DEF TimerFits, Opening
<1>2. kind \notin Opening
  BY DEF Opening
<1> QED
  BY <1>1, <1>2, SetTimerKeeps

LEMMA SetTimeoutKeeps ==
  ASSUME NEW t, Fit(t)
  PROVE  Still(t, SetTimeout(t))
<1> DEFINE u == ClearTimer(t)
           v == SetTimer(u, "timeout", None)
<1>1. Still(t, u) /\ (Named(t) => Clear(u)) /\ Fit(u)
  BY ClearTimerKeeps DEF Still, Kept
<1>2. SetTimeout(t) \in {u, v}
  BY DEF SetTimeout
<1> HIDE DEF u
<1>3. /\ Kept(u, v) /\ Modes(u, v) /\ Links(u, v) /\ Conns(v) = Conns(u)
      /\ Clear(u) => Named(v)
      /\ Waits(v) = Waits(u)
  BY <1>1, WatchKeeps
<1> HIDE DEF v
<1>4. Still(t, v)
  BY <1>1, <1>3 DEF Still, Kept, Modes, Links
<1> QED
  BY <1>1, <1>2, <1>4

-----------------------------------------------------------------------------
(* Connections.                                                              *)

\* An operation for which there must be no connection and no timer that is to
\* open one, and no other timer: it opens one, or sets one.
Opens(t, u) ==
  /\ Kept(t, u)
  /\ Clear(t) => Named(u)
  /\ Quiet(t) => One(u)

LEMMA LowestIsOne ==
  ASSUME NEW S \in SUBSET Nat, S # {}
  PROVE  LowestOf(S) \in S
<1>1. PICK m \in S : \A n \in S : ~(<<n, m>> \in OpToRel(<, Nat))
  BY NatLessThanWellFounded, WFMin
<1>2. ASSUME NEW n \in S PROVE m <= n
  <2>1. <<n, m>> \in Nat \X Nat /\ <<n, m>>[1] = n /\ <<n, m>>[2] = m
    OBVIOUS
  <2>2. ~(n < m)
    BY <1>1, <2>1, Zenon DEF OpToRel
  <2> QED
    BY <2>2
<1> QED
  BY <1>2 DEF LowestOf

LEMMA NewConnIsFree ==
  ASSUME NEW t, Fit(t)
  PROVE  NewConn(t) = None \/ NewConn(t) \in Free(t)
<1>1. Free(t) \in SUBSET Nat
  BY OptionTypes DEF Free, Fit
<1> QED
  BY <1>1, LowestIsOne DEF NewConn

\* A connection of a kind that fits is added; its handle is not set yet.
LEMMA WithConnKeeps ==
  ASSUME NEW t, NEW kind, NEW u, Fit(t), KindFits(t, kind),
         \E opened : u = WithConn(t, kind, opened)
  PROVE  /\ Kept(t, u) /\ Modes(t, u) /\ u.timers = t.timers /\ u.id = t.id
         /\ u.ws = t.ws /\ u.sse = t.sse /\ u.active = t.active /\ u.jq = t.jq /\ u.ie = t.ie
         /\ Conns(u) \subseteq Conns(t) \cup {NewConn(t)}
         /\ kind = "push" => Conns(u) = Conns(t)
         /\ NewConn(t) # None => u.conns[NewConn(t)].kind = kind
<1>0. PICK opened : u = WithConn(t, kind, opened)
  OBVIOUS
<1> DEFINE c == NewConn(t)
           new == [Idle EXCEPT !.kind = kind, !.st = "connecting", !.opened = opened]
<1>1. c = None \/ (c \in Slots /\ t.conns[c].kind = "none" /\ c \notin {t.ws, t.sse, t.active, t.jq, t.ie})
  BY NewConnIsFree DEF Free
<1>2. /\ new.kind = kind /\ new.st = "connecting"
      /\ DOMAIN new = {"kind", "st", "opened", "marked", "mute"}
  BY DEF Idle
<1>3. u = [t EXCEPT !.conns[c] = new]
  BY <1>0 DEF WithConn
<1> HIDE DEF new, c
<1>4. None \notin Slots
  BY OptionTypes DEF Fit
<1>5. /\ Sub(u) /\ Modes(t, u) /\ u.timers = t.timers /\ u.id = t.id
      /\ u.ws = t.ws /\ u.sse = t.sse /\ u.active = t.active /\ u.jq = t.jq /\ u.ie = t.ie
      /\ u.conns = [t.conns EXCEPT ![c] = new]
  BY <1>3 DEF Fit, Sub, Fields, Modes
<1>6. /\ DOMAIN u.conns = Slots
      /\ \A d \in Slots : u.conns[d] = IF d = c THEN new ELSE t.conns[d]
  BY <1>5 DEF Fit, Table
<1>7. Table(u)
  BY <1>2, <1>6 DEF Fit, Table
<1>8. Kinds(u)
  BY <1>2, <1>5, <1>6 DEF Fit, Modes, Kinds, KindFits, Requests
<1>9. Handles(u)
  <2>1. u.ws # None => u.conns[u.ws].kind \in {"ws", "none"}
    BY <1>1, <1>5, <1>6 DEF Fit, Handles
  <2> QED
    BY <1>5, <2>1 DEF Fit, Modes, Handles, Requests
<1>10. Pending(u)
  BY <1>5 DEF Fit, Modes, Pending, TimerFits, Requests
<1>11. Order(u)
  BY <1>5 DEF Fit, Modes, Order
<1>12. /\ Conns(u) \subseteq Conns(t) \cup {c}
       /\ kind = "push" => Conns(u) = Conns(t)
  BY <1>1, <1>2, <1>4, <1>5, <1>6 DEF Conns, Modes
<1>13. Kept(t, u)
  BY <1>5, <1>7, <1>8, <1>9, <1>10, <1>11 DEF Kept, Fit, Modes, Requests
<1>14. c # None => u.conns[c].kind = kind
  BY <1>1, <1>2, <1>6
<1> QED
  BY <1>5, <1>12, <1>13, <1>14 DEF c

LEMMA EndedKeeps ==
  ASSUME NEW t, Fit(t), NEW c \in Slots
  PROVE  LET u == Ended(t, c) IN
         /\ Kept(t, u) /\ Modes(t, u) /\ u.timers = t.timers /\ u.id = t.id
         /\ u.ws = t.ws /\ u.sse = t.sse /\ u.active = t.active /\ u.jq = t.jq /\ u.ie = t.ie
         /\ Conns(u) = Conns(t) \ {c}
         /\ u.conns = [t.conns EXCEPT ![c] = Idle]
<1> DEFINE u == Ended(t, c)
<1>1. /\ Sub(u) /\ Modes(t, u) /\ u.timers = t.timers /\ u.id = t.id
      /\ u.ws = t.ws /\ u.sse = t.sse /\ u.active = t.active /\ u.jq = t.jq /\ u.ie = t.ie
      /\ u.conns = [t.conns EXCEPT ![c] = Idle]
  BY DEF Ended, Fit, Sub, Fields, Modes
<1> HIDE DEF u
<1>2. /\ Idle.kind = "none" /\ Idle.st = "none"
      /\ DOMAIN Idle = {"kind", "st", "opened", "marked", "mute"}
  BY DEF Idle
<1>3. /\ DOMAIN u.conns = Slots
      /\ \A d \in Slots : u.conns[d] = IF d = c THEN Idle ELSE t.conns[d]
  BY <1>1 DEF Fit, Table
<1>4. Table(u)
  BY <1>2, <1>3 DEF Fit, Table
<1>5. Kinds(u)
  BY <1>1, <1>2, <1>3 DEF Fit, Modes, Kinds, KindFits, Requests
<1>6. Handles(u)
  <2>1. u.ws # None => u.conns[u.ws].kind \in {"ws", "none"}
    BY <1>1, <1>2, <1>3 DEF Fit, Handles
  <2> QED
    BY <1>1, <2>1 DEF Fit, Modes, Handles, Requests
<1>7. Pending(u)
  BY <1>1 DEF Fit, Modes, Pending, TimerFits, Requests
<1>8. Order(u)
  BY <1>1 DEF Fit, Modes, Order
<1>9. Conns(u) = Conns(t) \ {c}
  BY <1>1, <1>2, <1>3 DEF Conns, Modes
<1>10. Kept(t, u)
  BY <1>1, <1>4, <1>5, <1>6, <1>7, <1>8 DEF Kept, Fit, Modes, Requests
<1> QED
  BY <1>1, <1>9, <1>10 DEF u

\* The handles are forgotten.
Dropped(u) == u.ws = None /\ u.sse = None /\ u.active = None /\ u.jq = None /\ u.ie = None

LEMMA DropHandlesKeeps ==
  ASSUME NEW t, Fit(t)
  PROVE  LET u == DropHandles(t) IN
         /\ Kept(t, u) /\ Modes(t, u) /\ u.timers = t.timers /\ u.id = t.id
         /\ Dropped(u)
         /\ Conns(u) \subseteq Conns(t)
<1> DEFINE u == DropHandles(t)
           closing(c) == IF c = t.ws /\ t.conns[c].marked THEN [t.conns[c] EXCEPT !.st = "closing"]
                         ELSE IF c \in {t.sse, t.ie} THEN Idle ELSE t.conns[c]
<1>1. u = [t EXCEPT !.conns = [c \in Slots |-> closing(c)],
                    !.ws = None, !.sse = None, !.active = None, !.jq = None, !.ie = None]
  BY DEF DropHandles
<1>2. /\ Sub(u) /\ Modes(t, u) /\ u.timers = t.timers /\ u.id = t.id /\ Dropped(u)
      /\ u.conns = [c \in Slots |-> closing(c)]
  <2> DEFINE conns == [c \in Slots |-> closing(c)]
  <2> HIDE DEF conns
  <2>1. u = [t EXCEPT !.conns = conns,
                      !.ws = None, !.sse = None, !.active = None, !.jq = None, !.ie = None]
    BY <1>1, Zenon DEF conns
  <2> HIDE DEF u
  <2>2. DOMAIN t = Fields
    BY DEF Fit, Sub
  <2>3. DOMAIN u = Fields
    BY <2>1, <2>2, Zenon
  <2>4. Modes(t, u) /\ u.timers = t.timers /\ u.id = t.id
    BY <2>1, <2>2, Zenon DEF Modes, Fields
  <2>5. u.conns = conns /\ Dropped(u)
    BY <2>1, <2>2, Zenon DEF Dropped, Fields
  <2> QED
    BY <2>3, <2>4, <2>5, Zenon DEF Sub, conns
<1> HIDE DEF u
<1>3. /\ Idle.kind = "none" /\ Idle.st = "none"
      /\ DOMAIN Idle = {"kind", "st", "opened", "marked", "mute"}
  BY DEF Idle
<1>4. ASSUME NEW c \in Slots
      PROVE  /\ DOMAIN u.conns[c] = {"kind", "st", "opened", "marked", "mute"}
             /\ u.conns[c].kind \in {t.conns[c].kind, "none"}
             /\ u.conns[c].kind # "none" => u.conns[c].st \in {t.conns[c].st, "closing"}
             /\ u.conns[c].st = "closing" => u.conns[c].kind \in {"ws", "none"}
  <2>1. u.conns[c] = closing(c)
    BY <1>2
  <2>2. DOMAIN t.conns[c] = {"kind", "st", "opened", "marked", "mute"}
    BY DEF Fit, Table
  <2>3. c = t.ws => t.conns[c].kind \in {"ws", "none"}
    BY OptionTypes DEF Fit, Handles
  <2>4. t.conns[c].st = "closing" => t.conns[c].kind \in {"ws", "none"}
    BY DEF Fit, Kinds
  <2>5. CASE c = t.ws /\ t.conns[c].marked
    <3>1. u.conns[c] = [t.conns[c] EXCEPT !.st = "closing"]
      BY <2>1, <2>5
    <3> QED
      BY <2>2, <2>3, <2>5, <3>1
  <2>6. CASE ~(c = t.ws /\ t.conns[c].marked)
    <3>1. u.conns[c] \in {Idle, t.conns[c]}
      BY <2>1, <2>6
    <3> QED
      BY <1>3, <2>2, <2>4, <3>1
  <2> QED
    BY <2>5, <2>6
<1>5. Table(u)
  BY <1>2, <1>4 DEF Table
<1>6. Kinds(u)
  <2>1. ASSUME NEW c \in Slots PROVE KindFits(u, u.conns[c].kind)
    <3>1. KindFits(u, t.conns[c].kind) /\ KindFits(u, "none")
      BY <1>2 DEF Fit, Modes, Kinds, KindFits, Requests
    <3> QED
      BY <1>4, <3>1
  <2> QED
    BY <1>4, <2>1 DEF Kinds
<1>7. Handles(u)
  BY <1>2 DEF Dropped, Handles
<1>8. Pending(u)
  BY <1>2 DEF Fit, Modes, Dropped, Pending, TimerFits, Requests
<1>9. Order(u)
  BY <1>2 DEF Fit, Modes, Order
<1>10. Conns(u) \subseteq Conns(t)
  <2>1. ASSUME NEW c \in Conns(u) PROVE c \in Conns(t)
    <3>1. c \in Slots /\ u.conns[c].kind \notin {"none", "push"}
          /\ ~(t.abording /\ u.conns[c].st = "closing")
      BY <1>2, <2>1 DEF Conns, Modes
    <3>2. t.conns[c].kind = u.conns[c].kind /\ u.conns[c].st \in {t.conns[c].st, "closing"}
      BY <1>4, <3>1
    <3> QED
      BY <3>1, <3>2 DEF Conns
  <2> QED
    BY <2>1
<1>11. Kept(t, u)
  BY <1>2, <1>5, <1>6, <1>7, <1>8, <1>9 DEF Kept, Fit, Modes, Requests
<1> QED
  BY <1>2, <1>10, <1>11 DEF u

\* What opens no connection and sets no timer that is to open one.
Less(t, u) ==
  /\ Kept(t, u)
  /\ Conns(u) \subseteq Conns(t) /\ Waits(u) \subseteq Waits(t)
  /\ Named(t) => Named(u)

LEMMA LessOne ==
  ASSUME NEW t, NEW u, Less(t, u)
  PROVE  (One(t) => One(u)) /\ (Quiet(t) => Quiet(u))
<1>1. Conns(u) \subseteq Conns(t) /\ Waits(u) \subseteq Waits(t)
  BY DEF Less
<1> QED
  BY <1>1 DEF One, Quiet

LEMMA LessLess ==
  ASSUME NEW t, NEW u, NEW v, Less(t, u), Less(u, v)
  PROVE  Less(t, v)
BY DEF Less, Kept

LEMMA LessItself ==
  ASSUME NEW t, Fit(t)
  PROVE  Less(t, t)
BY DEF Less, Kept

LEMMA StillLess ==
  ASSUME NEW t, NEW u, Still(t, u)
  PROVE  Less(t, u)
BY DEF Less, Still

LEMMA SameLess ==
  ASSUME NEW t, NEW u, Fit(t), Same(t, u)
  PROVE  Less(t, u) /\ (Clear(t) => Clear(u))
BY SameStill, StillLess

\* Other handles, and another transport in use, for the same connections.
LEMMA RelinkKeeps ==
  ASSUME NEW t, NEW u, Fit(t), Sub(u), Handles(u), Pending(u),
         u.conns = t.conns, u.timers = t.timers, u.id = t.id,
         u.transport = t.transport, u.fallback = t.fallback, u.abording = t.abording,
         t.cut => u.cut, t.errorHandled => u.errorHandled
  PROVE  /\ Less(t, u) /\ (Clear(t) => Clear(u))
         /\ Conns(u) = Conns(t) /\ Waits(u) = Waits(t)
<1>1. Conns(u) = Conns(t) /\ Waits(u) = Waits(t)
  BY DEF Conns, Waits
<1>2. Table(u) /\ Kinds(u) /\ Order(u)
  BY DEF Fit, Table, Kinds, KindFits, Requests, Order
<1>3. (Clear(t) => Clear(u)) /\ (Named(t) => Named(u))
  BY DEF Clear, Named
<1>4. Kept(t, u)
  BY <1>2 DEF Fit, Kept, Requests
<1> QED
  BY <1>1, <1>3, <1>4 DEF Less

\* A new connection with its handle.
LEMMA LinkedKeeps ==
  ASSUME NEW t, Fit(t), NEW w, Kept(t, w), Modes(t, w), w.timers = t.timers, w.id = t.id,
         Conns(w) \subseteq Conns(t) \cup {NewConn(t)},
         NEW u, Sub(u), Handles(u), Pending(u),
         u.conns = w.conns, u.timers = t.timers, u.id = t.id,
         u.transport = t.transport, u.fallback = t.fallback, u.abording = t.abording,
         t.cut => u.cut, t.errorHandled => u.errorHandled
  PROVE  /\ Opens(t, u) /\ (Clear(t) => Clear(u)) /\ (Named(t) => Named(u))
         /\ Conns(u) \subseteq Conns(t) \cup {NewConn(t)} /\ Waits(u) = Waits(t)
<1>3. Fit(w)
  BY DEF Kept
<1>4. /\ Less(w, u) /\ Conns(u) = Conns(w)
  BY <1>3, RelinkKeeps DEF Modes
<1>5. Kept(t, u)
  BY <1>4 DEF Less, Kept
<1>6. (Clear(t) => Clear(u)) /\ (Named(t) => Named(u)) /\ Waits(u) = Waits(t)
  BY DEF Clear, Named, Waits
<1>7. Conns(u) \subseteq Conns(t) \cup {NewConn(t)}
  BY <1>4
<1>8. Quiet(t) => One(u)
  BY <1>6, <1>7 DEF Quiet, One
<1>9. Clear(u) => Named(u)
  BY DEF Clear, Named
<1> QED
  BY <1>5, <1>6, <1>7, <1>8, <1>9 DEF Opens

-----------------------------------------------------------------------------
(* Requests.                                                                 *)

LEMMA ClearQuietKeeps ==
  ASSUME NEW t, Fit(t)
  PROVE  LET u == ClearQuiet(t) IN
         Less(t, u) /\ (Named(t) => Clear(u)) /\ Dropped(u) /\ Modes(t, u)
<1> DEFINE v == ClearTimer(t)
           u == DropHandles(v)
<1>1. Still(t, v) /\ (Named(t) => Clear(v))
  BY ClearTimerKeeps
<1>2. Fit(v)
  BY <1>1 DEF Still, Kept
<1> HIDE DEF v
<1>3. /\ Kept(v, u) /\ Modes(v, u) /\ u.timers = v.timers /\ u.id = v.id
      /\ Dropped(u) /\ Conns(u) \subseteq Conns(v)
  BY <1>2, DropHandlesKeeps
<1> HIDE DEF u
<1>4. Less(v, u) /\ (Clear(v) => Clear(u))
  BY <1>3 DEF Less, Named, Clear, Waits
<1>5. Less(t, u)
  BY <1>1, <1>4, StillLess, LessLess
<1>6. Modes(t, u)
  BY <1>1, <1>3 DEF Still, Modes
<1> QED
  BY <1>1, <1>3, <1>4, <1>5, <1>6 DEF u, v, ClearQuiet

LEMMA ErrorQuietKeeps ==
  ASSUME NEW t, Fit(t)
  PROVE  LET u == ErrorQuiet(t) IN
         Less(t, u) /\ (Named(t) => Clear(u)) /\ Dropped(u) /\ Modes(t, u)
<1> DEFINE v == ClearQuiet(t)
           w == [v EXCEPT !.state = "error"]
           u == InvokeCallback(w)
<1>1. Less(t, v) /\ (Named(t) => Clear(v)) /\ Dropped(v) /\ Modes(t, v)
  BY ClearQuietKeeps
<1>2. Fit(v)
  BY <1>1 DEF Less, Kept
<1> HIDE DEF v
<1>3. Same(v, w)
  BY <1>2 DEF Same, Modes, Links, Fit, Sub, Fields
<1> HIDE DEF w
<1>4. Same(v, u)
  BY <1>3, InvokeCallbackSame
<1> HIDE DEF u
<1>5. Less(v, u) /\ (Clear(v) => Clear(u))
  BY <1>2, <1>4, SameLess
<1>6. Less(t, u)
  BY <1>1, <1>5, LessLess
<1>7. Dropped(u) /\ Modes(t, u)
  BY <1>1, <1>4 DEF Same, Modes, Links, Dropped
<1> QED
  BY <1>1, <1>5, <1>6, <1>7 DEF u, w, v, ErrorQuiet

LEMMA NewConnTypes ==
  ASSUME NEW t, Fit(t)
  PROVE  NewConn(t) \in Slots \cup {None}
BY NewConnIsFree DEF Free

LEMMA JqueryKeeps ==
  ASSUME NEW t, Fit(t), opt.transport \in Ajax
  PROVE  LET u == Jquery(t) IN
         /\ Opens(t, u) /\ (Clear(t) => Clear(u)) /\ (Named(t) => Named(u))
         /\ Waits(u) = Waits(t) /\ u.active = t.active
<1> DEFINE w == WithConn(t, "jquery", FALSE)
           u == Jquery(t)
<1>1. KindFits(t, "jquery")
  BY DEF KindFits
<1>2. /\ Kept(t, w) /\ Modes(t, w) /\ w.timers = t.timers /\ w.id = t.id
      /\ w.ws = t.ws /\ w.sse = t.sse /\ w.active = t.active /\ w.jq = t.jq /\ w.ie = t.ie
      /\ Conns(w) \subseteq Conns(t) \cup {NewConn(t)}
  <2>1. \E opened : w = WithConn(t, "jquery", opened)
    OBVIOUS
  <2> HIDE DEF w
  <2> QED
    BY <1>1, <2>1, WithConnKeeps
<1>3. u = [w EXCEPT !.jq = NewConn(t)]
  BY DEF Jquery
<1>4. u.conns = w.conns
  BY <1>3
<1>5. Fit(w)
  BY <1>2 DEF Kept
<1> HIDE DEF u
<1> HIDE DEF w
<1>7. /\ Sub(u) /\ u.jq = NewConn(t) /\ Modes(w, u)
      /\ u.ws = t.ws /\ u.sse = t.sse /\ u.active = t.active /\ u.ie = t.ie
      /\ u.timers = t.timers /\ u.id = t.id
  BY <1>2, <1>3, <1>5 DEF Fit, Sub, Fields, Modes
<1>8. Handles(u)
  BY <1>2, <1>4, <1>5, <1>7, NewConnTypes DEF Fit, Modes, Handles, Requests
<1>9. Pending(u)
  BY <1>2, <1>5, <1>7 DEF Fit, Modes, Pending, TimerFits, Requests
<1>10. /\ u.transport = t.transport /\ u.fallback = t.fallback /\ u.abording = t.abording
       /\ u.cut = t.cut /\ u.errorHandled = t.errorHandled
  BY <1>2, <1>7 DEF Modes
<1> QED
  BY <1>2, <1>4, <1>7, <1>8, <1>9, <1>10, LinkedKeeps DEF u

LEMMA TimedKeeps ==
  ASSUME NEW t, Fit(t)
  PROVE  LET u == Timed(t) IN
         /\ Kept(t, u) /\ Modes(t, u) /\ Links(t, u) /\ Conns(u) = Conns(t)
         /\ Clear(t) => Named(u)
         /\ Waits(u) = Waits(t)
<1> DEFINE u == SetTimer(t, "connectXhr", None)
<1>1. Timed(t) \in {t, u}
  BY DEF Timed
<1>2. /\ Kept(t, u) /\ Modes(t, u) /\ Links(t, u) /\ Conns(u) = Conns(t)
      /\ Clear(t) => Named(u)
      /\ Waits(u) = Waits(t)
  BY WatchKeeps
<1>3. Kept(t, t) /\ Modes(t, t) /\ Links(t, t) /\ (Clear(t) => Named(t))
  BY DEF Kept, Modes, Links, Clear, Named
<1> HIDE DEF u
<1> QED
  BY <1>1, <1>2, <1>3

LEMMA IeXDRKeeps ==
  ASSUME NEW t, Fit(t), opt.browser = "ieXDR", opt.transport \notin Ajax
  PROVE  LET u == IeXDR(t) IN Opens(t, u) /\ Waits(u) = Waits(t)
<1> DEFINE w == WithConn(t, "xdr", FALSE)
<1>1. KindFits(t, "xdr")
  BY DEF KindFits
<1>2. /\ Kept(t, w) /\ Modes(t, w) /\ w.timers = t.timers /\ w.id = t.id
      /\ w.ws = t.ws /\ w.sse = t.sse /\ w.active = t.active /\ w.jq = t.jq /\ w.ie = t.ie
      /\ Conns(w) \subseteq Conns(t) \cup {NewConn(t)}
  <2>1. \E opened : w = WithConn(t, "xdr", opened)
    OBVIOUS
  <2> HIDE DEF w
  <2> QED
    BY <1>1, <2>1, WithConnKeeps
<1>3. Fit(w)
  BY <1>2 DEF Kept
<1> HIDE DEF w
<1> DEFINE v == [w EXCEPT !.ie = NewConn(t)]
           u == Timed(v)
<1>5. /\ Sub(v) /\ v.ie = NewConn(t) /\ Modes(w, v) /\ v.conns = w.conns
      /\ v.ws = t.ws /\ v.sse = t.sse /\ v.active = t.active /\ v.jq = t.jq
      /\ v.timers = t.timers /\ v.id = t.id
  BY <1>2, <1>3 DEF Fit, Sub, Fields, Modes
<1> HIDE DEF v
<1>6. Handles(v)
  BY <1>2, <1>3, <1>5, NewConnTypes DEF Fit, Modes, Handles, Requests
<1>7. Pending(v)
  BY <1>2, <1>3, <1>5 DEF Fit, Modes, Pending, TimerFits, Requests
<1>8. /\ v.transport = t.transport /\ v.fallback = t.fallback /\ v.abording = t.abording
      /\ v.cut = t.cut /\ v.errorHandled = t.errorHandled
  BY <1>2, <1>5 DEF Modes
<1>9. Opens(t, v) /\ (Clear(t) => Clear(v)) /\ Waits(v) = Waits(t)
  BY <1>2, <1>5, <1>6, <1>7, <1>8, LinkedKeeps
<1>10. Fit(v)
  BY <1>9 DEF Opens, Kept
<1>11. /\ Kept(v, u) /\ Modes(v, u) /\ Links(v, u) /\ Conns(u) = Conns(v)
       /\ Clear(v) => Named(u)
       /\ Waits(u) = Waits(v)
  BY <1>10, TimedKeeps
<1>12. u = IeXDR(t)
  BY DEF u, v, w, IeXDR
<1> HIDE DEF u
<1>13. One(v) => One(u)
  BY <1>11 DEF One
<1>14. Kept(t, u)
  BY <1>9, <1>11 DEF Opens, Kept
<1> QED
  BY <1>9, <1>11, <1>12, <1>13, <1>14 DEF Opens

LEMMA IeStreamingKeeps ==
  ASSUME NEW t, Fit(t), opt.browser = "ie", opt.transport \notin Ajax
  PROVE  LET u == IeStreaming(t) IN
         /\ Opens(t, u) /\ (Named(t) => Named(u))
         /\ Waits(u) = Waits(t) /\ Conns(u) \subseteq Conns(t) \cup {u.ie}
<1> DEFINE w == WithConn(t, "frame", FALSE)
<1>1. KindFits(t, "frame")
  BY DEF KindFits
<1>2. /\ Kept(t, w) /\ Modes(t, w) /\ w.timers = t.timers /\ w.id = t.id
      /\ w.ws = t.ws /\ w.sse = t.sse /\ w.active = t.active /\ w.jq = t.jq /\ w.ie = t.ie
      /\ Conns(w) \subseteq Conns(t) \cup {NewConn(t)}
  <2>1. \E opened : w = WithConn(t, "frame", opened)
    OBVIOUS
  <2> HIDE DEF w
  <2> QED
    BY <1>1, <2>1, WithConnKeeps
<1>3. Fit(w)
  BY <1>2 DEF Kept
<1> HIDE DEF w
<1> DEFINE u == [w EXCEPT !.ie = NewConn(t), !.rtransport = t.transport]
<1>5. /\ Sub(u) /\ u.ie = NewConn(t) /\ u.rtransport = t.transport /\ u.conns = w.conns
      /\ u.ws = t.ws /\ u.sse = t.sse /\ u.active = t.active /\ u.jq = t.jq
      /\ u.timers = t.timers /\ u.id = t.id
      /\ u.transport = t.transport /\ u.fallback = t.fallback /\ u.abording = t.abording
      /\ u.cut = t.cut /\ u.errorHandled = t.errorHandled
  BY <1>2, <1>3 DEF Fit, Sub, Fields, Modes
<1>6. u = IeStreaming(t)
  BY DEF w, IeStreaming
<1> HIDE DEF u
<1>7. Handles(u)
  BY <1>2, <1>3, <1>5, NewConnTypes DEF Fit, Modes, Handles, Requests
<1>8. Pending(u)
  BY <1>2, <1>3, <1>5 DEF Fit, Modes, Pending, TimerFits, Requests
<1>9. Conns(u) \subseteq Conns(t) \cup {u.ie}
      /\ Opens(t, u) /\ (Named(t) => Named(u)) /\ Waits(u) = Waits(t)
  BY <1>2, <1>5, <1>7, <1>8, LinkedKeeps
<1> QED
  BY <1>6, <1>9

\* Other fields, for the same connections, handles and timers.
LEMMA AlikeKeeps ==
  ASSUME NEW t, NEW u, Fit(t), Sub(u), Links(t, u), u.timers = t.timers, u.id = t.id,
         u.transport = t.transport, u.fallback = t.fallback, u.rtransport = t.rtransport,
         u.abording = t.abording, t.cut => u.cut, t.errorHandled => u.errorHandled
  PROVE  /\ Less(t, u) /\ (Clear(t) => Clear(u))
         /\ Conns(u) = Conns(t) /\ Waits(u) = Waits(t)
<1>1. Handles(u) /\ Pending(u)
  BY DEF Fit, Links, Handles, Pending, TimerFits, Requests
<1> QED
  BY <1>1, RelinkKeeps DEF Links

\* Where a request is: with its handle, and not answered yet.
Alone(u) ==
  \/ Conns(u) = {}
  \/ Conns(u) \subseteq {u.ie} /\ opt.browser = "ie"
  \/ /\ Conns(u) \subseteq {u.active} /\ u.active # None
     /\ u.conns[u.active].kind = "xhr" /\ u.ready = 0

LEMMA XhrKeeps ==
  ASSUME NEW t, Fit(t), Clear(t), Requests(t), opt.browser # "ieXDR", opt.transport \notin Ajax,
         t.ready = 0
  PROVE  LET u == Xhr(t) IN
         /\ Opens(t, u) /\ Waits(u) \subseteq Waits(t)
         /\ Quiet(t) => Alone(u)
<1>1. Clear(t) => Named(t)
  BY DEF Clear, Named
<1>2. CASE ~t.reconnect
  <2> DEFINE u == ErrorQuiet(t)
  <2>1. Less(t, u)
    BY ErrorQuietKeeps
  <2>2. Xhr(t) = u
    BY <1>2 DEF Xhr
  <2> HIDE DEF u
  <2>3. Quiet(t) => Quiet(u)
    BY <2>1, LessOne
  <2> QED
    BY <1>1, <2>1, <2>2, <2>3 DEF Opens, Less, Quiet, One, Alone
<1>3. CASE t.reconnect
  <2> DEFINE v == Timed(t)
             w == WithConn(v, "xhr", FALSE)
  <2>1. /\ Kept(t, v) /\ Modes(t, v) /\ Links(t, v) /\ Conns(v) = Conns(t)
        /\ Named(v) /\ Waits(v) = Waits(t)
    BY TimedKeeps
  <2>2. Xhr(t) = [w EXCEPT !.active = NewConn(t), !.rtransport = t.transport]
    BY <1>3 DEF Xhr
  <2>3. \E opened : w = WithConn(v, "xhr", opened)
    OBVIOUS
  <2> HIDE DEF w, v
  <2>4. Fit(v) /\ Requests(v)
    BY <2>1 DEF Kept
  <2>5. Free(v) = Free(t)
    BY <2>1 DEF Free, Links
  <2>6. NewConn(v) = NewConn(t)
    BY <2>5 DEF NewConn
  <2>7. KindFits(v, "xhr")
    BY <2>4 DEF KindFits
  <2>8. /\ Kept(v, w) /\ Modes(v, w) /\ w.timers = v.timers /\ w.id = v.id
        /\ w.ws = v.ws /\ w.sse = v.sse /\ w.active = v.active /\ w.jq = v.jq /\ w.ie = v.ie
        /\ Conns(w) \subseteq Conns(v) \cup {NewConn(v)}
        /\ NewConn(v) # None => w.conns[NewConn(v)].kind = "xhr"
    BY <2>3, <2>4, <2>7, WithConnKeeps
  <2>9. Fit(w)
    BY <2>8 DEF Kept
  <2> DEFINE u == [w EXCEPT !.active = NewConn(t), !.rtransport = t.transport]
  <2>10. /\ Sub(u) /\ u.active = NewConn(v) /\ u.rtransport = t.transport /\ u.conns = w.conns
         /\ u.ws = v.ws /\ u.sse = v.sse /\ u.ie = v.ie /\ u.jq = v.jq
         /\ u.timers = v.timers /\ u.id = v.id
         /\ u.transport = t.transport /\ u.transport = v.transport
         /\ u.fallback = v.fallback /\ u.abording = v.abording
         /\ u.cut = v.cut /\ u.errorHandled = v.errorHandled /\ u.ready = 0
    BY <2>1, <2>6, <2>8, <2>9 DEF Fit, Sub, Fields, Modes
  <2> HIDE DEF u
  <2>11. Handles(u)
    <3>1. u.ws # None => u.conns[u.ws].kind \in {"ws", "none"}
      BY <2>8, <2>9, <2>10 DEF Fit, Handles
    <3>2. Requests(u) /\ u.rtransport # "websocket"
      BY <2>10 DEF Requests
    <3>3. {u.ws, u.sse, u.active, u.jq, u.ie} \subseteq Slots \cup {None}
      BY <2>4, <2>10, NewConnTypes DEF Fit, Handles
    <3> QED
      BY <2>4, <2>10, <3>1, <3>2, <3>3 DEF Fit, Handles
  <2>12. Pending(u)
    <3>1. ASSUME NEW x \in v.timers, x.kind = "reopenWs" PROVE FALSE
      <4>1. x \in t.timers
        BY <2>1, <3>1 DEF Waits, Opening
      <4>2. Forgets /\ opt.webSocket
        BY <3>1, <4>1 DEF Clear, Fit, Pending, TimerFits
      <4> QED
        BY <4>2, OptionTypes DEF Forgets, Fit
    <3> QED
      BY <2>4, <2>10, <3>1 DEF Fit, Pending, TimerFits, Requests
  <2>13. Opens(v, u) /\ (Named(v) => Named(u)) /\ Waits(u) = Waits(v)
         /\ Conns(u) \subseteq Conns(v) \cup {NewConn(v)}
    BY <2>4, <2>8, <2>10, <2>11, <2>12, LinkedKeeps
  <2>14. Kept(t, u)
    BY <2>1, <2>13 DEF Opens, Kept
  <2>15. Quiet(t) => One(u)
    BY <2>1, <2>13 DEF Opens, Quiet
  <2>16. Quiet(t) => Alone(u)
    <3>1. Quiet(t) => Conns(u) \subseteq {u.active}
      BY <2>1, <2>10, <2>13 DEF Quiet
    <3>2. None \notin Conns(u)
      BY OptionTypes DEF Conns, Fit
    <3>3. u.active # None => u.conns[u.active].kind = "xhr"
      BY <2>8, <2>10
    <3>4. Quiet(t) => Conns(u) = {} \/ (Conns(u) \subseteq {u.active} /\ u.active # None)
      BY <3>1, <3>2
    <3> QED
      BY <2>10, <3>3, <3>4 DEF Alone
  <2>17. Xhr(t) = u
    BY <2>2 DEF u
  <2> QED
    BY <2>1, <2>13, <2>14, <2>15, <2>16, <2>17 DEF Opens
<1> QED
  BY <1>2, <1>3

LEMMA AjaxTransport ==
  ASSUME NEW t, Fit(t)
  PROVE  (t.transport \in Ajax) <=> (opt.transport \in Ajax)
<1>1. opt.transport \in Ajax => t.transport = opt.transport
  BY DEF Fit, Order, Sockets, Ajax
<1>2. t.transport \in {opt.transport, opt.fallback, "sse", "none"}
  BY DEF Fit, Order
<1>3. opt.fallback \notin Ajax
  BY OptionTypes DEF Fit, Ajax
<1> QED
  BY <1>1, <1>2, <1>3 DEF Ajax

\* A request is sent: jQuery.ajax() sets no timer.
Sends(t, u) ==
  /\ Opens(t, u)
  /\ Quiet(t) => WaitsNamed(u)
  /\ Quiet(t) /\ opt.browser # "ieXDR" /\ opt.transport \notin Ajax => Alone(u)

LEMMA ExecuteRequestKeeps ==
  ASSUME NEW t, Fit(t), Clear(t), Requests(t)
  PROVE  LET u == ExecuteRequest(t) IN
         /\ Sends(t, u)
         /\ opt.transport \in Ajax => Clear(u) /\ u.active = t.active
<1> DEFINE v == [t EXCEPT !.ready = 0]
           u == ExecuteRequest(t)
<1>1. /\ Sub(v) /\ Links(t, v) /\ v.timers = t.timers /\ v.id = t.id /\ v.ready = 0
      /\ v.transport = t.transport /\ v.fallback = t.fallback /\ v.rtransport = t.rtransport
      /\ v.abording = t.abording /\ v.cut = t.cut /\ v.errorHandled = t.errorHandled
  BY DEF Fit, Sub, Fields, Links
<1>3. /\ t.transport \in Ajax => u = Jquery(v)
      /\ t.transport \notin Ajax =>
           \/ opt.browser = "ie" /\ u = IeStreaming(v)
           \/ opt.browser = "ieXDR" /\ u = IeXDR(v)
           \/ opt.browser # "ieXDR" /\ u = Xhr(v)
  BY DEF ExecuteRequest, Ajax
<1> HIDE DEF v, u
<1>4. /\ Less(t, v) /\ Clear(v) /\ Conns(v) = Conns(t) /\ Waits(v) = Waits(t)
  BY <1>1, AlikeKeeps
<1>5. Fit(v) /\ Requests(v) /\ v.active = t.active
  BY <1>1, <1>4 DEF Less, Kept, Links
<1>6. Quiet(t) => Quiet(v)
  BY <1>4, LessOne
<1>7. ASSUME Opens(v, u), Waits(u) \subseteq Waits(v)
      PROVE  Opens(t, u) /\ (Quiet(t) => WaitsNamed(u))
  BY <1>4, <1>6, <1>7 DEF Opens, Less, Kept, Quiet, WaitsNamed
<1>8. CASE opt.transport \in Ajax
  <2>1. /\ Opens(v, u) /\ Clear(u) /\ Waits(u) = Waits(v) /\ u.active = t.active
    BY <1>3, <1>4, <1>5, <1>8, JqueryKeeps, AjaxTransport
  <2> QED
    BY <1>7, <1>8, <2>1 DEF Sends, u
<1>9. CASE opt.transport \notin Ajax
  <2>1. CASE opt.browser = "ie" /\ u = IeStreaming(v)
    <3>1. Opens(v, u) /\ Waits(u) = Waits(v) /\ Conns(u) \subseteq Conns(v) \cup {u.ie}
      BY <1>5, <1>9, <2>1, IeStreamingKeeps
    <3>2. Quiet(t) => Alone(u)
      BY <1>6, <2>1, <3>1 DEF Alone, Quiet
    <3> QED
      BY <1>7, <1>9, <3>1, <3>2 DEF Sends, u
  <2>2. CASE opt.browser = "ieXDR" /\ u = IeXDR(v)
    <3>1. Opens(v, u) /\ Waits(u) = Waits(v)
      BY <1>5, <1>9, <2>2, IeXDRKeeps
    <3> QED
      BY <1>7, <1>9, <2>2, <3>1 DEF Sends, u
  <2>3. CASE opt.browser # "ieXDR" /\ u = Xhr(v)
    <3>1. Opens(v, u) /\ Waits(u) \subseteq Waits(v) /\ (Quiet(v) => Alone(u))
      BY <1>1, <1>4, <1>5, <1>9, <2>3, XhrKeeps
    <3> QED
      BY <1>6, <1>7, <1>9, <3>1 DEF Sends, u
  <2> QED
    BY <1>3, <1>9, <2>1, <2>2, <2>3, AjaxTransport
<1> QED
  BY <1>8, <1>9

LEMMA ReconnectKeeps ==
  ASSUME NEW t, Fit(t), Named(t), Requests(t), NEW delayed
  PROVE  LET u == Reconnect(t, delayed) IN
         /\ Sends(t, u) /\ Named(u)
         /\ opt.transport \in Ajax /\ ~delayed => Clear(u) /\ u.active = t.active
<1> DEFINE v == ClearTimer(t)
           w == SetTimer(v, "reconnect", None)
           x == ExecuteRequest(v)
           u == Reconnect(t, delayed)
<1>1. Still(t, v) /\ Clear(v)
  BY ClearTimerKeeps
<1>2. Fit(v) /\ Requests(v) /\ v.active = t.active
  BY <1>1 DEF Still, Kept, Links
<1>3. u = IF delayed THEN w ELSE x
  BY DEF Reconnect, Later
<1> HIDE DEF v, u
<1>4. Quiet(t) => Quiet(v)
  BY <1>1, StillOne
<1>5. ASSUME NEW y, Sends(v, y)
      PROVE  Sends(t, y) /\ Named(y)
  BY <1>1, <1>4, <1>5 DEF Sends, Opens, Still, Kept
<1>6. \A n : TimerFits(v, [n |-> n, kind |-> "reconnect", c |-> None])
  BY <1>2 DEF TimerFits, Opening
<1>7. /\ Kept(v, w) /\ Conns(w) = Conns(v)
      /\ Clear(v) => Named(w)
      /\ Quiet(v) => One(w)
      /\ Waits(v) = {} => WaitsNamed(w)
  BY <1>2, <1>6, SetTimerKeeps
<1>8. Sends(v, x) /\ (opt.transport \in Ajax => Clear(x) /\ x.active = v.active)
  BY <1>1, <1>2, ExecuteRequestKeeps
<1> HIDE DEF w, x
<1>9. Sends(v, w)
  BY <1>7 DEF Sends, Opens, Quiet, Alone
<1>10. Sends(v, u)
  BY <1>3, <1>8, <1>9
<1> QED
  BY <1>2, <1>3, <1>5, <1>8, <1>10 DEF u

LEMMA ReconnectFKeeps ==
  ASSUME NEW t, Fit(t), Named(t), Requests(t)
  PROVE  LET u == ReconnectF(t) IN Sends(t, u) /\ Named(u)
<1> DEFINE v == [t EXCEPT !.count = @ + 1]
           w == Open(v, "re_connecting")
           x == Reconnect(w, opt.reconnectInterval)
           y == ErrorQuiet(t)
<1>1. Same(t, v)
  BY DEF Same, Modes, Links, Fit, Sub, Fields
<1>2. Same(t, w)
  BY <1>1, OpenSame
<1>3. ReconnectF(t) \in {x, y}
  BY DEF ReconnectF
<1> HIDE DEF v, w
<1>4. Less(t, w)
  BY <1>2, SameLess
<1>5. Fit(w) /\ Named(w) /\ Requests(w)
  BY <1>4 DEF Less, Kept
<1>6. Sends(w, x) /\ Named(x)
  BY <1>5, ReconnectKeeps
<1> HIDE DEF x
<1>7. Quiet(t) => Quiet(w)
  BY <1>4, LessOne
<1>8. Sends(t, x)
  BY <1>4, <1>6, <1>7 DEF Sends, Opens, Less, Kept
<1>9. Less(t, y) /\ Clear(y)
  BY ErrorQuietKeeps
<1> HIDE DEF y
<1>10. (Quiet(t) => Quiet(y)) /\ Named(y)
  BY <1>9, LessOne DEF Less
<1>11. Sends(t, y)
  BY <1>9, <1>10 DEF Sends, Opens, Less, Quiet, One, WaitsNamed, Alone
<1> QED
  BY <1>3, <1>6, <1>8, <1>10, <1>11

LEMMA LessSends ==
  ASSUME NEW t, NEW u, NEW v, Less(t, u), Sends(u, v), Named(v)
  PROVE  Sends(t, v)
<1>1. Quiet(t) => Quiet(u)
  BY LessOne
<1> QED
  BY <1>1 DEF Sends, Opens, Less, Kept

-----------------------------------------------------------------------------
(* Aborting and closing.                                                     *)

\* What leaves one connection or timer to open one if there was one, and none if
\* there was none: closing a request may send another one.
Keeps(t, u) ==
  /\ Kept(t, u) /\ Named(u)
  /\ Quiet(t) => Quiet(u)
  /\ One(t) => One(u)

LEMMA LessKeeps ==
  ASSUME NEW t, NEW u, Less(t, u), Named(t)
  PROVE  Keeps(t, u)
BY LessOne DEF Keeps, Less

LEMMA KeepsKeeps ==
  ASSUME NEW t, NEW u, NEW v, Keeps(t, u), Keeps(u, v)
  PROVE  Keeps(t, v)
BY DEF Keeps, Kept

LEMMA AbortedStateKeeps ==
  ASSUME NEW t, Fit(t), Named(t), Requests(t)
  PROVE  LET u == AbortedState(t) IN
         /\ t.abording => u = t
         /\ ~t.abording => Sends(t, u)
         /\ Kept(t, u) /\ Named(u)
         /\ ~t.abording /\ t.ready = 0 => u.errorHandled
<1>1. CASE t.abording
  BY <1>1 DEF AbortedState, Kept
<1>2. CASE ~t.abording
  <2> DEFINE v == [t EXCEPT !.error = FALSE]
             w == SetTimeout(v)
             x == [w EXCEPT !.ready = 4, !.errorHandled = TRUE]
             u == AbortedState(t)
  <2>1. Same(t, v)
    BY DEF Same, Modes, Links, Fit, Sub, Fields
  <2>2. /\ u \in {ReconnectF(ClearQuiet(v)), ReconnectF(ClearQuiet(x))}
        /\ t.ready = 0 => u = ReconnectF(ClearQuiet(x))
    BY <1>2 DEF AbortedState
  <2> HIDE DEF v, u
  <2>3. Less(t, v)
    BY <2>1, SameLess
  <2>4. Fit(v)
    BY <2>3 DEF Less, Kept
  <2>5. Less(v, w)
    BY <2>4, SetTimeoutKeeps, StillLess
  <2> HIDE DEF w
  <2>6. Fit(w)
    BY <2>5 DEF Less, Kept
  <2>7. /\ Sub(x) /\ Links(w, x) /\ x.timers = w.timers /\ x.id = w.id /\ x.errorHandled
        /\ x.transport = w.transport /\ x.fallback = w.fallback /\ x.rtransport = w.rtransport
        /\ x.abording = w.abording /\ x.cut = w.cut
    BY <2>6 DEF Fit, Sub, Fields, Links
  <2> HIDE DEF x
  <2>8. Less(t, x)
    <3>1. Less(w, x)
      BY <2>6, <2>7, AlikeKeeps
    <3> QED
      BY <2>3, <2>5, <3>1, LessLess
  <2>9. ASSUME NEW y, Less(t, y)
        PROVE  LET z == ReconnectF(ClearQuiet(y)) IN
               Sends(t, z) /\ Named(z) /\ (y.errorHandled => z.errorHandled)
    <3> DEFINE q == ClearQuiet(y)
               z == ReconnectF(q)
    <3>1. Fit(y) /\ Requests(y) /\ Named(y)
      BY <2>9 DEF Less, Kept
    <3>2. Less(y, q)
      BY <3>1, ClearQuietKeeps
    <3> HIDE DEF q
    <3>3. Less(t, q)
      BY <2>9, <3>2, LessLess
    <3>4. Fit(q) /\ Requests(q) /\ Named(q) /\ (y.errorHandled => q.errorHandled)
      BY <3>1, <3>2 DEF Less, Kept
    <3>5. Sends(q, z) /\ Named(z)
      BY <3>4, ReconnectFKeeps
    <3> HIDE DEF z
    <3>6. Sends(t, z)
      BY <3>3, <3>5, LessSends
    <3>7. y.errorHandled => z.errorHandled
      BY <3>4, <3>5 DEF Sends, Opens, Kept
    <3> QED
      BY <3>5, <3>6, <3>7 DEF z, q
  <2>10. Sends(t, u) /\ Named(u)
    BY <2>2, <2>3, <2>8, <2>9
  <2>11. t.ready = 0 => u.errorHandled
    BY <2>2, <2>7, <2>8, <2>9
  <2> QED
    BY <1>2, <2>10, <2>11 DEF Sends, Opens, u
<1> QED
  BY <1>1, <1>2

\* A connection that is under way is one of those that are counted.
LEMMA UnderWay ==
  ASSUME NEW t, Fit(t), NEW c \in Slots, t.conns[c].kind \notin {"none", "push", "ws"}
  PROVE  c \in Conns(t)
BY DEF Fit, Kinds, Conns

LEMMA EndedQuiet ==
  ASSUME NEW t, Fit(t), NEW c \in Conns(t)
  PROVE  LET u == Ended(t, c) IN
         /\ Less(t, u) /\ (Clear(t) => Clear(u))
         /\ One(t) => Quiet(u)
<1> DEFINE u == Ended(t, c)
<1>1. c \in Slots
  BY DEF Conns
<1>2. /\ Kept(t, u) /\ u.timers = t.timers /\ u.id = t.id
      /\ Conns(u) = Conns(t) \ {c}
  BY <1>1, EndedKeeps
<1> HIDE DEF u
<1>3. Waits(u) = Waits(t) /\ (Named(t) => Named(u)) /\ (Clear(t) => Clear(u))
  BY <1>2 DEF Waits, Named, Clear
<1>4. One(t) => Quiet(u)
  BY <1>2, <1>3 DEF One, Quiet
<1> QED
  BY <1>2, <1>3, <1>4 DEF Less, u

\* A request that is sent when there is nothing else.
LEMMA SendsKeeps ==
  ASSUME NEW t, NEW u, NEW v, Less(t, u), One(t) => Quiet(u), ~Quiet(t), Sends(u, v), Named(v)
  PROVE  Keeps(t, v)
BY DEF Keeps, Less, Kept, Sends, Opens

LEMMA AbortActiveKeeps ==
  ASSUME NEW t, Fit(t), Named(t)
  PROVE  LET u == AbortActive(t) IN
         /\ Keeps(t, u)
         /\ t.active = None => u = t
         /\ (t.active # None /\ t.conns[t.active].kind = "xhr" /\ t.ready = 0 /\ ~t.abording)
              => u.errorHandled
<1> DEFINE c == t.active
           u == AbortActive(t)
<1>1. CASE c = None \/ t.conns[c].kind # "xhr"
  <2>1. u = t
    BY <1>1 DEF AbortActive
  <2>2. Keeps(t, t)
    BY LessItself, LessKeeps
  <2> QED
    BY <1>1, <2>1, <2>2
<1>2. CASE c # None /\ t.conns[c].kind = "xhr"
  <2> DEFINE v == Ended(t, c)
             w == AbortedState(v)
             x == InvokeClose(w)
  <2>1. u = [x EXCEPT !.active = None]
    BY <1>2 DEF AbortActive
  <2>2. c \in Slots /\ Requests(t)
    BY <1>2 DEF Fit, Handles
  <2>3. c \in Conns(t)
    BY <1>2, <2>2, UnderWay
  <2>4. Less(t, v) /\ (One(t) => Quiet(v))
    BY <2>3, EndedQuiet
  <2>5. v.abording = t.abording /\ v.ready = t.ready
    BY <2>2, EndedKeeps DEF Modes
  <2> HIDE DEF v
  <2>6. Fit(v) /\ Named(v) /\ Requests(v)
    BY <2>2, <2>4 DEF Less, Kept
  <2>7. /\ v.abording => w = v
        /\ ~v.abording => Sends(v, w)
        /\ Kept(v, w) /\ Named(w)
        /\ ~v.abording /\ v.ready = 0 => w.errorHandled
    BY <2>6, AbortedStateKeeps
  <2> HIDE DEF w
  <2>8. Keeps(t, w)
    <3>1. CASE v.abording
      BY <2>4, <2>7, <3>1, LessKeeps
    <3>2. CASE ~v.abording
      BY <2>3, <2>4, <2>7, <3>2, SendsKeeps DEF Quiet
    <3> QED
      BY <3>1, <3>2
  <2>9. Fit(w)
    BY <2>7 DEF Kept
  <2>10. Same(w, x)
    BY <2>9, SameItself, InvokeCloseSame DEF Fit
  <2>11. Less(w, x) /\ x.errorHandled = w.errorHandled
    BY <2>9, <2>10, SameLess DEF Same, Modes
  <2> HIDE DEF x, u
  <2>12. Fit(x)
    BY <2>11 DEF Less, Kept
  <2>13. /\ Sub(u) /\ u.active = None
         /\ u.ws = x.ws /\ u.sse = x.sse /\ u.jq = x.jq /\ u.ie = x.ie
         /\ u.conns = x.conns /\ u.timers = x.timers /\ u.id = x.id
         /\ u.transport = x.transport /\ u.fallback = x.fallback /\ u.abording = x.abording
         /\ u.cut = x.cut /\ u.errorHandled = x.errorHandled
    BY <2>1, <2>12 DEF Fit, Sub, Fields
  <2>14. Handles(u) /\ Pending(u)
    BY <2>12, <2>13 DEF Fit, Handles, Pending, TimerFits, Requests
  <2>15. Less(x, u)
    BY <2>12, <2>13, <2>14, RelinkKeeps
  <2>16. Keeps(t, u)
    <3>1. Less(w, u)
      BY <2>11, <2>15, LessLess
    <3>2. Keeps(w, u)
      BY <2>7, <3>1, LessKeeps
    <3> QED
      BY <2>8, <3>2, KeepsKeeps
  <2> QED
    BY <1>2, <2>5, <2>7, <2>11, <2>13, <2>16 DEF u
<1> QED
  BY <1>1, <1>2

LEMMA AbortJqueryKeeps ==
  ASSUME NEW t, Fit(t), Named(t)
  PROVE  LET u == AbortJquery(t) IN
         /\ Keeps(t, u)
         /\ u.active = t.active
         /\ Clear(t) => Clear(u)
         /\ opt.transport \notin Ajax => u = t
<1> DEFINE c == t.jq
           u == AbortJquery(t)
<1>1. CASE c = None \/ t.conns[c].kind # "jquery"
  <2>1. u = t
    BY <1>1 DEF AbortJquery
  <2>2. Keeps(t, t)
    BY LessItself, LessKeeps
  <2> QED
    BY <1>1, <2>1, <2>2
<1>2. CASE c # None /\ t.conns[c].kind = "jquery"
  <2> DEFINE v == Ended(t, c)
             w == [v EXCEPT !.error = TRUE]
             x == Reconnect(w, FALSE)
  <2>1. u = [x EXCEPT !.jq = None]
    BY <1>2 DEF AbortJquery
  <2>2. c \in Slots /\ opt.transport \in Ajax
    BY <1>2 DEF Fit, Handles
  <2>3. c \in Conns(t)
    BY <1>2, <2>2, UnderWay
  <2>4. Less(t, v) /\ (One(t) => Quiet(v))
    BY <2>3, EndedQuiet
  <2>5. v.active = t.active
    BY <2>2, EndedKeeps
  <2> HIDE DEF v
  <2>6. Fit(v)
    BY <2>4 DEF Less, Kept
  <2>7. Same(v, w)
    BY <2>6 DEF Same, Modes, Links, Fit, Sub, Fields
  <2> HIDE DEF w
  <2>8. Less(v, w) /\ w.active = t.active
    BY <2>5, <2>6, <2>7, SameLess DEF Same, Links
  <2>9. Less(t, w) /\ (One(t) => Quiet(w))
    BY <2>4, <2>8, LessLess, LessOne
  <2>10. Fit(w) /\ Named(w)
    BY <2>9 DEF Less, Kept
  <2>11. Requests(w)
    BY <2>2, <2>10 DEF Fit, Order, Requests, Sockets, Ajax
  <2>12. Sends(w, x) /\ Named(x) /\ Clear(x) /\ x.active = w.active
    BY <2>2, <2>10, <2>11, ReconnectKeeps
  <2> HIDE DEF x, u
  <2>13. Keeps(t, x)
    BY <2>3, <2>9, <2>12, SendsKeeps DEF Quiet
  <2>14. Fit(x)
    BY <2>13 DEF Keeps, Kept
  <2>15. /\ Sub(u) /\ u.jq = None
         /\ u.ws = x.ws /\ u.sse = x.sse /\ u.active = x.active /\ u.ie = x.ie
         /\ u.conns = x.conns /\ u.timers = x.timers /\ u.id = x.id
         /\ u.transport = x.transport /\ u.fallback = x.fallback /\ u.abording = x.abording
         /\ u.rtransport = x.rtransport
         /\ u.cut = x.cut /\ u.errorHandled = x.errorHandled
    BY <2>1, <2>14 DEF Fit, Sub, Fields
  <2>16. Handles(u) /\ Pending(u)
    BY <2>14, <2>15 DEF Fit, Handles, Pending, TimerFits, Requests
  <2>17. Less(x, u) /\ (Clear(x) => Clear(u))
    BY <2>14, <2>15, <2>16, RelinkKeeps
  <2>18. Keeps(t, u)
    BY <2>12, <2>13, <2>17, LessKeeps, KeepsKeeps
  <2> QED
    BY <2>2, <2>8, <2>12, <2>15, <2>17, <2>18 DEF u
<1> QED
  BY <1>1, <1>2

LEMMA CloseIeKeeps ==
  ASSUME NEW t, Fit(t)
  PROVE  LET u == CloseIe(t) IN
         /\ Less(t, u) /\ (Clear(t) => Clear(u)) /\ Modes(t, u) /\ u.active = t.active
         /\ opt.browser = "ie" => Conns(u) = Conns(t) \ {t.ie}
         /\ \A c \in Slots : u.conns[c] = t.conns[c] \/ c \notin Conns(u)
<1> DEFINE u == CloseIe(t)
<1>1. CASE ~(t.ie # None /\ opt.browser = "ie")
  <2>1. u = t
    BY <1>1 DEF CloseIe
  <2>2. opt.browser = "ie" => t.ie \notin Conns(t)
    BY <1>1, OptionTypes DEF Conns, Fit
  <2> QED
    BY <2>1, <2>2, LessItself DEF Modes
<1>2. CASE t.ie # None /\ opt.browser = "ie"
  <2> DEFINE v == Ended(t, t.ie)
  <2>1. u = InvokeClose(v)
    BY <1>2 DEF CloseIe
  <2>2. t.ie \in Slots
    BY <1>2 DEF Fit, Handles
  <2>3. /\ Kept(t, v) /\ Modes(t, v) /\ v.timers = t.timers /\ v.id = t.id
        /\ v.active = t.active
        /\ Conns(v) = Conns(t) \ {t.ie}
        /\ v.conns = [t.conns EXCEPT ![t.ie] = Idle]
    BY <2>2, EndedKeeps
  <2> HIDE DEF v, u
  <2>4. Fit(v)
    BY <2>3 DEF Kept
  <2>5. Same(v, u)
    BY <2>1, <2>4, SameItself, InvokeCloseSame DEF Fit
  <2>6. Less(v, u) /\ (Clear(v) => Clear(u)) /\ Conns(u) = Conns(v)
    BY <2>4, <2>5, SameLess, SameStill DEF Still
  <2>7. Less(t, v) /\ (Clear(t) => Clear(v))
    BY <2>3 DEF Less, Named, Clear, Waits
  <2>8. Less(t, u) /\ (Clear(t) => Clear(u))
    BY <2>6, <2>7, LessLess
  <2>9. Modes(t, u) /\ u.active = t.active /\ u.conns = v.conns
    BY <2>3, <2>5 DEF Same, Modes, Links
  <2>10. \A c \in Slots : u.conns[c] = t.conns[c] \/ c \notin Conns(u)
    BY <2>3, <2>6, <2>9 DEF Fit, Table
  <2> QED
    BY <2>3, <2>6, <2>8, <2>9, <2>10 DEF u
<1> QED
  BY <1>1, <1>2

\* The timer is cleared first.  A request that was to be sent, or that has just
\* been sent, does not outlive it, or its error has been handled.
LEMMA ClearStateKeeps ==
  ASSUME NEW t, Fit(t), Named(t)
  PROVE  LET u == ClearState(t) IN
         /\ Keeps(t, u) /\ Dropped(u)
         /\ One(ClearTimer(t)) => One(u)
         /\ t.active = None => Clear(u)
         /\ Alone(t) /\ WaitsNamed(t) /\ ~t.abording /\ opt.transport \notin Ajax
              => Quiet(u) \/ u.errorHandled
<1> DEFINE v == ClearTimer(t)
           w == CloseIe(v)
           x == AbortJquery(w)
           y == AbortActive(x)
           u == DropHandles(y)
<1>1. /\ Still(t, v) /\ Clear(v)
      /\ \A q \in Waits(v) : q.n # t.id
  BY ClearTimerKeeps
<1>2. ClearState(t) = u
  BY DEF ClearState
<1> HIDE DEF v
<1>3. Less(t, v) /\ Modes(t, v) /\ Links(t, v) /\ Conns(v) = Conns(t) /\ Waits(v) \subseteq Waits(t)
  BY <1>1, StillLess DEF Still
<1>4. Fit(v) /\ Named(v)
  BY <1>3 DEF Less, Kept
<1>5. /\ Less(v, w) /\ Clear(w) /\ Modes(v, w) /\ w.active = v.active
      /\ opt.browser = "ie" => Conns(w) = Conns(v) \ {v.ie}
      /\ \A c \in Slots : w.conns[c] = v.conns[c] \/ c \notin Conns(w)
  BY <1>1, <1>4, CloseIeKeeps
<1> HIDE DEF w
<1>6. Fit(w) /\ Named(w)
  BY <1>4, <1>5 DEF Less, Kept
<1>7. /\ Keeps(w, x) /\ x.active = w.active /\ Clear(x)
      /\ opt.transport \notin Ajax => x = w
  BY <1>5, <1>6, AbortJqueryKeeps
<1> HIDE DEF x
<1>8. Fit(x) /\ Named(x)
  BY <1>7 DEF Keeps, Kept
<1>9. /\ Keeps(x, y)
      /\ x.active = None => y = x
      /\ (x.active # None /\ x.conns[x.active].kind = "xhr" /\ x.ready = 0 /\ ~x.abording)
           => y.errorHandled
  BY <1>8, AbortActiveKeeps
<1> HIDE DEF y
<1>10. Fit(y) /\ Named(y)
  BY <1>9 DEF Keeps, Kept
<1>11. /\ Kept(y, u) /\ Modes(y, u) /\ u.timers = y.timers /\ u.id = y.id
       /\ Dropped(u) /\ Conns(u) \subseteq Conns(y)
  BY <1>10, DropHandlesKeeps
<1> HIDE DEF u
<1>12. Less(y, u) /\ (Clear(y) => Clear(u)) /\ u.errorHandled = y.errorHandled
  BY <1>11 DEF Less, Named, Clear, Waits, Modes
<1>13. Keeps(v, u)
  <2>1. Keeps(v, w) /\ Keeps(y, u)
    BY <1>4, <1>5, <1>10, <1>12, LessKeeps
  <2> QED
    BY <1>7, <1>9, <2>1, KeepsKeeps
<1>14. Keeps(t, u)
  BY <1>3, <1>13, LessKeeps, KeepsKeeps
<1>15. t.active = None => Clear(u)
  BY <1>3, <1>5, <1>7, <1>9, <1>12 DEF Links
<1>16. ASSUME Alone(t), WaitsNamed(t), ~t.abording, opt.transport \notin Ajax
       PROVE  Quiet(u) \/ u.errorHandled
  <2>1. Waits(v) = {}
    BY <1>1, <1>3, <1>16 DEF WaitsNamed
  <2>2. Waits(w) = {} /\ Conns(w) \subseteq Conns(v)
    BY <1>5, <2>1 DEF Less
  <2>3. ASSUME Conns(w) = {} PROVE Quiet(u)
    <3>1. Quiet(w)
      BY <2>2, <2>3 DEF Quiet
    <3> QED
      BY <1>7, <1>9, <1>12, <3>1, LessOne DEF Keeps
  <2>4. CASE Conns(t) = {}
    BY <1>3, <2>2, <2>3, <2>4
  <2>5. CASE Conns(t) \subseteq {t.ie} /\ opt.browser = "ie"
    BY <1>3, <1>5, <2>3, <2>5 DEF Links
  <2>6. CASE /\ Conns(t) \subseteq {t.active} /\ t.active # None
             /\ t.conns[t.active].kind = "xhr" /\ t.ready = 0
    <3>1. CASE Conns(w) = {}
      BY <2>3, <3>1
    <3>2. CASE Conns(w) # {}
      <4>1. t.active \in Conns(w)
        BY <1>3, <2>2, <2>6, <3>2
      <4>2. t.active \in Slots
        BY <4>1 DEF Conns
      <4>3. w.conns[t.active] = t.conns[t.active]
        BY <1>3, <1>5, <4>1, <4>2 DEF Links
      <4>4. x = w /\ x.active = t.active /\ x.ready = 0 /\ ~x.abording
        BY <1>3, <1>5, <1>7, <1>16, <2>6 DEF Modes, Links
      <4> QED
        BY <1>9, <1>12, <2>6, <4>3, <4>4
    <3> QED
      BY <3>1, <3>2
  <2> QED
    BY <1>16, <2>4, <2>5, <2>6 DEF Alone
<1>17. One(v) => One(u)
  BY <1>13 DEF Keeps
<1> QED
  BY <1>2, <1>11, <1>14, <1>15, <1>16, <1>17 DEF v

LEMMA OnErrorKeeps ==
  ASSUME NEW t, Fit(t), Named(t)
  PROVE  LET u == OnError(t) IN Keeps(t, u) /\ Clear(u) /\ Dropped(u)
<1> DEFINE v == ClearState(t)
           w == ClearTimer(v)
           x == [w EXCEPT !.state = "error"]
           u == InvokeCallback(x)
<1>1. Keeps(t, v) /\ Dropped(v)
  BY ClearStateKeeps
<1>2. u = OnError(t)
  BY DEF OnError
<1> HIDE DEF v
<1>3. Fit(v) /\ Named(v)
  BY <1>1 DEF Keeps, Kept
<1>4. Still(v, w) /\ Clear(w)
  BY <1>3, ClearTimerKeeps
<1> HIDE DEF w
<1>5. Fit(w) /\ Less(v, w)
  BY <1>4, StillLess DEF Still, Kept
<1>6. Same(w, x)
  BY <1>5 DEF Same, Modes, Links, Fit, Sub, Fields
<1> HIDE DEF x
<1>7. Same(w, u)
  BY <1>6, InvokeCallbackSame
<1> HIDE DEF u
<1>8. Less(w, u) /\ Clear(u)
  BY <1>4, <1>5, <1>7, SameLess
<1>9. Keeps(v, u)
  BY <1>3, <1>5, <1>8, LessLess, LessKeeps
<1>10. Keeps(t, u)
  BY <1>1, <1>9, KeepsKeeps
<1>11. Dropped(u)
  BY <1>1, <1>4, <1>7 DEF Dropped, Still, Same, Links
<1> QED
  BY <1>2, <1>8, <1>10, <1>11

-----------------------------------------------------------------------------
(* Transports and their order.                                               *)

\* The browsers that have web sockets or EventSource forget no timer.
LEMMA NoTimers ==
  ASSUME NEW t, Fit(t), Clear(t), opt.webSocket \/ opt.eventSource
  PROVE  t.timers = {}
BY OptionTypes DEF Fit, Clear, Forgets

LEMMA KeepsOpens ==
  ASSUME NEW t, NEW u, Keeps(t, u)
  PROVE  Opens(t, u)
BY DEF Keeps, Opens, Quiet, One

LEMMA LessOpens ==
  ASSUME NEW t, NEW u, NEW v, Less(t, u), Clear(t) => Clear(u), Opens(u, v)
  PROVE  Opens(t, v)
<1>1. Quiet(t) => Quiet(u)
  BY LessOne
<1> QED
  BY <1>1 DEF Less, Kept, Opens

LEMMA OpensLess ==
  ASSUME NEW t, NEW u, NEW v, Opens(t, u), Less(u, v)
  PROVE  Opens(t, v)
<1>1. One(u) => One(v)
  BY LessOne
<1> QED
  BY <1>1 DEF Less, Kept, Opens

LEMMA InUseKeeps ==
  ASSUME NEW t, Fit(t), NEW transport, transport # "websocket" \/ t.active = None
  PROVE  LET u == [t EXCEPT !.rtransport = transport] IN
         /\ Less(t, u) /\ (Clear(t) => Clear(u)) /\ Conns(u) = Conns(t) /\ Waits(u) = Waits(t)
         /\ Links(t, u)
<1> DEFINE u == [t EXCEPT !.rtransport = transport]
<1>1. /\ Sub(u) /\ Links(t, u) /\ u.rtransport = transport
      /\ u.timers = t.timers /\ u.id = t.id
      /\ u.transport = t.transport /\ u.fallback = t.fallback /\ u.abording = t.abording
      /\ u.cut = t.cut /\ u.errorHandled = t.errorHandled
  BY DEF Fit, Sub, Fields, Links
<1> HIDE DEF u
<1>2. Handles(u) /\ Pending(u)
  BY <1>1 DEF Fit, Links, Handles, Pending, TimerFits, Requests
<1>3. u.conns = t.conns
  BY <1>1 DEF Links
<1> QED
  BY <1>1, <1>2, <1>3, RelinkKeeps DEF u

LEMMA ExecuteWebSocketKeeps ==
  ASSUME NEW t, Fit(t), Clear(t), opt.webSocket, opt.transport = "websocket", t.active = None,
         NEW opened
  PROVE  Opens(t, ExecuteWebSocket(t, opened))
<1> DEFINE u == [t EXCEPT !.rtransport = "websocket"]
           w == WithConn(u, "ws", opened)
           v == [w EXCEPT !.ws = NewConn(u)]
           x == SetTimer(v, "connectWs", v.ws)
<1>1. /\ ExecuteWebSocket(t, opened) \in {ClearState(u), u, x, v}
      /\ ~opt.connectTimeout => ExecuteWebSocket(t, opened) \in {ClearState(u), u, v}
  BY DEF ExecuteWebSocket
<1>2. Less(t, u) /\ Clear(u) /\ Links(t, u)
  BY InUseKeeps
<1>3. \E o : w = WithConn(u, "ws", o)
  OBVIOUS
<1> HIDE DEF w, u
<1>4. Fit(u) /\ Named(u)
  BY <1>2 DEF Less, Kept, Clear, Named
<1>5. Opens(t, u)
  BY <1>2, <1>4, LessKeeps, KeepsOpens DEF Clear, Named
<1>6. Opens(t, ClearState(u))
  BY <1>2, <1>4, ClearStateKeeps, KeepsOpens, LessOpens
<1>7. KindFits(u, "ws")
  BY DEF KindFits
<1>8. /\ Kept(u, w) /\ Modes(u, w) /\ w.timers = u.timers /\ w.id = u.id
      /\ w.ws = u.ws /\ w.sse = u.sse /\ w.active = u.active /\ w.jq = u.jq /\ w.ie = u.ie
      /\ Conns(w) \subseteq Conns(u) \cup {NewConn(u)}
      /\ NewConn(u) # None => w.conns[NewConn(u)].kind = "ws"
  BY <1>3, <1>4, <1>7, WithConnKeeps
<1>9. Fit(w)
  BY <1>8 DEF Kept
<1>10. /\ Sub(v) /\ v.ws = NewConn(u) /\ Modes(u, v) /\ v.conns = w.conns
       /\ v.sse = u.sse /\ v.active = u.active /\ v.jq = u.jq /\ v.ie = u.ie
       /\ v.timers = u.timers /\ v.id = u.id
  BY <1>8, <1>9 DEF Fit, Sub, Fields, Modes
<1> HIDE DEF v
<1>11. v.timers = {}
  BY <1>2, <1>4, <1>10, NoTimers
<1>12. Handles(v)
  BY <1>4, <1>8, <1>10, NewConnTypes DEF Fit, Modes, Handles, Requests
<1>13. Pending(v)
  BY <1>11 DEF Pending
<1>14. Opens(u, v) /\ Clear(v) /\ Waits(v) = Waits(u)
  BY <1>2, <1>4, <1>8, <1>10, <1>12, <1>13, LinkedKeeps DEF Modes
<1>15. Opens(t, v)
  BY <1>2, <1>14, LessOpens
<1>16. CASE opt.connectTimeout
  <2>1. Fit(v)
    BY <1>14 DEF Opens, Kept
  <2>2. \A n : TimerFits(v, [n |-> n, kind |-> "connectWs", c |-> v.ws])
    BY <1>16 DEF TimerFits, Opening
  <2>3. "connectWs" \notin Opening
    BY DEF Opening
  <2>4. Kept(v, x) /\ Conns(x) = Conns(v) /\ Named(x) /\ Waits(x) = Waits(v)
    BY <1>14, <2>1, <2>2, <2>3, SetTimerKeeps
  <2> HIDE DEF x
  <2>5. Opens(t, x)
    BY <1>15, <2>4 DEF Opens, Kept, One
  <2> QED
    BY <1>1, <1>5, <1>6, <1>15, <2>5
<1>17. CASE ~opt.connectTimeout
  BY <1>1, <1>5, <1>6, <1>15, <1>17
<1> QED
  BY <1>16, <1>17

LEMMA ExecuteSSEKeeps ==
  ASSUME NEW t, Fit(t), Clear(t), opt.eventSource, Sockets, NEW opened
  PROVE  Opens(t, ExecuteSSE(t, opened))
<1> DEFINE u == [t EXCEPT !.rtransport = "sse"]
           w == WithConn(u, "sse", opened)
           v == [w EXCEPT !.sse = NewConn(u)]
           x == SetTimer(v, "connectSse", v.sse)
<1>1. ExecuteSSE(t, opened) \in {ClearState(u), u, x, v}
  BY DEF ExecuteSSE
<1>2. Less(t, u) /\ Clear(u) /\ Links(t, u)
  BY InUseKeeps
<1>3. \E o : w = WithConn(u, "sse", o)
  OBVIOUS
<1> HIDE DEF w, u
<1>4. Fit(u) /\ Named(u)
  BY <1>2 DEF Less, Kept, Clear, Named
<1>5. Opens(t, u)
  BY <1>2, <1>4, LessKeeps, KeepsOpens DEF Clear, Named
<1>6. Opens(t, ClearState(u))
  BY <1>2, <1>4, ClearStateKeeps, KeepsOpens, LessOpens
<1>7. KindFits(u, "sse")
  BY DEF KindFits
<1>8. /\ Kept(u, w) /\ Modes(u, w) /\ w.timers = u.timers /\ w.id = u.id
      /\ w.ws = u.ws /\ w.sse = u.sse /\ w.active = u.active /\ w.jq = u.jq /\ w.ie = u.ie
      /\ Conns(w) \subseteq Conns(u) \cup {NewConn(u)}
  BY <1>3, <1>4, <1>7, WithConnKeeps
<1>9. Fit(w)
  BY <1>8 DEF Kept
<1>10. /\ Sub(v) /\ v.sse = NewConn(u) /\ Modes(w, v) /\ v.conns = w.conns
       /\ v.ws = w.ws /\ v.active = w.active /\ v.jq = w.jq /\ v.ie = w.ie
       /\ v.timers = w.timers /\ v.id = w.id
  BY <1>9 DEF Fit, Sub, Fields, Modes
<1> HIDE DEF v
<1>11. Handles(v)
  BY <1>4, <1>9, <1>10, NewConnTypes DEF Fit, Modes, Handles, Requests
<1>12. Pending(v)
  BY <1>9, <1>10 DEF Fit, Modes, Pending, TimerFits, Requests
<1>13. /\ v.transport = u.transport /\ v.fallback = u.fallback /\ v.abording = u.abording
       /\ v.cut = u.cut /\ v.errorHandled = u.errorHandled
       /\ v.timers = u.timers /\ v.id = u.id
  BY <1>8, <1>10 DEF Modes
<1>14. Opens(u, v) /\ Clear(v) /\ Waits(v) = Waits(u)
  BY <1>2, <1>4, <1>8, <1>10, <1>11, <1>12, <1>13, LinkedKeeps
<1>15. Opens(t, v)
  BY <1>2, <1>14, LessOpens
<1>16. Fit(v)
  BY <1>14 DEF Opens, Kept
<1>17. Kept(v, x) /\ Conns(x) = Conns(v) /\ Named(x) /\ Waits(x) = Waits(v)
  BY <1>14, <1>16, WatchKeeps
<1> HIDE DEF x
<1>18. Opens(t, x)
  BY <1>15, <1>17 DEF Opens, Kept, One
<1> QED
  BY <1>1, <1>5, <1>6, <1>15, <1>18

\* The transport the order chooses next.
LEMMA TransportKeeps ==
  ASSUME NEW t, NEW u, Fit(t), Sub(u), Order(u), u.transport # "websocket",
         Links(t, u), u.timers = t.timers, u.id = t.id, u.abording = t.abording,
         t.cut => u.cut, t.errorHandled => u.errorHandled,
         u.rtransport = t.rtransport \/ u.rtransport # "websocket"
  PROVE  Less(t, u) /\ (Clear(t) => Clear(u)) /\ Conns(u) = Conns(t) /\ Waits(u) = Waits(t)
<1>1. Requests(t) => Requests(u)
  BY DEF Requests
<1>2. Kinds(u) /\ Table(u)
  BY <1>1 DEF Fit, Links, Kinds, KindFits, Table
<1>3. Handles(u)
  BY <1>1 DEF Fit, Links, Handles
<1>4. Pending(u)
  BY <1>1 DEF Fit, Links, Pending, TimerFits
<1>5. Kept(t, u)
  BY <1>1, <1>2, <1>3, <1>4 DEF Fit, Kept
<1>6. Conns(u) = Conns(t) /\ Waits(u) = Waits(t)
  BY DEF Links, Conns, Waits
<1>7. (Clear(t) => Clear(u)) /\ (Named(t) => Named(u))
  BY DEF Clear, Named
<1> QED
  BY <1>5, <1>6, <1>7 DEF Less

LEMMA GiveUpKeeps ==
  ASSUME NEW t, Fit(t), Named(t), Sockets, ~opt.eventSource
  PROVE  Keeps(t, GiveUp(t))
<1> DEFINE u == [t EXCEPT !.transport = "none"]
<1>1. GiveUp(t) = OnError(u)
  BY DEF GiveUp, OnTransportFailure
<1>2. /\ Sub(u) /\ Links(t, u) /\ u.transport = "none" /\ u.fallback = t.fallback
      /\ u.rtransport = t.rtransport /\ u.timers = t.timers /\ u.id = t.id
      /\ u.abording = t.abording /\ u.cut = t.cut /\ u.errorHandled = t.errorHandled
  BY DEF Fit, Sub, Fields, Links
<1> HIDE DEF u
<1>3. Order(u)
  BY <1>2 DEF Fit, Order
<1>4. Less(t, u)
  BY <1>2, <1>3, TransportKeeps
<1>5. Fit(u) /\ Named(u)
  BY <1>4 DEF Less, Kept
<1> QED
  BY <1>1, <1>4, <1>5, LessKeeps, OnErrorKeeps, KeepsKeeps

\* The transports the browser has, and those that send requests.
LEMMA ExecuteCases ==
  ASSUME NEW t, Fit(t), Clear(t)
  PROVE  LET u == [t EXCEPT !.firstMessage = TRUE, !.isOpen = FALSE] IN
         /\ Less(t, u) /\ Fit(u) /\ Clear(u) /\ Named(u)
         /\ t.transport = "websocket" /\ opt.webSocket => Opens(t, ExecuteWebSocket(u, FALSE))
         /\ t.transport = "sse" /\ opt.eventSource => Opens(t, ExecuteSSE(u, FALSE))
         /\ t.transport \notin {"websocket", "sse"} => Opens(t, ExecuteRequest(u))
         /\ t.transport \in {"websocket", "sse"} => Sockets
<1> DEFINE u == [t EXCEPT !.firstMessage = TRUE, !.isOpen = FALSE]
<1>1. Same(t, u)
  BY DEF Same, Modes, Links, Fit, Sub, Fields
<1> HIDE DEF u
<1>2. Less(t, u) /\ Clear(u) /\ u.transport = t.transport
  BY <1>1, SameLess DEF Same, Modes
<1>3. Fit(u) /\ Named(u)
  BY <1>2 DEF Less, Kept, Clear, Named
<1>4. t.transport \in {"websocket", "sse"} => Sockets
  BY OptionTypes DEF Fit, Order, Sockets
<1>5. ASSUME t.transport = "websocket", opt.webSocket
      PROVE  Opens(t, ExecuteWebSocket(u, FALSE))
  <2>1. opt.transport = "websocket" /\ u.active = None
    BY <1>2, <1>3, <1>5 DEF Fit, Order, Handles, Requests
  <2> DEFINE v(o) == ExecuteWebSocket(u, o)
  <2>2. \A o : Opens(u, v(o))
    BY <1>2, <1>3, <1>5, <2>1, ExecuteWebSocketKeeps
  <2>3. Opens(u, v(FALSE))
    BY <2>2
  <2> QED
    BY <1>2, <2>3, LessOpens
<1>6. ASSUME t.transport = "sse", opt.eventSource
      PROVE  Opens(t, ExecuteSSE(u, FALSE))
  <2> DEFINE v(o) == ExecuteSSE(u, o)
  <2>1. \A o : Opens(u, v(o))
    BY <1>2, <1>3, <1>4, <1>6, ExecuteSSEKeeps
  <2>2. Opens(u, v(FALSE))
    BY <2>1
  <2> QED
    BY <1>2, <2>2, LessOpens
<1>7. ASSUME t.transport \notin {"websocket", "sse"}
      PROVE  Opens(t, ExecuteRequest(u))
  <2>1. Requests(u)
    BY <1>2, <1>3, <1>7 DEF Fit, Order, Requests
  <2>2. Opens(u, ExecuteRequest(u))
    BY <1>2, <1>3, <2>1, ExecuteRequestKeeps DEF Sends
  <2> QED
    BY <1>2, <2>2, LessOpens
<1> QED
  BY <1>2, <1>3, <1>4, <1>5, <1>6, <1>7 DEF u

\* The fallback waits for as long as a connection may take: the connection that
\* has not opened in that time is still there, and the timer is cleared.
LEMMA FallbackKeeps ==
  ASSUME NEW t, Fit(t), Clear(t), Sockets
  PROVE  LET u == Fallback(t) IN
         /\ Opens(t, u)
         /\ opt.connectTimeout /\ One(t) /\ Waits(t) = {} => One(ClearTimer(u))
<1> DEFINE f == OnTransportFailure(t)
           u == [f EXCEPT !.transport = f.fallback]
           v == [u EXCEPT !.rtransport = f.fallback, !.fallback = "none"]
           Again(w) == ExecuteOr(w, GiveUp)
           x == SetTimer(v, "fallback", None)
<1>1. /\ f.reconnect /\ f.fallback # "none" =>
           Fallback(t) = IF opt.connectTimeout THEN x ELSE Again(v)
      /\ ~(f.reconnect /\ f.fallback # "none") => Fallback(t) = OnError(u)
  BY DEF Fallback, Later
<1>2. /\ Sub(f) /\ Links(t, f) /\ f.transport = t.transport
      /\ f.fallback = IF opt.eventSource THEN "sse" ELSE t.fallback
      /\ f.rtransport = t.rtransport /\ f.timers = t.timers /\ f.id = t.id
      /\ f.abording = t.abording /\ f.cut = t.cut /\ f.errorHandled = t.errorHandled
  BY DEF OnTransportFailure, Fit, Sub, Fields, Links
<1> HIDE DEF f
<1>3. f.fallback \in {opt.fallback, "sse", "none"} /\ (opt.eventSource => f.fallback = "sse")
      /\ f.fallback # "websocket"
  BY <1>2, OptionTypes DEF Fit, Order
<1>4. /\ Sub(u) /\ Links(t, u) /\ u.transport = f.fallback /\ u.fallback = f.fallback
      /\ u.rtransport = t.rtransport /\ u.timers = t.timers /\ u.id = t.id
      /\ u.abording = t.abording /\ u.cut = t.cut /\ u.errorHandled = t.errorHandled
  BY <1>2 DEF Sub, Fields, Links
<1> HIDE DEF u
<1>5. /\ Sub(v) /\ Links(t, v) /\ v.transport = f.fallback /\ v.fallback = "none"
      /\ v.rtransport = f.fallback /\ v.timers = t.timers /\ v.id = t.id
      /\ v.abording = t.abording /\ v.cut = t.cut /\ v.errorHandled = t.errorHandled
  BY <1>4 DEF Sub, Fields, Links
<1> HIDE DEF v
<1>6. Order(u) /\ Order(v)
  BY <1>3, <1>4, <1>5 DEF Order
<1>7. Less(t, u) /\ Clear(u)
  BY <1>3, <1>4, <1>6, TransportKeeps
<1>8. Less(t, v) /\ Clear(v) /\ Conns(v) = Conns(t) /\ Waits(v) = Waits(t)
  BY <1>3, <1>5, <1>6, TransportKeeps
<1>9. Fit(u) /\ Named(u) /\ Fit(v) /\ Named(v)
  BY <1>7, <1>8 DEF Less, Kept, Clear, Named
<1>10. CASE ~(f.reconnect /\ f.fallback # "none")
  <2> DEFINE y == OnError(u)
  <2>1. Keeps(u, y) /\ Clear(y)
    BY <1>9, OnErrorKeeps
  <2>2. Fallback(t) = y
    BY <1>1, <1>10
  <2> HIDE DEF y
  <2>3. Opens(t, y)
    BY <1>7, <2>1, KeepsOpens, LessOpens
  <2>4. One(t) => One(y)
    BY <1>7, <2>1, LessOne DEF Keeps
  <2>5. Fit(y)
    BY <2>1 DEF Keeps, Kept
  <2>6. One(y) => One(ClearTimer(y))
    BY <2>5, ClearTimerKeeps, StillOne
  <2> QED
    BY <2>2, <2>3, <2>4, <2>6
<1>11. CASE f.reconnect /\ f.fallback # "none" /\ opt.connectTimeout
  <2>1. Fallback(t) = x
    BY <1>1, <1>11
  <2>2. \A n : TimerFits(v, [n |-> n, kind |-> "fallback", c |-> None])
    BY DEF TimerFits, Opening
  <2>3. /\ Kept(v, x) /\ Conns(x) = Conns(v)
        /\ Named(x)
        /\ Quiet(v) => One(x)
        /\ Waits(v) = {} => WaitsNamed(x)
    BY <1>8, <1>9, <2>2, SetTimerKeeps
  <2> HIDE DEF x
  <2>4. Opens(t, x)
    BY <1>8, <2>3, LessOpens DEF Opens
  <2>5. Fit(x)
    BY <2>3 DEF Kept
  <2> DEFINE y == ClearTimer(x)
  <2>6. Still(x, y) /\ \A q \in Waits(y) : q.n # x.id
    BY <2>5, ClearTimerKeeps
  <2> HIDE DEF y
  <2>7. Waits(t) = {} => Waits(y) = {}
    BY <1>8, <2>3, <2>6 DEF WaitsNamed, Still
  <2>8. Conns(y) = Conns(t)
    BY <1>8, <2>3, <2>6 DEF Still
  <2>9. One(t) /\ Waits(t) = {} => One(y)
    BY <2>7, <2>8 DEF One
  <2> QED
    BY <2>1, <2>4, <2>9 DEF y
<1>12. CASE f.reconnect /\ f.fallback # "none" /\ ~opt.connectTimeout
  <2> DEFINE y == Again(v)
             z == [v EXCEPT !.firstMessage = TRUE, !.isOpen = FALSE]
  <2>1. Fallback(t) = y
    BY <1>1, <1>12
  <2>2. /\ Less(v, z) /\ Fit(z) /\ Clear(z) /\ Named(z)
        /\ v.transport = "sse" /\ opt.eventSource => Opens(v, ExecuteSSE(z, FALSE))
        /\ v.transport \notin {"websocket", "sse"} => Opens(v, ExecuteRequest(z))
    BY <1>8, <1>9, ExecuteCases
  <2>3. y = IF v.transport = "sse"
            THEN IF opt.eventSource THEN ExecuteSSE(z, FALSE) ELSE GiveUp(z)
            ELSE ExecuteRequest(z)
    BY <1>3, <1>5 DEF ExecuteOr
  <2> HIDE DEF y, z
  <2>4. ~opt.eventSource => Opens(v, GiveUp(z))
    BY <2>2, GiveUpKeeps, KeepsOpens, LessOpens
  <2>5. Opens(v, y)
    BY <1>3, <1>5, <2>2, <2>3, <2>4
  <2>6. Opens(t, y)
    BY <1>8, <2>5, LessOpens
  <2> QED
    BY <1>12, <2>1, <2>6
<1> QED
  BY <1>10, <1>11, <1>12

LEMMA ExecuteKeeps ==
  ASSUME NEW t, Fit(t), Clear(t)
  PROVE  Opens(t, Execute(t))
<1> DEFINE z == [t EXCEPT !.firstMessage = TRUE, !.isOpen = FALSE]
<1>1. /\ Less(t, z) /\ Fit(z) /\ Clear(z) /\ Named(z)
      /\ t.transport = "websocket" /\ opt.webSocket => Opens(t, ExecuteWebSocket(z, FALSE))
      /\ t.transport = "sse" /\ opt.eventSource => Opens(t, ExecuteSSE(z, FALSE))
      /\ t.transport \notin {"websocket", "sse"} => Opens(t, ExecuteRequest(z))
      /\ t.transport \in {"websocket", "sse"} => Sockets
  BY ExecuteCases
<1>2. Execute(t) =
        CASE t.transport = "websocket" ->
               IF opt.webSocket THEN ExecuteWebSocket(z, FALSE) ELSE Fallback(z)
          [] t.transport = "sse" -> IF opt.eventSource THEN ExecuteSSE(z, FALSE) ELSE Fallback(z)
          [] OTHER -> ExecuteRequest(z)
  BY DEF Execute, ExecuteOr
<1> HIDE DEF z
<1>3. Sockets => Opens(t, Fallback(z))
  BY <1>1, FallbackKeeps, LessOpens
<1>4. CASE t.transport = "websocket"
  BY <1>1, <1>2, <1>3, <1>4
<1>5. CASE t.transport = "sse"
  BY <1>1, <1>2, <1>3, <1>5
<1>6. CASE t.transport \notin {"websocket", "sse"}
  <2>1. Execute(t) = ExecuteRequest(z)
    BY <1>2, <1>6
  <2> QED
    BY <1>1, <1>6, <2>1
<1> QED
  BY <1>4, <1>5, <1>6

-----------------------------------------------------------------------------
(* Events of a web socket and of an EventSource.                             *)

\* What comes after the end of a connection.
Follows(t, u) ==
  /\ Kept(t, u) /\ Named(u)
  /\ Quiet(t) => One(u)

LEMMA KeepsFollows ==
  ASSUME NEW t, NEW u, NEW v, Keeps(t, u), Follows(u, v)
  PROVE  Follows(t, v)
BY DEF Keeps, Kept, Follows

LEMMA FollowsLess ==
  ASSUME NEW t, NEW u, NEW v, Follows(t, u), Less(u, v)
  PROVE  Follows(t, v)
BY LessOne DEF Less, Kept, Follows

LEMMA KeepsIsFollows ==
  ASSUME NEW t, NEW u, Keeps(t, u)
  PROVE  Follows(t, u)
BY DEF Keeps, Follows, Quiet, One

LEMMA OpensIsFollows ==
  ASSUME NEW t, NEW u, Opens(t, u), Clear(t)
  PROVE  Follows(t, u)
BY DEF Opens, Follows

LEMMA SendsIsFollows ==
  ASSUME NEW t, NEW u, Sends(t, u), Named(u)
  PROVE  Follows(t, u)
BY DEF Sends, Opens, Follows

\* What the browser changes of a connection object while it is used.
LEMMA TouchKeeps ==
  ASSUME NEW t, NEW u, Fit(t), Sub(u), Modes(t, u), u.timers = t.timers, u.id = t.id,
         u.ws = t.ws, u.sse = t.sse, u.active = t.active, u.jq = t.jq, u.ie = t.ie,
         DOMAIN u.conns = Slots,
         \A d \in Slots : /\ DOMAIN u.conns[d] = {"kind", "st", "opened", "marked", "mute"}
                          /\ u.conns[d].kind = t.conns[d].kind
                          /\ (u.conns[d].st = "closing") = (t.conns[d].st = "closing")
  PROVE  Less(t, u) /\ (Clear(t) => Clear(u))
<1>1. Conns(u) = Conns(t) /\ Waits(u) = Waits(t)
  BY DEF Modes, Conns, Waits
<1>2. Table(u) /\ Kinds(u)
  BY DEF Fit, Modes, Table, Kinds, KindFits, Requests
<1>3. Handles(u)
  <2>1. u.ws # None => u.conns[u.ws].kind \in {"ws", "none"}
    BY DEF Fit, Handles
  <2> QED
    BY <2>1 DEF Fit, Modes, Handles, Requests
<1>4. Pending(u) /\ Order(u)
  BY DEF Fit, Modes, Pending, TimerFits, Requests, Order
<1>5. Kept(t, u)
  BY <1>2, <1>3, <1>4 DEF Fit, Kept, Modes, Requests
<1>6. (Clear(t) => Clear(u)) /\ (Named(t) => Named(u))
  BY DEF Clear, Named
<1> QED
  BY <1>1, <1>5, <1>6 DEF Less

LEMMA TouchOneKeeps ==
  ASSUME NEW t, Fit(t), NEW c \in Slots, NEW new, new.kind = t.conns[c].kind,
         DOMAIN new = {"kind", "st", "opened", "marked", "mute"},
         (new.st = "closing") = (t.conns[c].st = "closing")
  PROVE  LET u == [t EXCEPT !.conns[c] = new] IN
         Less(t, u) /\ (Clear(t) => Clear(u))
<1> DEFINE u == [t EXCEPT !.conns[c] = new]
<1>1. /\ Sub(u) /\ Modes(t, u) /\ u.timers = t.timers /\ u.id = t.id
      /\ u.ws = t.ws /\ u.sse = t.sse /\ u.active = t.active /\ u.jq = t.jq /\ u.ie = t.ie
      /\ u.conns = [t.conns EXCEPT ![c] = new]
  BY DEF Fit, Sub, Fields, Modes
<1> HIDE DEF u
<1>2. /\ DOMAIN u.conns = Slots
      /\ \A d \in Slots : u.conns[d] = IF d = c THEN new ELSE t.conns[d]
  BY <1>1 DEF Fit, Table
<1>3. \A d \in Slots : /\ DOMAIN u.conns[d] = {"kind", "st", "opened", "marked", "mute"}
                       /\ u.conns[d].kind = t.conns[d].kind
                       /\ (u.conns[d].st = "closing") = (t.conns[d].st = "closing")
  BY <1>2 DEF Fit, Table
<1>4. Less(t, u) /\ (Clear(t) => Clear(u))
  BY <1>1, <1>2, <1>3, TouchKeeps
<1> QED
  BY <1>4 DEF u

\* onopen: the connection was connecting, and is open.
LEMMA OpenedKeeps ==
  ASSUME NEW t, Fit(t), NEW c \in Slots, t.conns[c].st = "connecting"
  PROVE  Less(t, [t EXCEPT !.conns[c].opened = TRUE, !.conns[c].st = "open"])
<1> DEFINE new == [t.conns[c] EXCEPT !.opened = TRUE, !.st = "open"]
<1>1. [t EXCEPT !.conns[c].opened = TRUE, !.conns[c].st = "open"] = [t EXCEPT !.conns[c] = new]
  BY DEF Fit, Sub, Fields, Table
<1>2. /\ DOMAIN new = {"kind", "st", "opened", "marked", "mute"}
      /\ new.kind = t.conns[c].kind /\ new.st = "open"
  BY DEF Fit, Table
<1> HIDE DEF new
<1>3. (new.st = "closing") = (t.conns[c].st = "closing")
  BY <1>2
<1> QED
  BY <1>1, <1>2, <1>3, TouchOneKeeps

\* A property that is set on the object, and says nothing of the connection.
LEMMA MarkedKeeps ==
  ASSUME NEW t, Fit(t), NEW c \in Slots
  PROVE  /\ Less(t, [t EXCEPT !.conns[c].marked = TRUE])
         /\ Less(t, [t EXCEPT !.conns[c].mute = TRUE])
<1> DEFINE new == [t.conns[c] EXCEPT !.marked = TRUE]
           quiet == [t.conns[c] EXCEPT !.mute = TRUE]
<1>1. /\ [t EXCEPT !.conns[c].marked = TRUE] = [t EXCEPT !.conns[c] = new]
      /\ [t EXCEPT !.conns[c].mute = TRUE] = [t EXCEPT !.conns[c] = quiet]
  BY DEF Fit, Sub, Fields, Table
<1>2. /\ DOMAIN new = {"kind", "st", "opened", "marked", "mute"}
      /\ new.kind = t.conns[c].kind /\ new.st = t.conns[c].st
      /\ DOMAIN quiet = {"kind", "st", "opened", "marked", "mute"}
      /\ quiet.kind = t.conns[c].kind /\ quiet.st = t.conns[c].st
  BY DEF Fit, Table
<1> HIDE DEF new, quiet
<1> QED
  BY <1>1, <1>2, TouchOneKeeps

\* A request whose headers or data have come.
LEMMA StateKeeps ==
  ASSUME NEW t, Fit(t), NEW c \in Slots, t.conns[c].st # "closing", NEW st, st # "closing"
  PROVE  Less(t, [t EXCEPT !.conns[c].st = st])
<1> DEFINE new == [t.conns[c] EXCEPT !.st = st]
<1>1. [t EXCEPT !.conns[c].st = st] = [t EXCEPT !.conns[c] = new]
  BY DEF Fit, Sub, Fields, Table
<1>2. /\ DOMAIN new = {"kind", "st", "opened", "marked", "mute"}
      /\ new.kind = t.conns[c].kind /\ new.st = st
  BY DEF Fit, Table
<1> HIDE DEF new
<1>3. (new.st = "closing") = (t.conns[c].st = "closing")
  BY <1>2
<1> QED
  BY <1>1, <1>2, <1>3, TouchOneKeeps

LEMMA HeardKeeps ==
  ASSUME NEW t, Fit(t), NEW body
  PROVE  Less(t, Received([SetTimeout(t) EXCEPT !.state = "messageReceived"], body))
<1> DEFINE u == SetTimeout(t)
           v == [u EXCEPT !.state = "messageReceived"]
<1>1. Less(t, u)
  BY SetTimeoutKeeps, StillLess
<1> HIDE DEF u
<1>2. Fit(u)
  BY <1>1 DEF Less, Kept
<1>3. Same(u, v)
  BY <1>2 DEF Same, Modes, Links, Fit, Sub, Fields
<1> HIDE DEF v
<1>4. Less(u, Received(v, body))
  BY <1>2, <1>3, ReceivedSame, SameLess
<1> QED
  BY <1>1, <1>4, LessLess DEF u, v

LEMMA OnOpenKeeps ==
  ASSUME NEW t, Fit(t), NEW c \in Slots, t.conns[c].st = "connecting", NEW state
  PROVE  LET u == SetTimeout(t)
             v == IF opt.protocol THEN u ELSE Open(u, state)
         IN  Less(t, [v EXCEPT !.conns[c].opened = TRUE, !.conns[c].st = "open"])
<1> DEFINE u == SetTimeout(t)
           v == IF opt.protocol THEN u ELSE Open(u, state)
<1>1. Still(t, u)
  BY SetTimeoutKeeps
<1> HIDE DEF u
<1>2. Fit(u)
  BY <1>1 DEF Still, Kept
<1>3. Same(u, v)
  BY <1>2, SameItself, OpenSame DEF Fit
<1> HIDE DEF v
<1>4. Less(u, v) /\ v.conns = t.conns
  BY <1>1, <1>2, <1>3, SameLess DEF Same, Links, Still
<1>5. Less(t, v)
  BY <1>1, <1>4, StillLess, LessLess
<1>6. Fit(v)
  BY <1>4 DEF Less, Kept
<1>7. Less(v, [v EXCEPT !.conns[c].opened = TRUE, !.conns[c].st = "open"])
  BY <1>4, <1>6, OpenedKeeps
<1> QED
  BY <1>5, <1>7, LessLess DEF u, v

LEMMA WsOpenedKeeps ==
  ASSUME NEW t, Fit(t), NEW c \in Slots, t.conns[c].st = "connecting"
  PROVE  Less(t, WsOpened(t, c))
<1> DEFINE state == IF t.conns[c].opened THEN "re_opening" ELSE "opening"
           u == SetTimeout(t)
           v == IF opt.protocol THEN u ELSE Open(u, state)
           w == [v EXCEPT !.conns[c].opened = TRUE, !.conns[c].st = "open"]
<1>1. Less(t, w)
  <2> HIDE DEF state
  <2> QED
    BY OnOpenKeeps
<1>2. WsOpened(t, c) = IF w.ws = None THEN w ELSE [w EXCEPT !.conns[w.ws].marked = TRUE]
  BY DEF WsOpened
<1> HIDE DEF w
<1>3. Fit(w)
  BY <1>1 DEF Less, Kept
<1>4. w.ws = None \/ w.ws \in Slots
  BY <1>3 DEF Fit, Handles
<1> QED
  BY <1>1, <1>2, <1>3, <1>4, MarkedKeeps, LessLess

\* onclose of a web socket: after it nothing is left to open but what it opens or
\* sets a timer for.  connectWs calls it while the connection is still there.
LEMMA WsClosedFollows ==
  ASSUME NEW t, Fit(t), Named(t), opt.webSocket, opt.transport = "websocket", NEW opened
  PROVE  LET u == WsClosed(t, opened) IN
         /\ Follows(t, u)
         /\ t.abording /\ One(t) => One(u)
         /\ opt.connectTimeout /\ ~opened /\ One(t) /\ Waits(t) = {} => One(ClearTimer(u))
<1> DEFINE e == ClearTimer(t)
           i == InvokeClose(e)
           u == [i EXCEPT !.state = "closed"]
           w == ClearState(u)
           v == [w EXCEPT !.count = @ + 1]
           o == Open(v, "re_connecting")
           x == SetTimer(o, "reopenWs", None)
           y == ExecuteWebSocket(o, TRUE)
           z == WsClosed(t, opened)
<1>1. Still(t, e) /\ Clear(e)
  BY ClearTimerKeeps
<1>2. /\ t.state = "closed" => z = t
      /\ t.state # "closed" /\ u.abording => z = u
      /\ t.state # "closed" /\ ~u.abording /\ ~opened => z = Fallback(u)
      /\ t.state # "closed" /\ ~u.abording /\ opened =>
           \/ z = u
           \/ u.reconnect /\ u.rtransport = "websocket" /\ z \in {x, y, OnError(v)}
  BY DEF WsClosed, Later
<1> HIDE DEF e, z
<1>3. Less(t, e) /\ Fit(e)
  BY <1>1, StillLess DEF Less, Kept
<1>4. Same(e, i)
  BY <1>3, SameItself, InvokeCloseSame DEF Fit
<1> HIDE DEF i
<1>5. Same(e, u)
  BY <1>4 DEF Same, Modes, Links, Sub, Fields
<1> HIDE DEF u
<1>6. Less(e, u) /\ Clear(u)
  BY <1>1, <1>3, <1>5, SameLess
<1>7. Less(t, u) /\ Keeps(t, u) /\ Fit(u) /\ Named(u) /\ u.abording = t.abording
  BY <1>3, <1>6, LessLess, LessKeeps DEF Less, Kept
<1>8. Follows(t, t) /\ Follows(t, u)
  BY <1>7, LessItself, LessKeeps, KeepsIsFollows
<1>9. ASSUME One(t) PROVE One(u) /\ One(ClearTimer(u)) /\ One(ClearTimer(t))
  BY <1>7, <1>9, ClearTimerKeeps, StillOne DEF Keeps
<1>10. CASE z \in {t, u}
  BY <1>8, <1>9, <1>10 DEF z
<1>11. CASE t.state # "closed" /\ ~u.abording /\ ~opened /\ z = Fallback(u)
  <2>1. /\ Opens(u, z)
        /\ opt.connectTimeout /\ One(u) /\ Waits(u) = {} => One(ClearTimer(z))
    BY <1>6, <1>7, <1>11, FallbackKeeps DEF Sockets
  <2>2. Follows(t, z)
    BY <1>6, <1>7, <2>1, OpensIsFollows, KeepsFollows
  <2>3. Waits(t) = {} => Waits(u) = {}
    BY <1>7 DEF Less
  <2> QED
    BY <1>7, <1>9, <1>11, <2>1, <2>2, <2>3 DEF z
<1>12. CASE /\ t.state # "closed" /\ ~u.abording /\ opened
            /\ u.rtransport = "websocket" /\ z \in {x, y, OnError(v)}
  <2>1. u.active = None
    BY <1>7, <1>12 DEF Fit, Handles
  <2>2. Keeps(u, w) /\ Clear(w) /\ Dropped(w)
    BY <1>7, <2>1, ClearStateKeeps
  <2> HIDE DEF w
  <2>3. Fit(w)
    BY <2>2 DEF Keeps, Kept
  <2>4. Same(w, v)
    BY <2>3 DEF Same, Modes, Links, Fit, Sub, Fields
  <2> HIDE DEF v
  <2>5. Same(w, o)
    BY <2>4, OpenSame
  <2> HIDE DEF o
  <2>6. /\ Less(w, v) /\ Clear(v) /\ Less(w, o) /\ Clear(o)
        /\ o.active = None
    BY <2>2, <2>3, <2>4, <2>5, SameLess DEF Same, Links, Dropped
  <2>7. Fit(v) /\ Fit(o) /\ Named(v) /\ Named(w)
    BY <2>2, <2>6 DEF Less, Kept, Clear, Named
  <2>8. Follows(w, OnError(v))
    BY <2>6, <2>7, OnErrorKeeps, LessKeeps, KeepsKeeps, KeepsIsFollows
  <2>9. \A n : TimerFits(o, [n |-> n, kind |-> "reopenWs", c |-> None])
    BY <2>6 DEF TimerFits, Opening
  <2>10. Kept(o, x) /\ Named(x) /\ (Quiet(o) => One(x))
    BY <2>6, <2>7, <2>9, SetTimerKeeps
  <2> HIDE DEF x
  <2>11. Keeps(w, o)
    BY <2>6, <2>7, LessKeeps
  <2>12. Follows(w, x)
    BY <2>10, <2>11, KeepsFollows DEF Follows
  <2> DEFINE q(b) == ExecuteWebSocket(o, b)
  <2>13. \A b : Opens(o, q(b))
    BY <2>6, <2>7, ExecuteWebSocketKeeps
  <2>14. Opens(o, q(TRUE)) /\ y = q(TRUE)
    BY <2>13
  <2> HIDE DEF y, q
  <2>15. Follows(w, y)
    BY <2>6, <2>11, <2>14, OpensIsFollows, KeepsFollows
  <2>16. Follows(w, z)
    BY <1>12, <2>8, <2>12, <2>15
  <2>17. Follows(t, z)
    BY <1>7, <2>2, <2>16, KeepsFollows
  <2> QED
    BY <1>7, <1>12, <2>17 DEF z
<1> QED
  BY <1>2, <1>10, <1>11, <1>12

LEMMA SseFailedFollows ==
  ASSUME NEW t, Fit(t), Named(t), opt.eventSource, Sockets, NEW opened
  PROVE  Follows(t, SseFailed(t, opened))
<1> DEFINE e == ClearTimer(t)
           i == InvokeClose(e)
           u == ClearState(i)
           v == [u EXCEPT !.count = @ + 1]
           o == Open(v, "re_connecting")
           x == SetTimer(o, "reopenSse", None)
           y == ExecuteSSE(o, TRUE)
           z == SseFailed(t, opened)
<1>1. z \in {u, Fallback(u), x, y, OnError(v)}
  BY DEF SseFailed, Later
<1>2. Still(t, e) /\ Clear(e)
  BY ClearTimerKeeps
<1> HIDE DEF e, z
<1>3. Less(t, e) /\ Fit(e)
  BY <1>2, StillLess DEF Less, Kept
<1>4. Same(e, i)
  BY <1>3, SameItself, InvokeCloseSame DEF Fit
<1> HIDE DEF i
<1>5. Less(e, i)
  BY <1>3, <1>4, SameLess
<1>6. Keeps(t, i)
  BY <1>3, <1>5, LessLess, LessKeeps
<1>7. Fit(i) /\ Named(i)
  BY <1>6 DEF Keeps, Kept
<1>8. i.active = None
  BY <1>7 DEF Fit, Handles, Requests
<1>9. Keeps(i, u) /\ Clear(u)
  BY <1>7, <1>8, ClearStateKeeps
<1> HIDE DEF u
<1>10. Keeps(t, u) /\ Fit(u) /\ Named(u)
  BY <1>6, <1>9, KeepsKeeps DEF Keeps, Kept
<1>11. Same(u, v)
  BY <1>10 DEF Same, Modes, Links, Fit, Sub, Fields
<1> HIDE DEF v
<1>12. Same(u, o)
  BY <1>11, OpenSame
<1> HIDE DEF o
<1>13. /\ Less(u, v) /\ Less(u, o) /\ Clear(o) /\ Keeps(u, v) /\ Keeps(u, o)
       /\ Fit(v) /\ Fit(o) /\ Named(v)
  BY <1>9, <1>10, <1>11, <1>12, SameLess, LessKeeps DEF Keeps, Kept
<1>14. Follows(u, u)
  BY <1>10, LessItself, LessKeeps, KeepsIsFollows
<1>15. Follows(u, Fallback(u))
  BY <1>9, <1>10, FallbackKeeps, OpensIsFollows
<1>16. Follows(u, OnError(v))
  BY <1>13, OnErrorKeeps, KeepsKeeps, KeepsIsFollows
<1>17. \A n : TimerFits(o, [n |-> n, kind |-> "reopenSse", c |-> None])
  BY DEF TimerFits, Opening
<1>18. Kept(o, x) /\ Named(x) /\ (Quiet(o) => One(x))
  BY <1>13, <1>17, SetTimerKeeps
<1> HIDE DEF x
<1>19. Follows(u, x)
  BY <1>13, <1>18, KeepsFollows DEF Follows
<1> DEFINE q(b) == ExecuteSSE(o, b)
<1>20. \A b : Opens(o, q(b))
  BY <1>13, ExecuteSSEKeeps
<1>21. Opens(o, q(TRUE)) /\ y = q(TRUE)
  BY <1>20
<1> HIDE DEF y, q
<1>22. Follows(u, y)
  BY <1>13, <1>21, OpensIsFollows, KeepsFollows
<1>23. Follows(u, z)
  BY <1>1, <1>14, <1>15, <1>16, <1>19, <1>22
<1>24. Follows(t, z)
  BY <1>10, <1>23, KeepsFollows
<1> QED
  BY <1>24 DEF z

-----------------------------------------------------------------------------
(* Events of an XMLHttpRequest.                                              *)

LEMMA ClearReconnectFollows ==
  ASSUME NEW t, Fit(t), Named(t), Requests(t)
  PROVE  LET u == ReconnectF(ClearState(t)) IN
         /\ Follows(t, u)
         /\ Quiet(t) => WaitsNamed(u)
         /\ Quiet(t) /\ opt.browser # "ieXDR" /\ opt.transport \notin Ajax => Alone(u)
<1> DEFINE v == ClearState(t)
           u == ReconnectF(v)
<1>1. Keeps(t, v)
  BY ClearStateKeeps
<1> HIDE DEF v
<1>2. Fit(v) /\ Named(v) /\ Requests(v)
  BY <1>1 DEF Keeps, Kept
<1>3. Sends(v, u) /\ Named(u)
  BY <1>2, ReconnectFKeeps
<1> HIDE DEF u
<1>4. Follows(t, u)
  BY <1>1, <1>3, SendsIsFollows, KeepsFollows
<1> QED
  BY <1>1, <1>3, <1>4 DEF Keeps, Sends, u, v

LEMMA RefusedFollows ==
  ASSUME NEW t, Fit(t), Named(t), Requests(t)
  PROVE  Follows(t, Refused(t)) /\ Refused(t).errorHandled
<1> DEFINE v == [t EXCEPT !.errorHandled = TRUE]
           u == ReconnectF(ClearState(v))
<1>1. /\ Sub(v) /\ Links(t, v) /\ v.timers = t.timers /\ v.id = t.id /\ v.errorHandled
      /\ v.transport = t.transport /\ v.fallback = t.fallback /\ v.rtransport = t.rtransport
      /\ v.abording = t.abording /\ v.cut = t.cut
  BY DEF Fit, Sub, Fields, Links
<1> HIDE DEF v
<1>2. Less(t, v)
  BY <1>1, AlikeKeeps
<1>3. Fit(v) /\ Named(v) /\ Requests(v)
  BY <1>2 DEF Less, Kept
<1>4. Follows(v, u)
  BY <1>3, ClearReconnectFollows
<1>5. u = Refused(t)
  BY DEF u, v, Refused
<1> HIDE DEF u
<1>6. Follows(t, u)
  BY <1>2, <1>4, LessKeeps, KeepsFollows
<1> QED
  BY <1>1, <1>4, <1>5, <1>6 DEF Follows, Kept

\* A request is sent although another one may be under way.
Cuts(t, u) == Kept(t, u) /\ Named(u) /\ u.cut

\* Activity on the connection.
LEMMA ActiveKeeps ==
  ASSUME NEW t, Fit(t), NEW ready
  PROVE  Less(t, SetTimeout([t EXCEPT !.error = FALSE, !.ready = ready]))
<1> DEFINE v == [t EXCEPT !.error = FALSE, !.ready = ready]
<1>1. /\ Sub(v) /\ Links(t, v) /\ v.timers = t.timers /\ v.id = t.id
      /\ v.transport = t.transport /\ v.fallback = t.fallback /\ v.rtransport = t.rtransport
      /\ v.abording = t.abording /\ v.cut = t.cut /\ v.errorHandled = t.errorHandled
  BY DEF Fit, Sub, Fields, Links
<1> HIDE DEF v
<1>2. Less(t, v)
  BY <1>1, AlikeKeeps
<1>3. Less(v, SetTimeout(v))
  BY <1>2, SetTimeoutKeeps, StillLess DEF Less, Kept
<1> QED
  BY <1>2, <1>3, LessLess DEF v

LEMMA HeadersMoves ==
  ASSUME NEW t, Fit(t), Named(t), Requests(t), NEW ok
  PROVE  LET u == Headers(t, ok) IN Less(t, u) \/ Cuts(t, u)
<1> DEFINE u == SetTimeout([t EXCEPT !.error = FALSE, !.ready = 2])
           v == IF ~opt.protocol \/ ~u.firstMessage THEN TriggerOpen(u) ELSE u
           w == [v EXCEPT !.cut = TRUE]
<1>1. Headers(t, ok) \in {t, v, Refused(w)}
  BY DEF Headers
<1>2. Less(t, u)
  BY ActiveKeeps
<1> HIDE DEF u
<1>3. Fit(u)
  BY <1>2 DEF Less, Kept
<1>4. Same(u, v)
  BY <1>3, SameItself, TriggerOpenSame DEF Fit
<1> HIDE DEF v
<1>5. Less(t, v)
  BY <1>2, <1>3, <1>4, SameLess, LessLess
<1>6. Fit(v) /\ Named(v) /\ Requests(v)
  BY <1>5 DEF Less, Kept
<1>7. /\ Sub(w) /\ Links(v, w) /\ w.timers = v.timers /\ w.id = v.id /\ w.cut
      /\ w.transport = v.transport /\ w.fallback = v.fallback /\ w.rtransport = v.rtransport
      /\ w.abording = v.abording /\ w.errorHandled = v.errorHandled
  BY <1>6 DEF Fit, Sub, Fields, Links
<1> HIDE DEF w
<1>8. Less(v, w)
  BY <1>6, <1>7, AlikeKeeps
<1>9. Fit(w) /\ Named(w) /\ Requests(w)
  BY <1>6, <1>8 DEF Less, Kept
<1>10. Follows(w, Refused(w))
  BY <1>9, RefusedFollows
<1>11. Cuts(t, Refused(w))
  BY <1>5, <1>7, <1>8, <1>10 DEF Cuts, Follows, Less, Kept
<1> QED
  BY <1>1, <1>5, <1>11, LessItself

LEMMA StreamedMoves ==
  ASSUME NEW t, Fit(t), Named(t), Requests(t), NEW body, NEW long
  PROVE  LET u == Streamed(t, body, long) IN
         /\ Less(t, u) \/ Cuts(t, u)
         /\ ~long => Less(t, u)
<1> DEFINE u == Received(t, body)
           v == [u EXCEPT !.state = "messageReceived"]
           i == InvokeClose(v)
           w == [i EXCEPT !.bye = @ \/ Known(v), !.cut = TRUE]
           c == ClearState(w)
           r(d) == Reconnect(c, d)
           y == Streamed(t, body, long)
<1>1. y \in {u, v, r(FALSE)} /\ (~long => y \in {u, v})
  BY DEF Streamed, VerifyStreamingLength
<1>2. Same(t, u)
  BY SameItself, ReceivedSame DEF Fit
<1> HIDE DEF u, y
<1>3. Same(t, v)
  BY <1>2 DEF Same, Modes, Links, Sub, Fields
<1> HIDE DEF v
<1>4. Same(t, i)
  BY <1>3, InvokeCloseSame
<1> HIDE DEF i
<1>5. Less(t, u) /\ Less(t, v) /\ Less(t, i)
  BY <1>2, <1>3, <1>4, SameLess
<1>6. Fit(i) /\ Named(i)
  BY <1>5 DEF Less, Kept
<1>7. /\ Sub(w) /\ Links(i, w) /\ w.timers = i.timers /\ w.id = i.id /\ w.cut
      /\ w.transport = i.transport /\ w.fallback = i.fallback /\ w.rtransport = i.rtransport
      /\ w.abording = i.abording /\ w.errorHandled = i.errorHandled
  BY <1>6 DEF Fit, Sub, Fields, Links
<1> HIDE DEF w
<1>8. Less(i, w)
  BY <1>6, <1>7, AlikeKeeps
<1>9. Less(t, w) /\ Fit(w) /\ Named(w)
  BY <1>5, <1>6, <1>8, LessLess DEF Less, Kept
<1>10. Keeps(w, c)
  BY <1>9, ClearStateKeeps
<1> HIDE DEF c
<1>11. Fit(c) /\ Named(c) /\ Requests(c)
  BY <1>9, <1>10 DEF Less, Keeps, Kept
<1>12. \A d : Sends(c, r(d)) /\ Named(r(d))
  BY <1>11, ReconnectKeeps
<1> HIDE DEF r
<1>13. Sends(c, r(FALSE)) /\ Named(r(FALSE))
  BY <1>12
<1>14. Cuts(t, r(FALSE))
  BY <1>7, <1>9, <1>10, <1>13 DEF Cuts, Sends, Opens, Less, Keeps, Kept
<1> QED
  BY <1>1, <1>5, <1>14 DEF y

LEMMA ProgressMoves ==
  ASSUME NEW t, Fit(t), Named(t), Requests(t), NEW body, NEW long
  PROVE  LET u == Progress(t, body, long) IN Less(t, u) \/ Cuts(t, u)
<1> DEFINE u == SetTimeout([t EXCEPT !.error = FALSE, !.ready = 3])
           v == Streamed(u, body, long)
<1>1. Progress(t, body, long) \in {t, u, v}
  BY DEF Progress
<1>2. Less(t, u)
  BY ActiveKeeps
<1> HIDE DEF u
<1>3. Fit(u) /\ Named(u) /\ Requests(u)
  BY <1>2 DEF Less, Kept
<1>4. Less(u, v) \/ Cuts(u, v)
  BY <1>3, StreamedMoves
<1> HIDE DEF v
<1>5. Less(t, v) \/ Cuts(t, v)
  BY <1>2, <1>4, LessLess DEF Less, Kept, Cuts
<1> QED
  BY <1>1, <1>2, <1>5, LessItself

LEMMA ReconnectNowFollows ==
  ASSUME NEW t, Fit(t), Named(t), Requests(t)
  PROVE  Follows(t, Reconnect(t, FALSE))
<1> DEFINE r(d) == Reconnect(t, d)
<1>1. \A d : Sends(t, r(d)) /\ Named(r(d))
  BY ReconnectKeeps
<1>2. \A d : Follows(t, r(d))
  BY <1>1, SendsIsFollows
<1> HIDE DEF r
<1>3. Follows(t, r(FALSE))
  BY <1>2
<1> QED
  BY <1>3 DEF r

LEMMA DeliverLess ==
  ASSUME NEW t, Fit(t), NEW body
  PROVE  Less(t, Deliver(t, body))
BY SameItself, DeliverSame, SameLess DEF Fit

LEMMA PolledFollows ==
  ASSUME NEW t, Fit(t), Named(t), Requests(t), NEW body
  PROVE  Follows(t, Polled(t, body))
<1> DEFINE h == HandleProtocol(t, body)
           u == [h EXCEPT !.state = "messageReceived"]
           v == Reconnect(u, FALSE)
           x == Deliver(u, body)
           y == Deliver(v, body)
<1>1. Polled(t, body) \in {v, y, Reconnect(x, FALSE)}
  <2> DEFINE p == IF opt.early THEN u ELSE v
             q == IF SkipsCallback(t, body) THEN p ELSE Deliver(p, body)
  <2>1. Polled(t, body) = IF opt.early THEN Reconnect(q, FALSE) ELSE q
    BY DEF Polled
  <2>2. opt.early => q \in {u, x}
    OBVIOUS
  <2>3. ~opt.early => q \in {v, y}
    OBVIOUS
  <2> HIDE DEF q, u, v, x, y
  <2> QED
    BY <2>1, <2>2, <2>3 DEF v
<1>2. Same(t, h)
  BY SameItself, HandleProtocolSame DEF Fit
<1> HIDE DEF h
<1>3. Same(t, u)
  BY <1>2 DEF Same, Modes, Links, Sub, Fields
<1> HIDE DEF u
<1>4. Less(t, u) /\ Keeps(t, u)
  BY <1>3, SameLess, LessKeeps
<1>5. Fit(u) /\ Named(u) /\ Requests(u)
  BY <1>4 DEF Less, Kept
<1>6. Follows(u, v)
  BY <1>5, ReconnectNowFollows
<1> HIDE DEF v
<1>7. Fit(v)
  BY <1>6 DEF Follows, Kept
<1>8. Less(v, y) /\ Less(u, x)
  BY <1>5, <1>7, DeliverLess
<1> HIDE DEF x, y
<1>9. Fit(x) /\ Named(x) /\ Requests(x) /\ Keeps(u, x)
  BY <1>5, <1>8, LessKeeps DEF Less, Kept
<1>10. Follows(x, Reconnect(x, FALSE))
  BY <1>9, ReconnectNowFollows
<1>11. Follows(t, v) /\ Follows(t, y)
  BY <1>4, <1>6, <1>8, KeepsFollows, FollowsLess
<1>12. Follows(t, Reconnect(x, FALSE))
  BY <1>4, <1>9, <1>10, KeepsFollows
<1> QED
  BY <1>1, <1>11, <1>12

LEMMA DoneFollows ==
  ASSUME NEW t, Fit(t), Named(t), Requests(t), NEW body, NEW ok
  PROVE  LET u == Done(t, body, ok) IN
         /\ Follows(t, u)
         /\ t.abording => u = t
         /\ ~t.abording /\ ~ok =>
              \/ u.errorHandled
              \/ /\ Quiet(t) => WaitsNamed(u)
                 /\ Quiet(t) /\ opt.browser # "ieXDR" /\ opt.transport \notin Ajax => Alone(u)
<1> DEFINE u == [t EXCEPT !.error = FALSE]
           a == [u EXCEPT !.ready = 4]
           v == SetTimeout([t EXCEPT !.error = FALSE, !.ready = 4])
           r == ReconnectF(ClearState(u))
           st == Streamed(v, body, FALSE)
           z == Done(t, body, ok)
<1>1. a = [t EXCEPT !.error = FALSE, !.ready = 4]
  OBVIOUS
<1>2. /\ t.abording => z = t
      /\ ~t.abording => z = r \/ (z \in {st, Polled(v, body)} /\ ok) \/ (z = Refused(v) /\ ~ok)
  <2>1. SetTimeout(a) = v
    BY <1>1
  <2> HIDE DEF v, a
  <2> QED
    BY <2>1 DEF Done, a
<1>3. Same(t, u)
  BY DEF Same, Modes, Links, Fit, Sub, Fields
<1>4. Less(t, v)
  BY ActiveKeeps
<1> HIDE DEF u, v, z
<1>5. Less(t, u) /\ Keeps(t, u) /\ Keeps(t, v)
  BY <1>3, <1>4, SameLess, LessKeeps
<1>6. Fit(u) /\ Named(u) /\ Requests(u) /\ Fit(v) /\ Named(v) /\ Requests(v)
  BY <1>4, <1>5 DEF Less, Kept
<1>7. /\ Follows(u, r)
      /\ Quiet(u) => WaitsNamed(r)
      /\ Quiet(u) /\ opt.browser # "ieXDR" /\ opt.transport \notin Ajax => Alone(r)
  BY <1>6, ClearReconnectFollows
<1>8. Follows(v, Refused(v)) /\ Refused(v).errorHandled
  BY <1>6, RefusedFollows
<1>9. Follows(v, Polled(v, body))
  BY <1>6, PolledFollows
<1>10. Less(v, st)
  <2> DEFINE q(long) == Streamed(v, body, long)
  <2>1. \A long : ~long => Less(v, q(long))
    BY <1>6, StreamedMoves
  <2> HIDE DEF q
  <2>2. Less(v, q(FALSE))
    BY <2>1
  <2> QED
    BY <2>2 DEF q
<1> HIDE DEF r, st
<1>11. Follows(v, st) /\ Follows(t, t)
  BY <1>6, <1>10, LessItself, LessKeeps, KeepsIsFollows
<1>12. Follows(t, z)
  BY <1>2, <1>5, <1>7, <1>8, <1>9, <1>11, KeepsFollows
<1>13. Quiet(t) => Quiet(u)
  BY <1>5 DEF Keeps
<1>14. ASSUME ~t.abording, ~ok
       PROVE  \/ z.errorHandled
              \/ /\ Quiet(t) => WaitsNamed(z)
                 /\ Quiet(t) /\ opt.browser # "ieXDR" /\ opt.transport \notin Ajax => Alone(z)
  BY <1>2, <1>7, <1>8, <1>13, <1>14
<1> QED
  BY <1>2, <1>12, <1>14 DEF z

\* A network error: the handler of the answer has sent the next request or has
\* set a timer for it.  Neither outlives the handler of the error, which sends a
\* request of its own only if no error has been handled.
LEMMA FailedFollows ==
  ASSUME NEW t, Fit(t), Named(t), Requests(t), opt.browser # "ieXDR", opt.transport \notin Ajax
  PROVE  LET d == [Done(t, "empty", FALSE) EXCEPT !.error = TRUE]
             u == ClearState(d)
         IN  Follows(t, IF u.errorHandled THEN u ELSE ReconnectF(u))
<1> DEFINE e == Done(t, "empty", FALSE)
           d == [e EXCEPT !.error = TRUE]
           u == ClearState(d)
           r == ReconnectF(u)
           z == IF u.errorHandled THEN u ELSE r
<1>1. /\ Follows(t, e)
      /\ t.abording => e = t
      /\ ~t.abording => \/ e.errorHandled
                        \/ Quiet(t) => WaitsNamed(e) /\ Alone(e)
  <2> DEFINE q(ok) == Done(t, "empty", ok)
  <2>1. \A ok : /\ Follows(t, q(ok))
                /\ t.abording => q(ok) = t
                /\ ~t.abording /\ ~ok => \/ q(ok).errorHandled
                                         \/ Quiet(t) => WaitsNamed(q(ok)) /\ Alone(q(ok))
    BY DoneFollows
  <2> HIDE DEF q
  <2>2. /\ Follows(t, q(FALSE))
        /\ t.abording => q(FALSE) = t
        /\ ~t.abording => \/ q(FALSE).errorHandled
                          \/ Quiet(t) => WaitsNamed(q(FALSE)) /\ Alone(q(FALSE))
    BY <2>1
  <2> QED
    BY <2>2 DEF q
<1> HIDE DEF e
<1>2. Fit(e) /\ Named(e) /\ Requests(e) /\ e.abording = t.abording
  BY <1>1 DEF Follows, Kept
<1>3. Same(e, d)
  BY <1>2 DEF Same, Modes, Links, Fit, Sub, Fields
<1> HIDE DEF d
<1>4. Less(e, d) /\ d.errorHandled = e.errorHandled
  BY <1>2, <1>3, SameLess DEF Same, Modes
<1>5. Fit(d) /\ Named(d) /\ Requests(d) /\ d.abording = t.abording
  BY <1>2, <1>4 DEF Less, Kept
<1>6. /\ Keeps(d, u)
      /\ Alone(d) /\ WaitsNamed(d) /\ ~d.abording => Quiet(u) \/ u.errorHandled
  BY <1>5, ClearStateKeeps
<1> HIDE DEF u
<1>7. Fit(u) /\ Named(u) /\ Requests(u)
  BY <1>5, <1>6 DEF Keeps, Kept
<1>8. Follows(u, r)
  BY <1>7, ReconnectFKeeps, SendsIsFollows
<1> HIDE DEF r
<1>9. Kept(t, z) /\ Named(z)
  <2>1. Kept(t, u) /\ Named(u)
    BY <1>1, <1>4, <1>6 DEF Follows, Less, Keeps, Kept
  <2>2. Kept(t, r) /\ Named(r)
    BY <1>8, <2>1 DEF Follows, Kept
  <2> QED
    BY <2>1, <2>2
<1>10. ASSUME Quiet(t) PROVE One(z)
  <2>1. One(u)
    BY <1>1, <1>4, <1>6, <1>10, LessOne DEF Follows, Keeps
  <2>2. Quiet(u) => One(r)
    BY <1>8 DEF Follows
  <2>3. CASE t.abording
    <3>1. Quiet(u)
      BY <1>1, <1>4, <1>6, <1>10, <2>3, LessOne DEF Keeps
    <3> QED
      BY <2>1, <2>2, <3>1
  <2>4. CASE e.errorHandled
    <3>1. u.errorHandled
      BY <1>4, <1>6, <2>4 DEF Keeps, Kept
    <3> QED
      BY <2>1, <3>1
  <2>5. CASE ~t.abording /\ WaitsNamed(e) /\ Alone(e)
    <3>1. WaitsNamed(d) /\ Alone(d)
      <4>1. Waits(d) = Waits(e) /\ Conns(d) = Conns(e)
        BY <1>2, <1>3, SameStill DEF Still
      <4> QED
        BY <1>3, <2>5, <4>1 DEF Same, Modes, Links, WaitsNamed, Alone
    <3> QED
      BY <1>5, <1>6, <2>1, <2>2, <2>5, <3>1
  <2> QED
    BY <1>1, <1>10, <2>3, <2>4, <2>5
<1>11. Follows(t, z)
  BY <1>9, <1>10 DEF Follows
<1> QED
  BY <1>11 DEF z, r, u, d, e

-----------------------------------------------------------------------------
(* Events of jQuery.ajax(), of XDomainRequest and of the hidden document.    *)

LEMMA AjaxRequests ==
  ASSUME NEW t, Fit(t), opt.transport \in Ajax
  PROVE  Requests(t)
BY DEF Fit, Order, Requests, Sockets, Ajax

LEMMA ReceivedLess ==
  ASSUME NEW t, Fit(t), NEW body
  PROVE  Less(t, Received(t, body))
BY SameItself, ReceivedSame, SameLess DEF Fit

LEMMA SuccessFollows ==
  ASSUME NEW t, Fit(t), Named(t), opt.transport \in Ajax, NEW body
  PROVE  LET v == IF opt.early THEN t ELSE Reconnect(t, FALSE)
             w == Received(v, body)
         IN  Follows(t, IF ~t.reconnect THEN t
                        ELSE IF opt.early THEN Reconnect(w, FALSE) ELSE w)
<1> DEFINE r == Reconnect(t, FALSE)
           x == Received(t, body)
           y == Received(r, body)
<1>1. Follows(t, r) /\ Follows(t, t)
  BY AjaxRequests, ReconnectNowFollows, LessItself, LessKeeps, KeepsIsFollows
<1> HIDE DEF r
<1>2. Less(t, x) /\ Less(r, y)
  BY <1>1, ReceivedLess DEF Follows, Kept
<1> HIDE DEF x, y
<1>3. Keeps(t, x) /\ Fit(x) /\ Named(x) /\ Requests(x)
  BY <1>2, LessKeeps, AjaxRequests DEF Less, Kept
<1>4. Follows(t, Reconnect(x, FALSE)) /\ Follows(t, y)
  BY <1>1, <1>2, <1>3, ReconnectNowFollows, KeepsFollows, FollowsLess
<1>5. ASSUME opt.early
      PROVE  LET v == IF opt.early THEN t ELSE r
                 w == Received(v, body)
             IN  Follows(t, IF ~t.reconnect THEN t
                            ELSE IF opt.early THEN Reconnect(w, FALSE) ELSE w)
  BY <1>1, <1>4, <1>5 DEF x
<1>6. ASSUME ~opt.early
      PROVE  LET v == IF opt.early THEN t ELSE r
                 w == Received(v, body)
             IN  Follows(t, IF ~t.reconnect THEN t
                            ELSE IF opt.early THEN Reconnect(w, FALSE) ELSE w)
  BY <1>1, <1>4, <1>6 DEF y
<1> QED
  BY <1>5, <1>6 DEF r

LEMMA AjaxErrorFollows ==
  ASSUME NEW t, Fit(t), Named(t), opt.transport \in Ajax, NEW http
  PROVE  LET u == [t EXCEPT !.error = TRUE]
         IN  Follows(t, IF http THEN OnError(u) ELSE Reconnect(u, FALSE))
<1> DEFINE u == [t EXCEPT !.error = TRUE]
<1>1. Same(t, u)
  BY DEF Same, Modes, Links, Fit, Sub, Fields
<1> HIDE DEF u
<1>2. Keeps(t, u)
  BY <1>1, SameLess, LessKeeps
<1>3. Fit(u) /\ Named(u) /\ Requests(u)
  BY <1>2, AjaxRequests DEF Keeps, Kept
<1>4. Follows(t, OnError(u)) /\ Follows(t, Reconnect(u, FALSE))
  BY <1>2, <1>3, OnErrorKeeps, ReconnectNowFollows, KeepsIsFollows, KeepsFollows
<1> QED
  BY <1>4 DEF u

\* Nothing sends another XDomainRequest when one makes progress: it is not used
\* for long polling.
LEMMA XdrProgressKeeps ==
  ASSUME NEW t, Fit(t), opt.browser = "ieXDR", opt.transport \notin Ajax, NEW body
  PROVE  LET q == SetTimeout(t)
             u == HandleProtocol(q, body)
             v == IF opt.early THEN XdrReconnect(u) ELSE u
             w == IF SkipsCallback(q, body) THEN v
                  ELSE Deliver([v EXCEPT !.state = "messageReceived", !.rtransport = q.transport], body)
         IN  Less(t, IF opt.early THEN w ELSE XdrReconnect(w))
<1> DEFINE q == SetTimeout(t)
           u == HandleProtocol(q, body)
           x == [u EXCEPT !.rtransport = q.transport]
           y == [x EXCEPT !.state = "messageReceived"]
           z == Deliver(y, body)
<1>1. Less(t, q)
  BY SetTimeoutKeeps, StillLess
<1>2. [u EXCEPT !.state = "messageReceived", !.rtransport = q.transport] = y
      \/ ~Sub(u)
  BY DEF Sub, Fields
<1> HIDE DEF q
<1>3. Fit(q)
  BY <1>1 DEF Less, Kept
<1>4. Same(q, u)
  BY <1>3, SameItself, HandleProtocolSame DEF Fit
<1> HIDE DEF u
<1>5. Less(q, u)
  BY <1>3, <1>4, SameLess
<1>6. Fit(u)
  BY <1>5 DEF Less, Kept
<1>7. u.active = None
  BY <1>6 DEF Fit, Handles
<1>8. Less(u, x)
  BY <1>6, <1>7, InUseKeeps
<1>9. x.transport = u.transport
  BY <1>6 DEF Fit, Sub, Fields
<1> HIDE DEF x
<1>10. Fit(x)
  BY <1>8 DEF Less, Kept
<1>11. Same(x, y)
  BY <1>10 DEF Same, Modes, Links, Fit, Sub, Fields
<1> HIDE DEF y
<1>12. Same(x, z)
  BY <1>11, DeliverSame
<1> HIDE DEF z
<1>13. Less(x, z) /\ z.transport = u.transport
  BY <1>9, <1>10, <1>12, SameLess DEF Same, Modes
<1>14. u.transport # "long-polling"
  BY <1>6, OptionTypes DEF Fit, Order
<1>15. XdrReconnect(u) = u /\ XdrReconnect(z) = z
  BY <1>13, <1>14 DEF XdrReconnect
<1>16. Less(t, u) /\ Less(t, z)
  BY <1>1, <1>5, <1>8, <1>13, LessLess
<1>17. Deliver([u EXCEPT !.state = "messageReceived", !.rtransport = q.transport], body) = z
  BY <1>2, <1>6 DEF z, Fit
<1> QED
  <2>1. CASE SkipsCallback(q, body)
    BY <1>15, <1>16, <2>1 DEF q, u
  <2>2. CASE ~SkipsCallback(q, body)
    BY <1>15, <1>16, <1>17, <2>2 DEF q, u
  <2> QED
    BY <2>1, <2>2

LEMMA XdrErrorFollows ==
  ASSUME NEW q, Fit(q), Named(q), opt.browser = "ieXDR", opt.transport \notin Ajax
  PROVE  LET t == ClearState(q)
             u == [t EXCEPT !.count = @ + 1]
             Again(w) == IeXDR(Open(w, "re_connecting"))
         IN  Follows(q, IF t.count < MaxReconnectOnClose
                        THEN Later(u, opt.reconnectInterval, "reopenXdr", Again)
                        ELSE OnError(u))
<1> DEFINE t == ClearState(q)
           u == [t EXCEPT !.count = @ + 1]
           o == Open(u, "re_connecting")
           x == SetTimer(u, "reopenXdr", None)
           y == IeXDR(o)
           z == OnError(u)
<1>1. q.active = None
  BY DEF Fit, Handles
<1>2. Keeps(q, t) /\ Clear(t)
  BY <1>1, ClearStateKeeps
<1> HIDE DEF t
<1>3. Fit(t) /\ Named(t)
  BY <1>2 DEF Keeps, Kept
<1>4. Same(t, u)
  BY <1>3 DEF Same, Modes, Links, Fit, Sub, Fields
<1> HIDE DEF u
<1>5. Same(t, o)
  BY <1>4, OpenSame
<1> HIDE DEF o
<1>6. /\ Keeps(t, u) /\ Clear(u) /\ Keeps(t, o) /\ Clear(o)
  BY <1>2, <1>3, <1>4, <1>5, SameLess, LessKeeps
<1>7. Fit(u) /\ Named(u) /\ Fit(o)
  BY <1>6 DEF Keeps, Kept
<1>8. \A n : TimerFits(u, [n |-> n, kind |-> "reopenXdr", c |-> None])
  BY DEF TimerFits, Opening
<1>9. Follows(u, x)
  BY <1>6, <1>7, <1>8, SetTimerKeeps DEF Follows
<1>10. Follows(o, y)
  BY <1>6, <1>7, IeXDRKeeps, OpensIsFollows
<1>11. Follows(u, z)
  BY <1>7, OnErrorKeeps, KeepsIsFollows
<1> HIDE DEF x, y, z
<1>12. Follows(q, x) /\ Follows(q, y) /\ Follows(q, z)
  BY <1>2, <1>6, <1>9, <1>10, <1>11, KeepsFollows
<1> QED
  BY <1>12 DEF x, y, z, o, u, t, Later

\* The hidden document is opened again: the inactivity timer goes on.
LEMMA FrameAgainFollows ==
  ASSUME NEW t, Fit(t), Named(t), opt.browser = "ie", opt.transport \notin Ajax
  PROVE  Follows(t, Later(t, opt.reconnectInterval, "reopenFrame", IeStreaming))
<1> DEFINE x == SetTimer(t, "reopenFrame", None)
<1>1. \A n : TimerFits(t, [n |-> n, kind |-> "reopenFrame", c |-> None])
  BY DEF TimerFits, Opening
<1>2. Kept(t, x) /\ (Quiet(t) => One(x))
  BY <1>1, SetTimerKeeps
<1>3. opt.reconnectInterval => Named(x)
  BY DEF Named, Forgets
<1> HIDE DEF x
<1>4. Follows(t, IeStreaming(t))
  BY IeStreamingKeeps DEF Opens, Follows
<1>5. CASE opt.reconnectInterval
  BY <1>2, <1>3, <1>5 DEF Follows, Later, x
<1>6. CASE ~opt.reconnectInterval
  BY <1>4, <1>6 DEF Later
<1> QED
  BY <1>5, <1>6

LEMMA FrameCompleteFollows ==
  ASSUME NEW q, Fit(q), Named(q), opt.browser = "ie", opt.transport \notin Ajax
  PROVE  LET t == Open(InvokeClose(q), "re_connecting")
         IN  Follows(q, Later(t, opt.reconnectInterval, "reopenFrame", IeStreaming))
<1> DEFINE t == Open(InvokeClose(q), "re_connecting")
<1>1. Same(q, t)
  BY SameItself, InvokeCloseSame, OpenSame DEF Fit
<1> HIDE DEF t
<1>2. Keeps(q, t)
  BY <1>1, SameLess, LessKeeps
<1>3. Fit(t) /\ Named(t)
  BY <1>2 DEF Keeps, Kept
<1> QED
  BY <1>2, <1>3, FrameAgainFollows, KeepsFollows DEF t

LEMMA FrameFailureFollows ==
  ASSUME NEW t, Fit(t), Named(t), opt.browser = "ie", opt.transport \notin Ajax
  PROVE  LET u == Open([t EXCEPT !.error = TRUE], "re_connecting")
             v == [u EXCEPT !.count = @ + 1]
         IN  /\ Follows(t, InvokeCallback([t EXCEPT !.state = "error", !.rtransport = t.transport]))
             /\ Follows(t, IF u.count < MaxReconnectOnClose
                           THEN Later(v, opt.reconnectInterval, "reopenFrame", IeStreaming)
                           ELSE OnError(v))
<1> DEFINE e == [t EXCEPT !.error = TRUE]
           u == Open(e, "re_connecting")
           v == [u EXCEPT !.count = @ + 1]
           w == [t EXCEPT !.rtransport = t.transport]
           x == [w EXCEPT !.state = "error"]
<1>1. Same(t, e)
  BY DEF Same, Modes, Links, Fit, Sub, Fields
<1> HIDE DEF e
<1>2. Same(t, u)
  BY <1>1, OpenSame
<1> HIDE DEF u
<1>3. Same(t, v)
  BY <1>2 DEF Same, Modes, Links, Sub, Fields
<1> HIDE DEF v
<1>4. Keeps(t, v)
  BY <1>3, SameLess, LessKeeps
<1>5. Fit(v) /\ Named(v)
  BY <1>4 DEF Keeps, Kept
<1>6. /\ Follows(t, Later(v, opt.reconnectInterval, "reopenFrame", IeStreaming))
      /\ Follows(t, OnError(v))
  BY <1>4, <1>5, FrameAgainFollows, OnErrorKeeps, KeepsIsFollows, KeepsFollows
<1>7. [t EXCEPT !.state = "error", !.rtransport = t.transport] = x
  BY DEF Fit, Sub, Fields
<1>8. t.transport # "websocket" \/ t.active = None
  BY DEF Fit, Handles, Requests
<1>9. Less(t, w)
  BY <1>8, InUseKeeps
<1> HIDE DEF w
<1>10. Fit(w) /\ Keeps(t, w)
  BY <1>9, LessKeeps DEF Less, Kept
<1>11. Same(w, x)
  BY <1>10 DEF Same, Modes, Links, Fit, Sub, Fields
<1> HIDE DEF x
<1>12. Less(w, InvokeCallback(x))
  BY <1>10, <1>11, InvokeCallbackSame, SameLess
<1>13. Follows(t, InvokeCallback(x))
  BY <1>9, <1>12, LessLess, LessKeeps, KeepsIsFollows
<1> QED
  BY <1>6, <1>7, <1>13 DEF v, u, e

LEMMA FrameDataKeeps ==
  ASSUME NEW q, Fit(q), NEW closed, NEW body
  PROVE  LET t == [SetTimeout(q) EXCEPT !.error = FALSE, !.isReopen = @ \/ closed]
         IN  Less(q, Received(t, body))
<1> DEFINE u == SetTimeout(q)
           t == [u EXCEPT !.error = FALSE, !.isReopen = @ \/ closed]
<1>1. Less(q, u)
  BY SetTimeoutKeeps, StillLess
<1> HIDE DEF u
<1>2. Fit(u)
  BY <1>1 DEF Less, Kept
<1>3. Same(u, t)
  BY <1>2 DEF Same, Modes, Links, Fit, Sub, Fields
<1> HIDE DEF t
<1>4. Less(u, Received(t, body))
  BY <1>2, <1>3, ReceivedSame, SameLess
<1> QED
  BY <1>1, <1>4, LessLess DEF t, u

-----------------------------------------------------------------------------
(* Timers, and what the page does.                                           *)

LEMMA DisconnectLess ==
  ASSUME NEW t, Fit(t)
  PROVE  Less(t, Disconnect(t))
<1>1. Same(t, Disconnect(t))
  BY DEF Disconnect, Same, Modes, Links, Fit, Sub, Fields
<1> QED
  BY <1>1, SameLess

LEMMA TimerFiredFollows ==
  ASSUME NEW t, Fit(t), Clear(t), NEW x, TimerFits(t, x)
  PROVE  LET u == TimerFired(t, x) IN
         /\ x.kind \in Opening => Follows(t, u)
         /\ x.kind \notin Opening => Kept(t, u) /\ Named(u) /\ (One(t) => One(u))
<1> DEFINE u == TimerFired(t, x)
<1>1. Named(t)
  BY DEF Clear, Named
<1>2. /\ Keeps(t, ClearState(t)) /\ Keeps(t, t)
  BY <1>1, ClearStateKeeps, LessItself, LessKeeps
<1>3. CASE x.kind = "timeout"
  <2> DEFINE v == InvokeClose(t)
             w == ClearState(v)
  <2>1. Keeps(t, v)
    BY <1>1, SameItself, InvokeCloseSame, SameLess, LessKeeps DEF Fit
  <2> HIDE DEF v
  <2>2. Keeps(t, w)
    BY <2>1, ClearStateKeeps, KeepsKeeps DEF Keeps, Kept
  <2> HIDE DEF w
  <2>3. Keeps(t, Disconnect(w))
    BY <2>2, DisconnectLess, LessKeeps, KeepsKeeps DEF Keeps, Kept
  <2>4. u = Disconnect(w)
    BY <1>3 DEF TimerFired, Inactive, v, w
  <2> QED
    BY <1>3, <2>3, <2>4 DEF Keeps, Opening
<1>4. CASE x.kind = "fallback"
  <2>1. u = Execute(t)
    BY <1>4 DEF TimerFired, Inactive, ConnectXhrFired, ConnectSseFired, ConnectWsFired
  <2> QED
    BY <1>4, <2>1, ExecuteKeeps, OpensIsFollows DEF Opening
<1>5. CASE x.kind = "reconnect"
  <2>1. u = ExecuteRequest(t)
    BY <1>5 DEF TimerFired, Inactive, ConnectXhrFired, ConnectSseFired, ConnectWsFired
  <2>2. Requests(t)
    BY <1>5 DEF TimerFits
  <2> QED
    BY <1>5, <2>1, <2>2, ExecuteRequestKeeps, OpensIsFollows DEF Opening, Sends
<1>6. CASE x.kind = "reopenWs"
  <2> DEFINE q(b) == ExecuteWebSocket(t, b)
  <2>1. u = q(TRUE)
    BY <1>6 DEF TimerFired, Inactive, ConnectXhrFired, ConnectSseFired, ConnectWsFired
  <2>2. \A b : Opens(t, q(b))
    BY <1>6, ExecuteWebSocketKeeps DEF TimerFits
  <2> HIDE DEF q
  <2>3. Opens(t, q(TRUE))
    BY <2>2
  <2> QED
    BY <1>6, <2>1, <2>3, OpensIsFollows DEF Opening
<1>7. CASE x.kind = "reopenSse"
  <2> DEFINE q(b) == ExecuteSSE(t, b)
  <2>1. u = q(TRUE)
    BY <1>7 DEF TimerFired, Inactive, ConnectXhrFired, ConnectSseFired, ConnectWsFired
  <2>2. \A b : Opens(t, q(b))
    BY <1>7, ExecuteSSEKeeps DEF TimerFits
  <2> HIDE DEF q
  <2>3. Opens(t, q(TRUE))
    BY <2>2
  <2> QED
    BY <1>7, <2>1, <2>3, OpensIsFollows DEF Opening
<1>8. CASE x.kind = "reopenXdr"
  <2> DEFINE o == Open(t, "re_connecting")
  <2>1. u = IeXDR(o)
    BY <1>8 DEF TimerFired, Inactive, ConnectXhrFired, ConnectSseFired, ConnectWsFired
  <2>2. Same(t, o)
    BY SameItself, OpenSame DEF Fit
  <2> HIDE DEF o
  <2>3. Less(t, o) /\ Clear(o)
    BY <2>2, SameLess
  <2>4. Opens(o, IeXDR(o))
    BY <1>8, <2>3, IeXDRKeeps DEF TimerFits, Less, Kept
  <2>5. Opens(t, u)
    BY <2>1, <2>3, <2>4, LessOpens
  <2> QED
    BY <1>8, <2>5, OpensIsFollows DEF Opening
<1>9. CASE x.kind = "reopenFrame"
  <2>1. u = IeStreaming(t)
    BY <1>9 DEF TimerFired, Inactive, ConnectXhrFired, ConnectSseFired, ConnectWsFired
  <2>2. Opens(t, u)
    BY <1>9, <2>1, IeStreamingKeeps DEF TimerFits
  <2> QED
    BY <1>9, <2>2, OpensIsFollows DEF Opening
<1>10. CASE x.kind = "connectXhr"
  <2> DEFINE v == ClearState(t)
             w == [v EXCEPT !.state = "closed"]
  <2>1. u = InvokeCallback(w)
    BY <1>10 DEF TimerFired, Inactive, ConnectXhrFired, ConnectSseFired, ConnectWsFired
  <2>2. Fit(v) /\ Named(v)
    BY <1>2 DEF Keeps, Kept
  <2> HIDE DEF v
  <2>3. Same(v, w)
    BY <2>2 DEF Same, Modes, Links, Fit, Sub, Fields
  <2> HIDE DEF w
  <2>4. Keeps(v, InvokeCallback(w))
    BY <2>2, <2>3, InvokeCallbackSame, SameLess, LessKeeps
  <2>5. Keeps(t, u)
    BY <1>2, <2>1, <2>4, KeepsKeeps DEF v
  <2> QED
    BY <1>10, <2>5 DEF Keeps, Opening
<1>11. CASE x.kind = "connectSse"
  <2>1. u \in {t, ClearState(t)}
    BY <1>11 DEF TimerFired, Inactive, ConnectXhrFired, ConnectSseFired, ConnectWsFired
  <2> QED
    BY <1>2, <1>11, <2>1 DEF Keeps, Opening
<1>12. CASE x.kind = "connectWs"
  <2>1. CASE t.conns[x.c].opened \/ t.ws = None
    <3>1. u = t
      BY <1>12, <2>1 DEF TimerFired, Inactive, ConnectXhrFired, ConnectSseFired, ConnectWsFired
    <3> QED
      BY <1>2, <1>12, <3>1 DEF Keeps, Opening
  <2>2. CASE ~(t.conns[x.c].opened \/ t.ws = None)
    <3> DEFINE b == t.conns[t.ws].opened
               w == WsClosed(t, b)
    <3>1. u = ClearState(w)
      BY <1>12, <2>2 DEF TimerFired, Inactive, ConnectXhrFired, ConnectSseFired, ConnectWsFired
    <3>2. opt.webSocket /\ opt.transport = "websocket" /\ opt.connectTimeout /\ ~b
      BY <1>12, <2>2 DEF TimerFits
    <3>3. Waits(t) = {}
      BY <3>2, NoTimers DEF Waits
    <3> HIDE DEF b
    <3>4. Follows(t, w) /\ (One(t) => One(ClearTimer(w)))
      BY <1>1, <3>2, <3>3, WsClosedFollows
    <3> HIDE DEF w
    <3>5. Fit(w) /\ Named(w)
      BY <3>4 DEF Follows, Kept
    <3>6. Keeps(w, u) /\ (One(t) => One(u))
      BY <3>1, <3>4, <3>5, ClearStateKeeps
    <3>7. Kept(t, u) /\ Named(u)
      BY <3>4, <3>6 DEF Follows, Keeps, Kept
    <3> QED
      BY <1>12, <3>6, <3>7 DEF Opening
  <2> QED
    BY <2>1, <2>2
<1> QED
  BY <1>3, <1>4, <1>5, <1>6, <1>7, <1>8, <1>9, <1>10, <1>11, <1>12 DEF TimerFits, Opening

\* An event leaves one connection if there was one.  The script does not keep to
\* that after an answer that is an error or too long (cut), or when a message is
\* pushed while the web socket connects.
Single(t) == ~t.cut /\ ~(opt.pushes /\ opt.transport = "websocket") => One(t)
Moves(t, u) ==
  /\ Fit(u) /\ Named(u)
  /\ t.cut => u.cut
  /\ Single(t) => Single(u)

LEMMA KeepsMoves ==
  ASSUME NEW t, NEW u, Keeps(t, u)
  PROVE  Moves(t, u)
BY DEF Keeps, Kept, Moves, Single

LEMMA LessMoves ==
  ASSUME NEW t, NEW u, NEW v, Less(t, u), Moves(u, v)
  PROVE  Moves(t, v)
BY LessOne DEF Less, Kept, Moves, Single

LEMMA CutsMoves ==
  ASSUME NEW t, NEW u, Named(t), Less(t, u) \/ Cuts(t, u)
  PROVE  Moves(t, u)
BY LessKeeps, KeepsMoves DEF Cuts, Kept, Moves, Single

\* The end of a connection that counts, and what comes after it.
LEMMA EndedMoves ==
  ASSUME NEW t, Fit(t), NEW c \in Conns(t), NEW u, Follows(Ended(t, c), u)
  PROVE  Moves(t, u)
<1> DEFINE v == Ended(t, c)
<1>1. Less(t, v) /\ (One(t) => Quiet(v))
  BY EndedQuiet
<1>2. Follows(v, u)
  OBVIOUS
<1> HIDE DEF v
<1> QED
  BY <1>1, <1>2 DEF Less, Kept, Follows, Moves, Single

LEMMA CloseMoves ==
  ASSUME NEW t, Fit(t), Named(t)
  PROVE  Moves(t, Close(t))
<1> DEFINE a == [t EXCEPT !.reconnect = FALSE, !.abording = TRUE, !.state = "unsubscribe"]
           u == InvokeCallback(a)
           d == Disconnect(u)
           w == ClearState(d)
           z == ClearTimer(w)
<1>1. /\ Sub(a) /\ Links(t, a) /\ a.timers = t.timers /\ a.id = t.id /\ a.abording
      /\ a.transport = t.transport /\ a.fallback = t.fallback /\ a.rtransport = t.rtransport
      /\ a.cut = t.cut
  BY DEF Fit, Sub, Fields, Links
<1>2. z = Close(t)
  BY DEF Close
<1> HIDE DEF a
<1>3. Table(a) /\ Kinds(a) /\ Handles(a) /\ Pending(a) /\ Order(a)
  BY <1>1 DEF Fit, Links, Table, Kinds, KindFits, Handles, Pending, TimerFits, Order, Requests
<1>4. Fit(a) /\ Named(a)
  BY <1>1, <1>3 DEF Fit, Named
<1>5. Conns(a) \subseteq Conns(t) /\ Waits(a) = Waits(t)
  BY <1>1 DEF Links, Conns, Waits
<1>6. One(t) => One(a)
  BY <1>5 DEF One
<1>7. Keeps(a, u)
  BY <1>4, SameItself, InvokeCallbackSame, SameLess, LessKeeps DEF Fit
<1> HIDE DEF u
<1>8. Keeps(a, d)
  BY <1>7, DisconnectLess, LessKeeps, KeepsKeeps DEF Keeps, Kept
<1> HIDE DEF d
<1>9. Keeps(a, w)
  BY <1>8, ClearStateKeeps, KeepsKeeps DEF Keeps, Kept
<1> HIDE DEF w
<1>10. Keeps(a, z)
  BY <1>9, ClearTimerKeeps, StillLess, LessKeeps, KeepsKeeps DEF Keeps, Kept
<1> HIDE DEF z
<1> QED
  BY <1>1, <1>2, <1>6, <1>10 DEF Keeps, Kept, Moves, Single

LEMMA PushAjaxMessageLess ==
  ASSUME NEW t, Fit(t)
  PROVE  Less(t, PushAjaxMessage(t))
<1> DEFINE u == PushAjaxMessage(t)
<1>1. \E opened : u = WithConn(t, "push", opened)
  BY DEF PushAjaxMessage
<1>2. KindFits(t, "push")
  BY DEF KindFits
<1> HIDE DEF u
<1>3. Kept(t, u) /\ u.timers = t.timers /\ u.id = t.id /\ Conns(u) = Conns(t)
  BY <1>1, <1>2, WithConnKeeps
<1> QED
  BY <1>3 DEF Less, Named, Waits, u

LEMMA PushMoves ==
  ASSUME NEW t, Fit(t), Named(t), opt.pushes
  PROVE  Moves(t, Push(t))
<1>1. Moves(t, t) /\ Moves(t, PushAjaxMessage(t))
  BY LessItself, PushAjaxMessageLess, LessKeeps, KeepsMoves
<1>2. CASE Push(t) \in {t, PushAjaxMessage(t)}
  BY <1>1, <1>2
<1>3. CASE Push(t) \notin {t, PushAjaxMessage(t)}
  <2> DEFINE m == [t EXCEPT !.conns[t.ws].mute = TRUE]
             v == ClearState(m)
             f == Fallback(v)
             u == PushAjaxMessage(f)
  <2>1. Push(t) = u /\ t.ws # None /\ t.active = None
    BY <1>3 DEF Push, PushWebSocket
  <2>2. t.ws \in Slots /\ opt.transport = "websocket"
    BY <2>1 DEF Fit, Handles
  <2>3. Less(t, m)
    BY <2>2, MarkedKeeps
  <2>4. m.active = None
    BY <2>1 DEF Fit, Sub, Fields
  <2> HIDE DEF m
  <2>5. Fit(m) /\ Named(m)
    BY <2>3 DEF Less, Kept
  <2>6. Keeps(m, v) /\ Clear(v)
    BY <2>4, <2>5, ClearStateKeeps
  <2> HIDE DEF v
  <2>7. Opens(v, f) /\ Fit(f) /\ Named(f)
    BY <2>2, <2>6, FallbackKeeps DEF Keeps, Kept, Sockets, Opens
  <2> HIDE DEF f
  <2>8. Less(f, u)
    BY <2>7, PushAjaxMessageLess
  <2> HIDE DEF u
  <2> QED
    BY <2>1, <2>2, <2>3, <2>6, <2>7, <2>8 DEF Less, Keeps, Opens, Kept, Moves, Single
<1> QED
  BY <1>2, <1>3

-----------------------------------------------------------------------------
(* The steps.                                                                *)

Inv == Fit(s) /\ Named(s) /\ Single(s)

LEMMA CalmKeeps ==
  ASSUME Fit(s), Named(s)
  PROVE  LET t == Calm(s) IN
         /\ Less(s, t) /\ Fit(t) /\ Named(t)
         /\ t.conns = s.conns /\ t.abording = s.abording /\ Conns(t) = Conns(s)
<1>1. Same(s, Calm(s))
  BY DEF Calm, Same, Modes, Links, Fit, Sub, Fields
<1> QED
  BY <1>1, SameLess, SameStill DEF Same, Modes, Links, Less, Kept, Still

\* The end of a connection that is under way, and what comes after it.
LEMMA EndsMoves ==
  ASSUME Fit(s), Named(s), NEW c \in Slots, s.conns[c].kind \notin {"none", "push", "ws"},
         Follows(Ended(Calm(s), c), s')
  PROVE  Moves(s, s')
<1>1. c \in Conns(Calm(s))
  BY UnderWay, CalmKeeps
<1> QED
  BY <1>1, CalmKeeps, EndedMoves, LessMoves

LEMMA EndedFits ==
  ASSUME Fit(s), Named(s), NEW c \in Slots
  PROVE  LET t == Ended(Calm(s), c) IN
         /\ Less(Calm(s), t) /\ Fit(t) /\ Named(t)
         /\ Requests(s) => Requests(t)
<1> DEFINE a == Calm(s)
           t == Ended(a, c)
<1>1. Less(s, a) /\ Fit(a) /\ Named(a)
  BY CalmKeeps
<1> HIDE DEF a
<1>2. Kept(a, t) /\ t.timers = a.timers /\ t.id = a.id /\ Conns(t) = Conns(a) \ {c}
  BY <1>1, EndedKeeps
<1> HIDE DEF t
<1>3. Less(a, t)
  BY <1>2 DEF Less, Waits, Named
<1> QED
  BY <1>1, <1>3 DEF Less, Kept, a, t

LEMMA WsOnOpenMoves ==
  ASSUME Fit(s), Named(s), NEW c \in Slots, WsOnOpen(c)
  PROVE  Moves(s, s')
<1>1. s' = WsOpened(Calm(s), c) /\ s.conns[c].st = "connecting"
  BY DEF WsOnOpen, Step, Of
<1>2. Less(Calm(s), s')
  BY <1>1, CalmKeeps, WsOpenedKeeps
<1> QED
  BY <1>2, CalmKeeps, LessLess, LessKeeps, KeepsMoves

LEMMA MessageMoves ==
  ASSUME Fit(s), Named(s), NEW c \in Slots, NEW body,
         WsOnMessage(c, body) \/ SseOnMessage(c, body)
  PROVE  Moves(s, s')
<1>1. s' = Received([SetTimeout(Calm(s)) EXCEPT !.state = "messageReceived"], body)
  BY DEF WsOnMessage, SseOnMessage, Step
<1>2. Less(Calm(s), s')
  BY <1>1, CalmKeeps, HeardKeeps
<1> QED
  BY <1>2, CalmKeeps, LessLess, LessKeeps, KeepsMoves

LEMMA WsOnCloseMoves ==
  ASSUME Fit(s), Named(s), NEW c \in Slots, WsOnClose(c)
  PROVE  Moves(s, s')
<1> DEFINE a == Calm(s)
           t == Ended(a, c)
<1>1. s' = IF s.conns[c].mute THEN t ELSE WsClosed(t, s.conns[c].opened)
  BY DEF WsOnClose, Step
<1>2. s.conns[c].kind = "ws"
  BY DEF WsOnClose, Of
<1>3. /\ Less(s, a) /\ Fit(a) /\ Named(a) /\ a.conns = s.conns /\ a.abording = s.abording
  BY CalmKeeps
<1>4. Less(a, t) /\ Fit(t) /\ Named(t)
  BY EndedFits
<1> HIDE DEF a
<1>5. opt.webSocket /\ opt.transport = "websocket"
  BY <1>2 DEF Fit, Kinds, KindFits
<1>6. CASE s.conns[c].mute
  BY <1>1, <1>3, <1>4, <1>6, LessLess, LessKeeps, KeepsMoves
<1>7. CASE ~s.conns[c].mute
  <2>1. Follows(t, s') /\ (t.abording /\ One(t) => One(s'))
    BY <1>1, <1>4, <1>5, <1>7, WsClosedFollows
  <2>2. CASE t.abording
    <3>1. One(a) => One(s')
      BY <1>4, <2>1, <2>2, LessOne
    <3>2. Moves(a, s')
      BY <1>4, <2>1, <3>1 DEF Less, Follows, Kept, Moves, Single
    <3> QED
      BY <1>3, <3>2, LessMoves
  <2>3. CASE ~t.abording
    <3>1. c \in Conns(a)
      BY <1>2, <1>3, <1>4, <2>3 DEF Conns, Less, Kept
    <3>2. Moves(a, s')
      BY <1>3, <2>1, <3>1, EndedMoves
    <3> QED
      BY <1>3, <3>2, LessMoves
  <2> QED
    BY <2>2, <2>3
<1> QED
  BY <1>6, <1>7

LEMMA SseOnOpenMoves ==
  ASSUME Fit(s), Named(s), NEW c \in Slots, SseOnOpen(c)
  PROVE  Moves(s, s')
<1> DEFINE state == IF s.conns[c].opened THEN "re_opening" ELSE "opening"
           a == Calm(s)
           u == SetTimeout(a)
           v == IF opt.protocol THEN u ELSE Open(u, state)
<1>1. s' = [v EXCEPT !.conns[c].opened = TRUE, !.conns[c].st = "open"]
      /\ s.conns[c].st = "connecting"
  BY DEF SseOnOpen, Step, Of
<1>2. Less(s, a) /\ Fit(a) /\ a.conns = s.conns
  BY CalmKeeps
<1> HIDE DEF state, a
<1>3. Less(a, s')
  BY <1>1, <1>2, OnOpenKeeps
<1> QED
  BY <1>2, <1>3, LessLess, LessKeeps, KeepsMoves

LEMMA SseOnErrorMoves ==
  ASSUME Fit(s), Named(s), NEW c \in Slots, SseOnError(c)
  PROVE  Moves(s, s')
<1>1. s' = SseFailed(Ended(Calm(s), c), s.conns[c].opened) /\ s.conns[c].kind = "sse"
  BY DEF SseOnError, Step, Of
<1>2. opt.eventSource /\ Sockets
  BY <1>1 DEF Fit, Kinds, KindFits
<1>3. Follows(Ended(Calm(s), c), s')
  BY <1>1, <1>2, EndedFits, SseFailedFollows
<1> QED
  BY <1>1, <1>3, EndsMoves

LEMMA XhrFits ==
  ASSUME Fit(s), NEW c \in Slots, s.conns[c].kind = "xhr"
  PROVE  Requests(s) /\ opt.browser # "ieXDR" /\ opt.transport \notin Ajax
         /\ s.conns[c].st # "closing"
BY DEF Fit, Kinds, KindFits

LEMMA XhrOnHeadersMoves ==
  ASSUME Fit(s), Named(s), NEW c \in Slots, NEW ok \in BOOLEAN, XhrOnHeaders(c, ok)
  PROVE  Moves(s, s')
<1> DEFINE a == Calm(s)
           st == IF ok THEN "headers" ELSE "refused"
           t == [a EXCEPT !.conns[c].st = st]
<1>1. s' = Headers(t, ok) /\ s.conns[c].kind = "xhr"
  BY DEF XhrOnHeaders, Step, Of
<1>2. Requests(s) /\ s.conns[c].st # "closing"
  BY <1>1, XhrFits
<1>3. Less(s, a) /\ Fit(a) /\ a.conns = s.conns
  BY CalmKeeps
<1>4. st # "closing"
  OBVIOUS
<1> HIDE DEF a, st
<1>5. Less(a, t)
  BY <1>2, <1>3, <1>4, StateKeeps
<1> HIDE DEF t
<1>6. Less(s, t) /\ Fit(t) /\ Named(t) /\ Requests(t)
  BY <1>2, <1>3, <1>5, LessLess DEF Less, Kept
<1>7. Less(t, s') \/ Cuts(t, s')
  BY <1>1, <1>6, HeadersMoves
<1> QED
  BY <1>6, <1>7, CutsMoves, LessMoves

LEMMA XhrOnProgressMoves ==
  ASSUME Fit(s), Named(s), NEW c \in Slots, NEW body, NEW long \in BOOLEAN,
         XhrOnProgress(c, body, long)
  PROVE  Moves(s, s')
<1> DEFINE a == Calm(s)
           t == [a EXCEPT !.conns[c].st = "loading"]
<1>1. s' = Progress(t, body, long) /\ s.conns[c].kind = "xhr"
  BY DEF XhrOnProgress, Step, Of
<1>2. Requests(s) /\ s.conns[c].st # "closing"
  BY <1>1, XhrFits
<1>3. Less(s, a) /\ Fit(a) /\ a.conns = s.conns
  BY CalmKeeps
<1> HIDE DEF a
<1>4. Less(a, t)
  BY <1>2, <1>3, StateKeeps
<1> HIDE DEF t
<1>5. Less(s, t) /\ Fit(t) /\ Named(t) /\ Requests(t)
  BY <1>2, <1>3, <1>4, LessLess DEF Less, Kept
<1>6. Less(t, s') \/ Cuts(t, s')
  BY <1>1, <1>5, ProgressMoves
<1> QED
  BY <1>5, <1>6, CutsMoves, LessMoves

LEMMA XhrOnDoneMoves ==
  ASSUME Fit(s), Named(s), NEW c \in Slots, NEW body, XhrOnDone(c, body)
  PROVE  Moves(s, s')
<1> DEFINE t == Ended(Calm(s), c)
           ok == s.conns[c].st # "refused"
<1>1. s' = Done(t, body, ok) /\ s.conns[c].kind = "xhr"
  BY DEF XhrOnDone, Step, Of
<1>2. Fit(t) /\ Named(t) /\ Requests(t)
  BY <1>1, XhrFits, EndedFits
<1> HIDE DEF ok
<1>3. Follows(t, s')
  BY <1>1, <1>2, DoneFollows
<1> QED
  BY <1>1, <1>3, EndsMoves

LEMMA XhrOnErrorMoves ==
  ASSUME Fit(s), Named(s), NEW c \in Slots, XhrOnError(c)
  PROVE  Moves(s, s')
<1> DEFINE t == Ended(Calm(s), c)
           d == [Done(t, "empty", FALSE) EXCEPT !.error = TRUE]
           u == ClearState(d)
<1>1. /\ s' = IF u.errorHandled THEN u ELSE ReconnectF(u)
      /\ s.conns[c].kind = "xhr"
  BY DEF XhrOnError, Step, Of
<1>2. Fit(t) /\ Named(t) /\ Requests(t) /\ opt.browser # "ieXDR" /\ opt.transport \notin Ajax
  BY <1>1, XhrFits, EndedFits
<1>3. Follows(t, s')
  <2> HIDE DEF t
  <2> QED
    BY <1>1, <1>2, FailedFollows
<1> QED
  BY <1>1, <1>3, EndsMoves

LEMMA JqueryMoves ==
  ASSUME Fit(s), Named(s), NEW c \in Slots, NEW body, NEW http,
         JqueryOnSuccess(c, body) \/ JqueryOnError(c, http)
  PROVE  Moves(s, s')
<1> DEFINE t == Ended(Calm(s), c)
<1>1. s.conns[c].kind = "jquery"
  BY DEF JqueryOnSuccess, JqueryOnError, Of
<1>2. opt.transport \in Ajax
  BY <1>1 DEF Fit, Kinds, KindFits
<1>3. Fit(t) /\ Named(t)
  BY EndedFits
<1>4. CASE JqueryOnSuccess(c, body)
  <2>1. s' = LET v == IF opt.early THEN t ELSE Reconnect(t, FALSE)
                 w == Received(v, body)
             IN  IF ~t.reconnect THEN t ELSE IF opt.early THEN Reconnect(w, FALSE) ELSE w
    BY <1>4 DEF JqueryOnSuccess, Step
  <2> HIDE DEF t
  <2>2. Follows(t, s')
    BY <1>2, <1>3, <2>1, SuccessFollows
  <2> QED
    BY <1>1, <2>2, EndsMoves DEF t
<1>5. CASE JqueryOnError(c, http)
  <2>1. s' = LET u == [t EXCEPT !.error = TRUE]
             IN  IF http THEN OnError(u) ELSE Reconnect(u, FALSE)
    BY <1>5 DEF JqueryOnError, Step
  <2> HIDE DEF t
  <2>2. Follows(t, s')
    BY <1>2, <1>3, <2>1, AjaxErrorFollows
  <2> QED
    BY <1>1, <2>2, EndsMoves DEF t
<1> QED
  BY <1>4, <1>5

LEMMA XdrMoves ==
  ASSUME Fit(s), Named(s), NEW c \in Slots, NEW body,
         XdrOnProgress(c, body) \/ XdrOnError(c) \/ XdrOnLoad(c)
  PROVE  Moves(s, s')
<1> DEFINE a == Calm(s)
           q == Ended(a, c)
<1>1. s.conns[c].kind = "xdr"
  BY DEF XdrOnProgress, XdrOnError, XdrOnLoad, Of
<1>2. opt.browser = "ieXDR" /\ opt.transport \notin Ajax
  BY <1>1 DEF Fit, Kinds, KindFits
<1>3. Less(s, a) /\ Fit(a) /\ Named(a)
  BY CalmKeeps
<1>4. Less(a, q) /\ Fit(q) /\ Named(q)
  BY EndedFits
<1>5. CASE XdrOnProgress(c, body)
  <2>1. s' = LET t == SetTimeout(a)
                 u == HandleProtocol(t, body)
                 v == IF opt.early THEN XdrReconnect(u) ELSE u
                 w == IF SkipsCallback(t, body) THEN v
                      ELSE Deliver([v EXCEPT !.state = "messageReceived", !.rtransport = t.transport], body)
             IN  IF opt.early THEN w ELSE XdrReconnect(w)
    BY <1>5 DEF XdrOnProgress, Step
  <2> HIDE DEF a
  <2>2. Less(a, s')
    BY <1>2, <1>3, <2>1, XdrProgressKeeps
  <2> QED
    BY <1>3, <2>2, LessLess, LessKeeps, KeepsMoves
<1>6. CASE XdrOnError(c)
  <2>1. s' = LET t == ClearState(q)
                 u == [t EXCEPT !.count = @ + 1]
                 Again(w) == IeXDR(Open(w, "re_connecting"))
             IN  IF t.count < MaxReconnectOnClose
                 THEN Later(u, opt.reconnectInterval, "reopenXdr", Again)
                 ELSE OnError(u)
    BY <1>6 DEF XdrOnError, Step
  <2> HIDE DEF q
  <2>2. Follows(q, s')
    BY <1>2, <1>4, <2>1, XdrErrorFollows
  <2> QED
    BY <1>1, <2>2, EndsMoves DEF q
<1>7. CASE XdrOnLoad(c)
  <2>1. s' = q
    BY <1>7 DEF XdrOnLoad, Step
  <2> QED
    BY <1>3, <1>4, <2>1, LessLess, LessKeeps, KeepsMoves
<1> QED
  BY <1>5, <1>6, <1>7

LEMMA FrameMoves ==
  ASSUME Fit(s), Named(s), NEW c \in Slots, NEW body,
         FrameOnData(c, body) \/ FrameOnComplete(c) \/ FrameOnFailure(c)
  PROVE  Moves(s, s')
<1> DEFINE a == Calm(s)
           q == Ended(a, c)
<1>1. s.conns[c].kind = "frame"
  BY DEF FrameOnData, FrameOnComplete, FrameOnFailure, Of
<1>2. opt.browser = "ie" /\ opt.transport \notin Ajax
  BY <1>1 DEF Fit, Kinds, KindFits
<1>3. Less(s, a) /\ Fit(a)
  BY CalmKeeps
<1>4. Fit(q) /\ Named(q)
  BY EndedFits
<1>5. CASE FrameOnData(c, body)
  <2>1. s' = LET t == [SetTimeout(a) EXCEPT !.error = FALSE, !.isReopen = @ \/ s.closed]
             IN  Received(t, body)
    BY <1>5 DEF FrameOnData, Step
  <2> HIDE DEF a
  <2>2. Less(a, s')
    BY <1>3, <2>1, FrameDataKeeps
  <2> QED
    BY <1>3, <2>2, LessLess, LessKeeps, KeepsMoves
<1>6. ASSUME Follows(q, s') PROVE Moves(s, s')
  BY <1>1, <1>6, EndsMoves
<1>7. CASE FrameOnComplete(c)
  <2>1. s' = LET t == Open(InvokeClose(q), "re_connecting")
             IN  Later(t, opt.reconnectInterval, "reopenFrame", IeStreaming)
    BY <1>7 DEF FrameOnComplete, Step
  <2> HIDE DEF q
  <2> QED
    BY <1>2, <1>4, <1>6, <2>1, FrameCompleteFollows
<1>8. CASE FrameOnFailure(c)
  <2>1. LET u == Open([q EXCEPT !.error = TRUE], "re_connecting")
            v == [u EXCEPT !.count = @ + 1]
        IN  \/ s' = InvokeCallback([q EXCEPT !.state = "error", !.rtransport = q.transport])
            \/ s' = IF u.count < MaxReconnectOnClose
                    THEN Later(v, opt.reconnectInterval, "reopenFrame", IeStreaming)
                    ELSE OnError(v)
    BY <1>8 DEF FrameOnFailure, Step
  <2> HIDE DEF q
  <2> QED
    BY <1>2, <1>4, <1>6, <2>1, FrameFailureFollows
<1> QED
  BY <1>5, <1>7, <1>8

LEMMA PushOnDoneMoves ==
  ASSUME Fit(s), Named(s), NEW c \in Slots, PushOnDone(c)
  PROVE  Moves(s, s')
<1> DEFINE a == Calm(s)
           t == Ended(a, c)
           u == [t EXCEPT !.error = FALSE]
<1>1. s' = IF t.abording THEN t ELSE SetTimeout(u)
  BY DEF PushOnDone, Step
<1>2. Less(s, a) /\ Less(a, t) /\ Fit(t)
  BY CalmKeeps, EndedFits
<1> HIDE DEF t
<1>3. Same(t, u)
  BY <1>2 DEF Same, Modes, Links, Fit, Sub, Fields
<1> HIDE DEF u, a
<1>4. Less(t, u) /\ Fit(u)
  BY <1>2, <1>3, SameLess DEF Less, Kept
<1>5. Less(u, SetTimeout(u))
  BY <1>4, SetTimeoutKeeps, StillLess
<1>6. Less(s, s')
  BY <1>1, <1>2, <1>4, <1>5, LessLess
<1> QED
  BY <1>6, LessKeeps, KeepsMoves

LEMMA OnTimerMoves ==
  ASSUME Fit(s), Named(s), NEW x \in s.timers, OnTimer(x)
  PROVE  Moves(s, s')
<1> DEFINE a == Calm(s)
           t == [a EXCEPT !.timers = @ \ {x}, !.id = IF @ = x.n THEN None ELSE @]
<1>1. s' = TimerFired(t, x)
  BY DEF OnTimer, Step
<1>2. Same(s, a)
  BY DEF Calm, Same, Modes, Links, Fit, Sub, Fields
<1> HIDE DEF a
<1>3. Sub(t) /\ Modes(s, t) /\ Links(s, t) /\ t.timers = s.timers \ {x}
  BY <1>2 DEF Same, Modes, Links, Sub, Fields
<1> HIDE DEF t
<1>4. \A y \in t.timers : TimerFits(s, y)
  BY <1>3 DEF Fit, Pending
<1>5. Kept(s, t) /\ Conns(t) = Conns(s)
  <2>1. \A y \in t.timers : TimerFits(t, y)
    BY <1>3, <1>4 DEF Modes, Links, TimerFits, Requests
  <2> QED
    BY <1>3, <2>1, TimersKeep DEF Modes, Links, TimerFits, Requests
<1>6. TimerFits(t, x)
  <2>1. TimerFits(s, x)
    BY DEF Fit, Pending
  <2> QED
    BY <1>3, <2>1 DEF Modes, Links, TimerFits, Requests
<1>7. Fit(t) /\ Clear(t)
  BY <1>3, <1>5 DEF Kept, Named, Clear
<1>8. Waits(t) = Waits(s) \ {x}
  BY <1>3 DEF Waits
<1>9. One(s) => One(t)
  BY <1>5, <1>8 DEF One
<1>10. One(s) /\ x.kind \in Opening => Quiet(t)
  <2>1. x.kind \in Opening => x \in Waits(s)
    BY DEF Waits
  <2> QED
    BY <1>5, <1>8, <2>1 DEF One, Quiet
<1>11. /\ x.kind \in Opening => Follows(t, s')
       /\ x.kind \notin Opening => Kept(t, s') /\ Named(s') /\ (One(t) => One(s'))
  BY <1>1, <1>6, <1>7, TimerFiredFollows
<1>12. One(s) => One(s')
  BY <1>9, <1>10, <1>11 DEF Follows
<1>13. Kept(t, s') /\ Named(s')
  BY <1>11 DEF Follows
<1> QED
  BY <1>5, <1>12, <1>13 DEF Kept, Moves, Single

LEMMA UnsubscribeMoves ==
  ASSUME Fit(s), Named(s), Unsubscribe
  PROVE  Moves(s, s')
<1>1. s' = Close(Calm(s))
  BY DEF Unsubscribe, Step
<1> QED
  BY <1>1, CalmKeeps, CloseMoves, LessMoves

LEMMA PublishMoves ==
  ASSUME Fit(s), Named(s), Publish
  PROVE  Moves(s, s')
<1>1. s' = Push(Calm(s)) /\ opt.pushes
  BY DEF Publish, Step
<1> QED
  BY <1>1, CalmKeeps, PushMoves, LessMoves

LEMMA EventMoves ==
  ASSUME Fit(s), Named(s), NEW c \in Slots, Event(c)
  PROVE  Moves(s, s') /\ opt' = opt
<1>1. CASE WsOnOpen(c)
  BY <1>1, WsOnOpenMoves DEF WsOnOpen, Step
<1>2. CASE WsOnClose(c)
  BY <1>2, WsOnCloseMoves DEF WsOnClose, Step
<1>3. CASE SseOnOpen(c)
  BY <1>3, SseOnOpenMoves, Zenon DEF SseOnOpen, Step
<1>4. CASE SseOnError(c)
  BY <1>4, SseOnErrorMoves DEF SseOnError, Step
<1>5. CASE XhrOnError(c)
  BY <1>5, XhrOnErrorMoves DEF XhrOnError, Step
<1>6. ASSUME NEW ok \in BOOLEAN, XhrOnHeaders(c, ok)
      PROVE  Moves(s, s') /\ opt' = opt
  BY <1>6, XhrOnHeadersMoves DEF XhrOnHeaders, Step
<1>7. ASSUME NEW ok \in BOOLEAN, JqueryOnError(c, ok)
      PROVE  Moves(s, s') /\ opt' = opt
  BY <1>7, JqueryMoves DEF JqueryOnError, Step
<1>8. ASSUME NEW body \in Body, XhrOnDone(c, body)
      PROVE  Moves(s, s') /\ opt' = opt
  BY <1>8, XhrOnDoneMoves DEF XhrOnDone, Step
<1>9. ASSUME NEW body \in Body, JqueryOnSuccess(c, body)
      PROVE  Moves(s, s') /\ opt' = opt
  BY <1>9, JqueryMoves DEF JqueryOnSuccess, Step
<1>10. ASSUME NEW body \in Body \ {"empty"}, WsOnMessage(c, body) \/ SseOnMessage(c, body)
       PROVE  Moves(s, s') /\ opt' = opt
  BY <1>10, MessageMoves DEF WsOnMessage, SseOnMessage, Step
<1>11. ASSUME NEW body \in Body \ {"empty"}, XdrOnProgress(c, body)
       PROVE  Moves(s, s') /\ opt' = opt
  BY <1>11, XdrMoves DEF XdrOnProgress, Step
<1>12. ASSUME NEW body \in Body \ {"empty"}, FrameOnData(c, body)
       PROVE  Moves(s, s') /\ opt' = opt
  BY <1>12, FrameMoves DEF FrameOnData, Step
<1>13. ASSUME NEW body \in Body \ {"empty"}, NEW long \in BOOLEAN, XhrOnProgress(c, body, long)
       PROVE  Moves(s, s') /\ opt' = opt
  BY <1>13, XhrOnProgressMoves DEF XhrOnProgress, Step
<1>14. CASE XdrOnError(c) \/ XdrOnLoad(c)
  BY <1>14, XdrMoves DEF XdrOnError, XdrOnLoad, Step
<1>15. CASE FrameOnComplete(c) \/ FrameOnFailure(c)
  BY <1>15, FrameMoves DEF FrameOnComplete, FrameOnFailure, Step
<1>16. CASE PushOnDone(c)
  BY <1>16, PushOnDoneMoves DEF PushOnDone, Step
<1> QED
  BY <1>1, <1>2, <1>3, <1>4, <1>5, <1>6, <1>7, <1>8, <1>9, <1>10, <1>11, <1>12, <1>13, <1>14,
     <1>15, <1>16 DEF Event

LEMMA NextMoves ==
  ASSUME Fit(s), Named(s), Next
  PROVE  Moves(s, s') /\ opt' = opt
<1>1. CASE \E c \in Slots : Event(c)
  BY <1>1, EventMoves
<1>2. CASE \E x \in s.timers : OnTimer(x)
  BY <1>2, OnTimerMoves DEF OnTimer, Step
<1>3. CASE Unsubscribe
  BY <1>3, UnsubscribeMoves DEF Unsubscribe, Step
<1>4. CASE Publish
  BY <1>4, PublishMoves DEF Publish, Step
<1> QED
  BY <1>1, <1>2, <1>3, <1>4 DEF Next

LEMMA InitInv ==
  ASSUME Init
  PROVE  Inv
<1>1. opt \in Options /\ s = Execute(Fresh)
  BY DEF Init
<1>2. /\ Sub(Fresh) /\ Fresh.timers = {} /\ Fresh.conns = [c \in Slots |-> Idle]
      /\ Fresh.transport = opt.transport /\ Fresh.fallback = opt.fallback
      /\ Dropped(Fresh)
  BY DEF Fresh, Sub, Fields, Dropped
<1>3. /\ Idle.kind = "none" /\ Idle.st = "none"
      /\ DOMAIN Idle = {"kind", "st", "opened", "marked", "mute"}
  BY DEF Idle
<1>4. Table(Fresh) /\ Kinds(Fresh)
  BY <1>2, <1>3 DEF Table, Kinds, KindFits
<1>5. Handles(Fresh) /\ Pending(Fresh) /\ Order(Fresh)
  BY <1>1, <1>2, OptionTypes DEF Dropped, Handles, Pending, Order, Sockets
<1>6. Fit(Fresh) /\ Clear(Fresh)
  BY <1>1, <1>2, <1>4, <1>5 DEF Fit, Clear
<1>7. Quiet(Fresh)
  BY <1>2, <1>3 DEF Quiet, Conns, Waits
<1>8. Opens(Fresh, s)
  BY <1>1, <1>6, ExecuteKeeps
<1> QED
  BY <1>6, <1>7, <1>8 DEF Inv, Opens, Kept, Single

LEMMA MovesInv ==
  ASSUME Inv, Moves(s, s'), opt' = opt
  PROVE  Inv'
<1>1. Fit(s') /\ Named(s') /\ Single(s')
  BY DEF Inv, Moves
<1>2. Fit(s)'
  <2>1. Sub(s)' /\ Table(s)'
    BY <1>1 DEF Fit, Sub, Table
  <2>2. Kinds(s)'
    BY <1>1 DEF Fit, Kinds, KindFits, Requests, Sockets
  <2>3. Handles(s)'
    BY <1>1 DEF Fit, Handles, Requests, Sockets
  <2>4. Pending(s)'
    BY <1>1 DEF Fit, Pending, TimerFits, Requests, Sockets
  <2>5. Order(s)'
    BY <1>1 DEF Fit, Order, Sockets
  <2> QED
    BY <1>1, <2>1, <2>2, <2>3, <2>4, <2>5 DEF Fit
<1>3. Named(s)'
  BY <1>1 DEF Named, Forgets
<1>4. Single(s)'
  BY <1>1 DEF Single, One, Conns, Waits
<1> QED
  BY <1>2, <1>3, <1>4 DEF Inv

LEMMA InvAlways == Spec => []Inv
<1>1. Init => Inv
  BY InitInv
<1>2. ASSUME Inv, [Next]_vars PROVE Inv'
  <2>1. CASE Next
    BY <1>2, <2>1, NextMoves, MovesInv DEF Inv
  <2>2. CASE UNCHANGED vars
    <3>1. s' = s /\ opt' = opt
      BY <2>2 DEF vars
    <3>2. Moves(s, s')
      BY <1>2, <3>1 DEF Inv, Moves
    <3> QED
      BY <1>2, <3>1, <3>2, MovesInv
  <2> QED
    BY <1>2, <2>1, <2>2
<1> QED
  BY <1>1, <1>2, PTL DEF Spec

-----------------------------------------------------------------------------
(* The theorems.                                                             *)

\* request.id names every timer that is set, whichever transports the page asks
\* for and the browser has: clearing it leaves none behind to reconnect or to
\* close the connection later.
THEOREM TimerIsNamed == Spec => []OneTimer
<1>1. Inv => OneTimer
  BY DEF Inv, Named, Forgets, OneTimer
<1> QED
  BY <1>1, InvAlways, PTL

\* A subscription has one connection at a time, and no timer that is to open a
\* second one, however its timers, failures, fallbacks and reconnections
\* interleave.
THEOREM ConnectionIsOne == Spec => []OneConnection
<1>1. ASSUME Inv PROVE OneConnection
  <2>1. SUFFICES ASSUME ~s.cut, ~(opt.pushes /\ opt.transport = "websocket")
                 PROVE  Cardinality(Live) <= 1
    BY DEF OneConnection
  <2>2. Live \subseteq Conns(s)
    BY DEF Live, Conns
  <2>3. \A c, d \in Live : c = d
    BY <1>1, <2>1, <2>2 DEF Inv, Single, One
  <2>4. CASE Live = {}
    BY <2>4, FS_EmptySet
  <2>5. CASE Live # {}
    <3>1. PICK c : c \in Live
      BY <2>5
    <3>2. Live = {c}
      BY <2>3, <3>1
    <3>3. Cardinality({c}) = 1
      BY FS_Singleton
    <3> QED
      BY <3>2, <3>3
  <2> QED
    BY <2>4, <2>5
<1> QED
  BY <1>1, InvAlways, PTL
=============================================================================
