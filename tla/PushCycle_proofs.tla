-------------------------- MODULE PushCycle_proofs --------------------------
(***************************************************************************)
(* What holds in PushCycle for every set of components, pushers and        *)
(* requests, whatever the constants: proofs checked by TLAPS.              *)
(***************************************************************************)
EXTENDS PushCycle, TLAPS

LEMMA MessageTypes ==
  ASSUME TypeOK
  PROVE  /\ NoMessage \in Message
         /\ Bare("error") \in Message
         /\ RenderedUpdates \in Message
         /\ RenderedPage \in Message
<1> USE PushCycleAssumption
<1>1. NoUpdates \in [Comps -> Versions]
  BY DEF NoUpdates, Versions
<1>2. \A k \in {"none", "updates", "reload", "page", "error"} : Bare(k) \in Message
  BY <1>1 DEF Bare, Message
<1>3. [c \in Comps |-> IF c \in toReload THEN value[c] ELSE pending[c]] \in [Comps -> Versions]
  BY DEF TypeOK, ServerOK, ManagerOK, Versions
<1>4. value \in [Comps -> Versions]
  BY DEF TypeOK, ServerOK, ManagerOK, Versions
<1>5. RenderedUpdates \in Message
  BY <1>2, <1>3 DEF TypeOK, ManagerOK, RenderedUpdates, Message
<1>6. RenderedPage \in Message
  BY <1>4 DEF TypeOK, ServerOK, RenderedPage, Message
<1> QED
  BY <1>2, <1>5, <1>6 DEF NoMessage

LEMMA RequestTypes ==
  /\ PageRequest \in Request
  /\ \A q \in Request : [q EXCEPT !.abandoned = TRUE] \in Request
BY DEF PageRequest, Request

LEMMA TouchTypes ==
  ASSUME TypeOK, NEW cs \in SUBSET Comps, Touch(cs)
  PROVE  /\ value' \in [Comps -> 1 .. MaxVersion]
         /\ pending' \in [Comps -> Versions]
         /\ toReload' \subseteq Comps
BY PushCycleAssumption DEF TypeOK, ServerOK, ManagerOK, Touch, Changing, Versions

LEMMA EffectsTypes ==
  ASSUME NEW cs \in SUBSET Listeners
  PROVE  EffectsOf(cs) \in SUBSET Comps
BY PushCycleAssumption DEF EffectsOf

LEMMA ClearTypes ==
  ASSUME Clear
  PROVE  /\ pending' \in [Comps -> Versions]
         /\ toReload' \subseteq Comps
         /\ frameFull' \in BOOLEAN
         /\ epochUpdate' \in Nat
         /\ updateMode' \in BOOLEAN
         /\ acceptChanges' \in BOOLEAN
<1>1. pending' \in [Comps -> Versions] /\ epochUpdate' \in Nat
  BY PushCycleAssumption DEF Clear, NoUpdates, Versions
<1>2. toReload' \subseteq Comps /\ frameFull' \in BOOLEAN
  BY DEF Clear
<1>3. updateMode' \in BOOLEAN /\ acceptChanges' \in BOOLEAN
  BY DEF Clear
<1> QED
  BY <1>1, <1>2, <1>3

LEMMA InvalidateTypes ==
  ASSUME TypeOK, InvalidateFrames
  PROVE  epoch' \in Nat /\ epochUpdate' \in Nat /\ acceptChanges' \in BOOLEAN
<1>1. epoch' \in Nat
  BY DEF TypeOK, ServerOK, ManagerOK, InvalidateFrames
<1>2. epochUpdate' \in Nat
  BY DEF TypeOK, ServerOK, ManagerOK, InvalidateFrames
<1>3. acceptChanges' \in BOOLEAN
  BY DEF InvalidateFrames
<1> QED
  BY <1>1, <1>2, <1>3

LEMMA ApplyTypes ==
  ASSUME TypeOK, NEW m \in Message, Apply(m)
  PROVE  /\ shown' \in [Comps -> Versions]
         /\ seenEpoch' \in Nat
         /\ page' \in {"live", "reloading", "loading"}
BY DEF TypeOK, ClientOK, Apply, Message

LEMMA TypeInit == Init => TypeOK
<1> SUFFICES ASSUME Init PROVE TypeOK
  OBVIOUS
<1> USE PushCycleAssumption
<1>1. NoUpdates \in [Comps -> Versions] /\ NoMessage \in Message
  BY DEF NoUpdates, Versions, NoMessage, Bare, Message
<1>2. PageRequest \in Request
  BY RequestTypes
<1>3. /\ value \in [Comps -> 1 .. MaxVersion]
      /\ shown \in [Comps -> Versions]
      /\ pending \in [Comps -> Versions]
  BY <1>1 DEF Init, Versions
<1>4. /\ pc \in [Threads -> PusherAt \cup RequestAt]
      /\ bound \in [Threads -> BOOLEAN]
      /\ armed \in [Threads -> SUBSET Listeners]
      /\ changed \in [Threads -> SUBSET Comps]
  BY DEF Init, PusherAt
<1>5. /\ msg \in [Threads -> Message]
      /\ outbox \in Message
      /\ wire \in Seq(Message)
      /\ req \in [Requests -> Request]
  BY <1>1, <1>2 DEF Init
<1> QED
  BY <1>3, <1>4, <1>5
     DEF Init, TypeOK, ServerOK, ManagerOK, ThreadsOK, TransportOK, ClientOK, HistoryOK

\* What the state without the history becomes.
SystemOK == ServerOK /\ ManagerOK /\ ThreadsOK /\ TransportOK /\ ClientOK

LEMMA SystemStep == TypeOK /\ Step => SystemOK'
<1> SUFFICES ASSUME TypeOK, Step PROVE SystemOK'
  OBVIOUS
<1> USE PushCycleAssumption DEF TypeOK, ServerOK, ManagerOK, ThreadsOK, TransportOK,
        ClientOK, SystemOK, Threads, PusherAt, RequestAt, Goto,
        server, manager, threads, transport, client
<1>1. ASSUME NEW p \in Pushers, Begin(p) PROVE SystemOK'
  BY <1>1 DEF Begin, Attach
<1>2. ASSUME NEW p \in Pushers, Push(p) PROVE SystemOK'
  BY <1>2, TouchTypes, EffectsTypes DEF Push, Changing
<1>3. ASSUME NEW p \in Pushers, FormEvents(p) PROVE SystemOK'
  <2>1. DirtyComponents \cap Listeners \in SUBSET Listeners
    OBVIOUS
  <2>2. ServerOK' /\ ManagerOK'
    BY <1>3, <2>1, TouchTypes, EffectsTypes DEF FormEvents
  <2>3. ThreadsOK'
    BY <1>3, <2>1 DEF FormEvents
  <2> QED
    BY <1>3, <2>2, <2>3 DEF FormEvents
<1>4. ASSUME NEW p \in Pushers, Invalidate(p) PROVE SystemOK'
  BY <1>4, InvalidateTypes DEF Invalidate
<1>5. ASSUME NEW p \in Pushers, Render(p) PROVE SystemOK'
  BY <1>5, MessageTypes DEF Render
<1>6. ASSUME NEW p \in Pushers, Broadcast(p) PROVE SystemOK'
  BY <1>6 DEF Broadcast
<1>7. ASSUME NEW p \in Pushers, NoBroadcaster(p) PROVE SystemOK'
  BY <1>7, MessageTypes DEF NoBroadcaster, Leave
<1>8. ASSUME NEW p \in Pushers, Abort(p) \/ NoUpdateMessage(p) PROVE SystemOK'
  <2>1. /\ Leave(p)
        /\ UNCHANGED <<server, manager, servlet, armed, req, transport, client>>
    BY <1>8 DEF Abort, NoUpdateMessage
  <2> QED
    BY <2>1, MessageTypes DEF Leave
<1>9. ASSUME NEW p \in Pushers, Await(p) PROVE SystemOK'
  BY <1>9 DEF Await
<1>10. ASSUME NEW p \in Pushers, Finish(p) PROVE SystemOK'
  BY <1>10, ClearTypes, MessageTypes DEF Finish, Leave
<1>11. ASSUME NEW r \in Requests, Lookup(r) PROVE SystemOK'
  BY <1>11 DEF Lookup
<1>12. ASSUME NEW r \in Requests, Enter(r) PROVE SystemOK'
  BY <1>12 DEF Enter
<1>13. ASSUME NEW r \in Requests, Dispatch(r) PROVE SystemOK'
  <2>1. req[r].target \in SUBSET Listeners
    BY DEF Request
  <2>2. EffectsOf(req[r].target) \in SUBSET Comps
    BY <2>1, EffectsTypes
  <2>3. Changing(EffectsOf(req[r].target)) \in SUBSET Comps
    BY <2>2 DEF Changing
  <2>4. ServerOK' /\ ManagerOK'
    BY <1>13, <2>2, TouchTypes DEF Dispatch
  <2>5. ThreadsOK'
    BY <1>13, <2>1, <2>3 DEF Dispatch
  <2> QED
    BY <1>13, <2>4, <2>5 DEF Dispatch
<1>14. ASSUME NEW r \in Requests, RunInClientRequestCycle(r) PROVE SystemOK'
  <2>1. req[r].target \in SUBSET Listeners
    BY DEF Request
  <2>2. EffectsOf(req[r].target) \in SUBSET Comps
    BY <2>1, EffectsTypes
  <2>3. Changing(EffectsOf(req[r].target)) \in SUBSET Comps
    BY <2>2 DEF Changing
  <2>4. ServerOK' /\ ManagerOK'
    BY <1>14, <2>2, TouchTypes DEF RunInClientRequestCycle
  <2>5. ThreadsOK'
    BY <1>14, <2>1, <2>3 DEF RunInClientRequestCycle
  <2> QED
    BY <1>14, <2>4, <2>5 DEF RunInClientRequestCycle
<1>15. ASSUME NEW r \in Requests, RefuseStale(r) PROVE SystemOK'
  BY <1>15 DEF RefuseStale
<1>16. ASSUME NEW r \in Requests, InvalidateRequest(r) PROVE SystemOK'
  BY <1>16, InvalidateTypes DEF InvalidateRequest
<1>17. ASSUME NEW r \in Requests, Deliver(r) PROVE SystemOK'
  BY <1>17, MessageTypes DEF Deliver
<1>18. ASSUME NEW r \in Requests, Fail(r) PROVE SystemOK'
  BY <1>18, MessageTypes DEF Fail
<1>19. ASSUME NEW r \in Requests, FinishRequest(r) PROVE SystemOK'
  BY <1>19, ClearTypes, MessageTypes DEF FinishRequest
<1>20. ASSUME NEW r \in Requests, SendPage(r) PROVE SystemOK'
  BY <1>20, RequestTypes DEF SendPage
<1>21. ASSUME NEW r \in Requests, OnAnswer(r) PROVE SystemOK'
  BY <1>21, ApplyTypes, MessageTypes, RequestTypes DEF OnAnswer
<1>22. ASSUME NEW r \in Requests, OnPage(r) PROVE SystemOK'
  <2>1. req' \in [Requests -> Request]
    BY <1>22, RequestTypes DEF OnPage
  <2> QED
    BY <1>22, <2>1, ApplyTypes, MessageTypes DEF OnPage
<1>23. ASSUME NEW r \in Requests, NEW c \in Listeners, SendEvent(r, c) PROVE SystemOK'
  BY <1>23 DEF SendEvent, Request
<1>24. CASE Write
  BY <1>24, MessageTypes DEF Write
<1>25. CASE Connect
  BY <1>25 DEF Connect
<1>26. CASE Disconnect
  BY <1>26 DEF Disconnect
<1>27. CASE OnMessage
  BY <1>27, ApplyTypes DEF OnMessage
<1>28. CASE Remove
  <2>1. ServerOK' /\ ManagerOK' /\ ClientOK'
    BY <1>28 DEF Remove
  <2>2. ThreadsOK'
    BY <1>28 DEF Remove
  <2>3. TransportOK'
    BY <1>28 DEF Remove
  <2> QED
    BY <2>1, <2>2, <2>3
<1> QED
  BY <1>1, <1>2, <1>3, <1>4, <1>5, <1>6, <1>7, <1>8, <1>9, <1>10, <1>11, <1>12, <1>13,
     <1>14, <1>15, <1>16, <1>17, <1>18, <1>19, <1>20, <1>21, <1>22, <1>23, <1>24, <1>25,
     <1>26, <1>27, <1>28
     DEF Step, Pusher, RequestThread, Browser

LEMMA TypeStep == TypeOK /\ [Next]_vars => TypeOK'
<1> SUFFICES ASSUME TypeOK, [Next]_vars PROVE TypeOK'
  OBVIOUS
<1>1. CASE Next
  <2>1. SystemOK'
    BY <1>1, SystemStep DEF Next
  <2>2. HistoryOK'
    BY <1>1 DEF Next, Record, HistoryOK
  <2> QED
    BY <2>1, <2>2 DEF SystemOK, TypeOK
<1>2. CASE UNCHANGED vars
  BY <1>2
     DEF vars, system, server, manager, threads, transport, client, history, TypeOK, ServerOK,
         ManagerOK, ThreadsOK, TransportOK, ClientOK, HistoryOK
<1> QED
  BY <1>1, <1>2

\* Every variable keeps its type (wingS session, push threads, requests, browser).
THEOREM TypeCorrect == Spec => []TypeOK
<1>1. TypeOK /\ [Next]_vars => TypeOK'
  BY TypeStep
<1> QED
  BY TypeInit, <1>1, PTL DEF Spec

-----------------------------------------------------------------------------
(* Pushes leave in order.  The messages on their way carry versions that     *)
(* exist; until a cycle hands its message over, everything still recorded    *)
(* is newer than all of them, and so is the message just rendered.           *)

Sent == {wire[i] : i \in 1 .. Len(wire)} \cup {outbox}
HandedOver == \E p \in Pushers : pc[p] \in {"await", "clear"}

Exclusive == \A p \in Pushers : pc[p] # "idle" => lock = p
OutboxOwned == outbox # NoMessage => \E p \in Pushers : pc[p] = "await"
VersionsExist ==
  \A c \in Comps : /\ pending[c] <= value[c]
                   /\ \A m \in Sent : m.upd[c] <= value[c]
                   /\ \A p \in Pushers : msg[p].upd[c] <= value[c]
RecordedIsNewer ==
  ~HandedOver => \A c \in Comps, m \in Sent :
    /\ pending[c] > 0 => m.upd[c] < pending[c]
    /\ c \in toReload => m.upd[c] < value[c]
RenderedIsNewer ==
  \A p \in Pushers : pc[p] = "broadcast" => \A m \in Sent : Newer(msg[p], m)

OrderInv == Exclusive /\ OutboxOwned /\ VersionsExist /\ RecordedIsNewer
              /\ RenderedIsNewer /\ PushesInOrder

LEMMA SentTypes == TypeOK => Sent \subseteq Message /\ Len(wire) \in Nat
BY DEF TypeOK, TransportOK, Sent

LEMMA OrderInit == Init => OrderInv
<1> SUFFICES ASSUME Init PROVE OrderInv
  OBVIOUS
<1> USE PushCycleAssumption
<1>1. Sent = {NoMessage}
  BY DEF Init, Sent
<1>2. \A c \in Comps : NoMessage.upd[c] = 0
  BY DEF NoMessage, Bare, NoUpdates
<1>3. VersionsExist
  BY <1>1, <1>2 DEF Init, VersionsExist, Threads, NoUpdates
<1>4. Exclusive /\ OutboxOwned /\ RenderedIsNewer
  BY DEF Init, Exclusive, OutboxOwned, RenderedIsNewer, Threads
<1>5. RecordedIsNewer
  BY DEF Init, RecordedIsNewer, NoUpdates
<1>6. PushesInOrder
  BY DEF Init, PushesInOrder
<1> QED
  BY <1>3, <1>4, <1>5, <1>6 DEF OrderInv

\* A state change gives a component a version newer than any message's.
LEMMA TouchOrder ==
  ASSUME TypeOK, VersionsExist, RecordedIsNewer, NEW cs \in SUBSET Comps, Touch(cs),
         Sent' = Sent, msg' = msg, HandedOver => HandedOver'
  PROVE  VersionsExist' /\ RecordedIsNewer'
<1> USE PushCycleAssumption, SentTypes DEF TypeOK, ServerOK, ManagerOK, ThreadsOK, Threads
<1>1. \A c \in Comps : value[c] <= value'[c] /\ value[c] \in Nat /\ value'[c] \in Nat
  BY DEF Touch, Changing
<1>2. \A m \in Sent, c \in Comps : m.upd[c] \in Nat
  BY DEF Message, Versions
<1>3. \A p \in Pushers, c \in Comps : msg[p].upd[c] \in Nat
  BY DEF Message, Versions
<1>4. \A c \in Comps : pending'[c] <= value'[c]
  BY <1>1 DEF Touch, Changing, VersionsExist, Versions
<1>5. VersionsExist'
  BY <1>1, <1>2, <1>3, <1>4 DEF VersionsExist
<1>6. ASSUME ~HandedOver, NEW c \in Comps, NEW m \in Sent
      PROVE  /\ pending'[c] > 0 => m.upd[c] < pending'[c]
             /\ c \in toReload' => m.upd[c] < value'[c]
  <2>1. /\ m.upd[c] <= value[c]
        /\ pending[c] > 0 => m.upd[c] < pending[c]
        /\ c \in toReload => m.upd[c] < value[c]
    BY <1>6 DEF VersionsExist, RecordedIsNewer
  <2>2. CASE c \in Changing(cs)
    BY <1>1, <1>2, <2>1, <2>2 DEF Touch
  <2>3. CASE c \notin Changing(cs)
    BY <1>1, <1>2, <2>1, <2>3 DEF Touch
  <2> QED
    BY <2>2, <2>3
<1> QED
  BY <1>5, <1>6 DEF RecordedIsNewer

\* Emptying the manager leaves nothing that could be older.
LEMMA ClearOrder ==
  ASSUME TypeOK, VersionsExist, Clear, value' = value, Sent' \subseteq Sent,
         \A p \in Pushers : msg'[p] \in {msg[p], NoMessage}
  PROVE  VersionsExist' /\ RecordedIsNewer'
<1> USE PushCycleAssumption DEF TypeOK, ServerOK
<1>1. \A c \in Comps : pending'[c] = 0 /\ value[c] \in Nat /\ NoMessage.upd[c] = 0
  BY DEF Clear, NoUpdates, NoMessage, Bare
<1>2. toReload' = {}
  BY DEF Clear
<1>3. VersionsExist'
  BY <1>1 DEF VersionsExist
<1> QED
  BY <1>1, <1>2, <1>3 DEF RecordedIsNewer

\* What a push thread renders is newer than everything sent before.
LEMMA RenderOrder ==
  ASSUME TypeOK, VersionsExist, RecordedIsNewer, ~HandedOver
  PROVE  /\ \A c \in Comps : RenderedUpdates.upd[c] <= value[c]
         /\ \A m \in Sent : Newer(RenderedUpdates, m)
<1> USE PushCycleAssumption DEF TypeOK, ServerOK, ManagerOK
<1>1. CASE ReloadRequired
  BY <1>1 DEF RenderedUpdates, Bare, NoUpdates, Newer
<1>2. CASE ~ReloadRequired
  <2>1. RenderedUpdates.upd
          = [c \in Comps |-> IF c \in toReload THEN value[c] ELSE pending[c]]
    BY <1>2 DEF RenderedUpdates
  <2> QED
    BY <2>1 DEF VersionsExist, RecordedIsNewer, Newer
<1> QED
  BY <1>1, <1>2

\* Nothing that the invariant speaks of changes.
LEMMA OrderFrame ==
  ASSUME OrderInv, UNCHANGED <<value, pending, toReload, outbox, wire, lock>>,
         \A p \in Pushers : pc'[p] = pc[p] /\ msg'[p] = msg[p]
  PROVE  OrderInv'
<1>1. Sent' = Sent /\ HandedOver' = HandedOver
  BY DEF Sent, HandedOver
<1>2. Exclusive' /\ OutboxOwned' /\ VersionsExist' /\ RecordedIsNewer'
  BY <1>1 DEF OrderInv, Exclusive, OutboxOwned, VersionsExist, RecordedIsNewer
<1>3. RenderedIsNewer' /\ PushesInOrder'
  BY <1>1 DEF OrderInv, RenderedIsNewer, PushesInOrder, Newer
<1> QED
  BY <1>2, <1>3 DEF OrderInv

\* A push thread moves on inside its critical section.
LEMMA OrderPusherMoves ==
  ASSUME TypeOK, OrderInv, NEW p \in Pushers,
         pc[p] \notin {"idle", "await", "clear"}, lock' = lock, transport' = transport,
         \E at \in {"push", "form", "invalidate", "render"} : Goto(p, at),
         msg' = msg, VersionsExist' /\ RecordedIsNewer'
  PROVE  OrderInv'
<1> USE DEF TypeOK, ThreadsOK, Threads, Goto
<1>1. \A q \in Pushers : q # p => pc'[q] = pc[q]
  OBVIOUS
<1>2. Exclusive' /\ OutboxOwned'
  BY <1>1 DEF OrderInv, Exclusive, OutboxOwned, transport
<1>3. RenderedIsNewer' /\ PushesInOrder'
  BY <1>1 DEF OrderInv, RenderedIsNewer, PushesInOrder, Newer, Sent, transport
<1> QED
  BY <1>2, <1>3 DEF OrderInv

\* A push thread leaves without having handed a message over.
LEMMA OrderPusherLeaves ==
  ASSUME TypeOK, OrderInv, NEW p \in Pushers, Leave(p), pc[p] # "idle",
         pc[p] \notin {"await", "clear"}, server' = server, manager' = manager,
         transport' = transport
  PROVE  OrderInv'
<1> USE DEF TypeOK, ThreadsOK, Threads, Goto, Leave
<1>1. \A q \in Pushers : q # p => pc[q] = "idle" /\ pc'[q] = "idle"
  BY DEF OrderInv, Exclusive
<1>2. pc'[p] = "idle" /\ ~HandedOver
  BY <1>1 DEF HandedOver
<1>3. Sent' = Sent
  BY DEF Sent, transport
<1>4. Exclusive' /\ OutboxOwned' /\ RenderedIsNewer'
  BY <1>1, <1>2 DEF OrderInv, Exclusive, OutboxOwned, RenderedIsNewer, HandedOver, transport
<1>5. \A c \in Comps : NoMessage.upd[c] <= value[c]
  BY PushCycleAssumption DEF NoMessage, Bare, NoUpdates, ServerOK
<1>6. VersionsExist' /\ RecordedIsNewer'
  BY <1>2, <1>3, <1>5
     DEF OrderInv, VersionsExist, RecordedIsNewer, server, manager
<1>7. PushesInOrder'
  BY DEF OrderInv, PushesInOrder, Newer, transport
<1> QED
  BY <1>4, <1>6, <1>7 DEF OrderInv

LEMMA OrderPusher ==
  ASSUME TypeOK, OrderInv, NEW p \in Pushers, Pusher(p)
  PROVE  OrderInv'
<1> USE DEF TypeOK, ThreadsOK, Threads, Goto
<1>a. HandedOver => ~(pc[p] \in {"push", "form", "invalidate", "render", "broadcast"})
  BY DEF OrderInv, Exclusive, HandedOver
<1>1. CASE Begin(p)
  <2>1. \A q \in Pushers : pc[q] = "idle"
    BY <1>1, PushCycleAssumption DEF Begin, Attach, OrderInv, Exclusive
  <2>2. ~HandedOver /\ ~HandedOver'
    BY <1>1, <2>1 DEF HandedOver, Begin, Attach
  <2>3. Sent' = Sent
    BY <1>1 DEF Begin, Attach, Sent, transport
  <2>4. Exclusive' /\ OutboxOwned' /\ RenderedIsNewer'
    BY <1>1, <2>1 DEF Begin, Attach, OrderInv, Exclusive, OutboxOwned, RenderedIsNewer, transport
  <2>5. VersionsExist' /\ RecordedIsNewer' /\ PushesInOrder'
    BY <1>1, <2>2, <2>3
       DEF Begin, Attach, OrderInv, VersionsExist, RecordedIsNewer, PushesInOrder, Newer,
           server, transport
  <2> QED
    BY <2>4, <2>5 DEF OrderInv
<1>2. CASE Push(p)
  <2>1. PICK cs \in SUBSET Comps : Touch(cs)
    BY <1>2, PushCycleAssumption DEF Push
  <2>2. Sent' = Sent /\ ~HandedOver /\ ~HandedOver'
    BY <1>2, <1>a DEF Push, Sent, HandedOver, transport
  <2>3. VersionsExist' /\ RecordedIsNewer'
    BY <1>2, <2>1, <2>2, TouchOrder DEF Push, OrderInv
  <2> QED
    BY <1>2, <2>3, OrderPusherMoves DEF Push
<1>3. CASE FormEvents(p)
  <2>1. PICK cs \in SUBSET Comps : Touch(cs)
    BY <1>3, EffectsTypes DEF FormEvents
  <2>2. Sent' = Sent /\ ~HandedOver /\ ~HandedOver'
    BY <1>3, <1>a DEF FormEvents, Sent, HandedOver, transport
  <2>3. VersionsExist' /\ RecordedIsNewer'
    BY <1>3, <2>1, <2>2, TouchOrder DEF FormEvents, OrderInv
  <2> QED
    BY <1>3, <2>3, OrderPusherMoves DEF FormEvents
<1>4. CASE Invalidate(p)
  <2>1. Sent' = Sent /\ ~HandedOver /\ ~HandedOver'
    BY <1>4, <1>a DEF Invalidate, Sent, HandedOver, transport
  <2>2. VersionsExist' /\ RecordedIsNewer'
    BY <1>4, <2>1 DEF Invalidate, OrderInv, VersionsExist, RecordedIsNewer
  <2> QED
    BY <1>4, <2>2, OrderPusherMoves DEF Invalidate
<1>5. CASE Render(p)
  <2>1. ~HandedOver
    BY <1>5, <1>a DEF Render
  <2>2. /\ \A c \in Comps : RenderedUpdates.upd[c] <= value[c]
        /\ \A m \in Sent : Newer(RenderedUpdates, m)
    BY <2>1, RenderOrder DEF OrderInv
  <2>3. msg'[p] = RenderedUpdates /\ \A q \in Pushers : q # p => msg'[q] = msg[q]
    BY <1>5 DEF Render
  <2>4. \A q \in Pushers : pc'[q] = "broadcast" => q = p
    BY <1>5 DEF Render, OrderInv, Exclusive
  <2>5. Sent' = Sent /\ ~HandedOver'
    BY <1>5, <2>1 DEF Render, Sent, HandedOver, transport
  <2>6. RenderedIsNewer' /\ VersionsExist'
    BY <1>5, <2>2, <2>3, <2>4, <2>5
       DEF Render, RenderedIsNewer, OrderInv, VersionsExist, Newer, server, manager
  <2>7. Exclusive' /\ OutboxOwned' /\ RecordedIsNewer' /\ PushesInOrder'
    BY <1>5, <2>1, <2>5
       DEF Render, OrderInv, Exclusive, OutboxOwned, RecordedIsNewer, PushesInOrder, Newer,
           server, manager, transport
  <2> QED
    BY <2>6, <2>7 DEF OrderInv
<1>6. CASE Broadcast(p)
  <2>1. outbox = NoMessage
    BY <1>6, <1>a DEF Broadcast, OrderInv, OutboxOwned, HandedOver
  <2>2. HandedOver'
    BY <1>6 DEF Broadcast, HandedOver
  <2>3. Sent' \subseteq Sent \cup {msg[p]}
    BY <1>6 DEF Broadcast, Sent
  <2>4. Exclusive' /\ OutboxOwned' /\ RenderedIsNewer'
    BY <1>6 DEF Broadcast, OrderInv, Exclusive, OutboxOwned, RenderedIsNewer
  <2>5. VersionsExist' /\ RecordedIsNewer'
    BY <1>6, <2>2, <2>3 DEF Broadcast, OrderInv, VersionsExist, RecordedIsNewer, server, manager
  <2>6. \A i \in 1 .. Len(wire) : Newer(msg[p], wire[i])
    BY <1>6 DEF Broadcast, OrderInv, RenderedIsNewer, Sent
  <2>7. PushesInOrder'
    BY <1>6, <2>6 DEF Broadcast, OrderInv, PushesInOrder, Newer
  <2> QED
    BY <2>4, <2>5, <2>7 DEF OrderInv
<1>7. CASE NoBroadcaster(p) \/ NoUpdateMessage(p)
  BY <1>7, OrderPusherLeaves DEF NoBroadcaster, NoUpdateMessage
<1>8. CASE Abort(p)
  BY <1>8, OrderPusherLeaves DEF Abort, Thrown
<1>9. CASE Await(p)
  <2>1. HandedOver' /\ Sent' = Sent
    BY <1>9 DEF Await, HandedOver, Sent, transport
  <2>2. Exclusive' /\ OutboxOwned' /\ RenderedIsNewer' /\ PushesInOrder'
    BY <1>9, <2>1
       DEF Await, OrderInv, Exclusive, OutboxOwned, RenderedIsNewer, PushesInOrder, Newer,
           transport
  <2>3. VersionsExist' /\ RecordedIsNewer'
    BY <1>9, <2>1 DEF Await, OrderInv, VersionsExist, RecordedIsNewer, server, manager
  <2> QED
    BY <2>2, <2>3 DEF OrderInv
<1>10. CASE Finish(p)
  <2>1. Sent' = Sent /\ \A q \in Pushers : msg'[q] \in {msg[q], NoMessage}
    BY <1>10 DEF Finish, Leave, Sent, transport
  <2>2. VersionsExist' /\ RecordedIsNewer'
    BY <1>10, <2>1, ClearOrder DEF Finish, OrderInv, server
  <2>3. \A q \in Pushers : q # p => pc[q] = "idle"
    BY <1>10 DEF Finish, OrderInv, Exclusive
  <2>4. outbox = NoMessage
    BY <1>10, <2>3 DEF Finish, OrderInv, OutboxOwned
  <2>5. Exclusive' /\ OutboxOwned' /\ RenderedIsNewer' /\ PushesInOrder'
    BY <1>10, <2>3, <2>4
       DEF Finish, Leave, OrderInv, Exclusive, OutboxOwned, RenderedIsNewer, PushesInOrder,
           Newer, transport
  <2> QED
    BY <2>2, <2>5 DEF OrderInv
<1> QED
  BY <1>1, <1>2, <1>3, <1>4, <1>5, <1>6, <1>7, <1>8, <1>9, <1>10 DEF Pusher

LEMMA OrderRequest ==
  ASSUME TypeOK, OrderInv, NEW r \in Requests,
         \/ RequestThread(r) \/ SendPage(r) \/ OnAnswer(r) \/ OnPage(r)
         \/ \E c \in Listeners : SendEvent(r, c)
  PROVE  OrderInv'
<1> USE PushCycleAssumption DEF TypeOK, ThreadsOK, Threads, Goto, Request
<1>1. ASSUME \/ Lookup(r) \/ Enter(r) \/ RefuseStale(r) \/ InvalidateRequest(r)
             \/ Deliver(r) \/ Fail(r) \/ SendPage(r)
             \/ OnAnswer(r) \/ \E c \in Listeners : SendEvent(r, c)
      PROVE  OrderInv'
  <2>1. \A p \in Pushers : pc'[p] = pc[p] /\ msg'[p] = msg[p]
    BY <1>1 DEF Lookup, Enter, RefuseStale, InvalidateRequest, Deliver, Fail, SendPage,
                OnAnswer, SendEvent
  <2>2. UNCHANGED <<value, pending, toReload, outbox, wire, lock>>
    BY <1>1 DEF Lookup, Enter, RefuseStale, InvalidateRequest, Deliver, Fail, SendPage,
                OnAnswer, SendEvent, server, manager, transport
  <2> QED
    BY <2>1, <2>2, OrderFrame
<1>2. ASSUME Dispatch(r) \/ RunInClientRequestCycle(r) PROVE OrderInv'
  <2>1. PICK cs \in SUBSET Comps : Touch(cs)
    BY <1>2, EffectsTypes DEF Dispatch, RunInClientRequestCycle
  <2>2. \A p \in Pushers : pc'[p] = pc[p]
    BY <1>2 DEF Dispatch, RunInClientRequestCycle
  <2>3. Sent' = Sent /\ (HandedOver => HandedOver') /\ msg' = msg /\ lock' = lock
    BY <1>2, <2>2 DEF Dispatch, RunInClientRequestCycle, Sent, HandedOver, transport
  <2>4. VersionsExist' /\ RecordedIsNewer'
    BY <2>1, <2>3, TouchOrder DEF OrderInv
  <2>5. outbox' = outbox /\ wire' = wire
    BY <1>2 DEF Dispatch, RunInClientRequestCycle, transport
  <2>6. Exclusive' /\ OutboxOwned' /\ RenderedIsNewer' /\ PushesInOrder'
    BY <2>2, <2>3, <2>5
       DEF OrderInv, Exclusive, OutboxOwned, RenderedIsNewer, PushesInOrder, Newer
  <2> QED
    BY <2>4, <2>6 DEF OrderInv
<1>3. CASE FinishRequest(r)
  <2>1. /\ \A p \in Pushers : pc'[p] = pc[p]
        /\ msg' = msg /\ lock' = lock /\ value' = value
        /\ outbox' = outbox /\ wire' = wire
    BY <1>3 DEF FinishRequest, transport, server
  <2>2. Sent' = Sent
    BY <2>1 DEF Sent
  <2>3. VersionsExist' /\ RecordedIsNewer'
    BY <1>3, <2>1, <2>2, ClearOrder DEF FinishRequest, OrderInv
  <2>4. Exclusive' /\ OutboxOwned' /\ RenderedIsNewer' /\ PushesInOrder'
    BY <2>1, <2>2
       DEF OrderInv, Exclusive, OutboxOwned, RenderedIsNewer, PushesInOrder, Newer
  <2> QED
    BY <2>3, <2>4 DEF OrderInv
<1>4. CASE OnPage(r)
  <2>1. /\ \A p \in Pushers : pc'[p] = pc[p] /\ msg'[p] = msg[p]
        /\ lock' = lock /\ value' = value /\ pending' = pending /\ toReload' = toReload
        /\ outbox' = outbox /\ wire' = <<>>
    BY <1>4 DEF OnPage, server, manager
  <2>2. Sent' \subseteq Sent
    BY <2>1 DEF Sent
  <2>3. Exclusive' /\ OutboxOwned' /\ VersionsExist' /\ RecordedIsNewer'
    BY <2>1, <2>2
       DEF OrderInv, Exclusive, OutboxOwned, VersionsExist, RecordedIsNewer, HandedOver
  <2>4. RenderedIsNewer' /\ PushesInOrder'
    BY <2>1, <2>2 DEF OrderInv, RenderedIsNewer, PushesInOrder, Newer
  <2> QED
    BY <2>3, <2>4 DEF OrderInv
<1> QED
  BY <1>1, <1>2, <1>3, <1>4 DEF RequestThread

\* The connection only loses messages, or takes the one in the outbox as its last.
LEMMA OrderTransport ==
  ASSUME TypeOK, OrderInv, Write \/ Connect \/ Disconnect \/ Remove \/ OnMessage
  PROVE  OrderInv'
<1> USE PushCycleAssumption DEF TypeOK, ThreadsOK, TransportOK, Threads
<1>1. /\ pc' = pc /\ msg' = msg /\ lock' = lock
      /\ value' = value /\ pending' = pending /\ toReload' = toReload
  BY DEF Write, Connect, Disconnect, Remove, OnMessage, server, manager, threads
<1>2. \A c \in Comps : NoMessage.upd[c] = 0 /\ value[c] \in Nat /\ pending[c] \in Nat
  BY DEF NoMessage, Bare, NoUpdates, ServerOK, ManagerOK, Versions
<1>3. ASSUME Sent' \subseteq Sent \cup {NoMessage}, outbox' \in {outbox, NoMessage}
      PROVE  Exclusive' /\ OutboxOwned' /\ VersionsExist' /\ RecordedIsNewer' /\ RenderedIsNewer'
  <2>1. Exclusive' /\ OutboxOwned'
    BY <1>1, <1>3 DEF OrderInv, Exclusive, OutboxOwned
  <2>2. VersionsExist'
    BY <1>1, <1>2, <1>3 DEF OrderInv, VersionsExist
  <2>3. RecordedIsNewer'
    <3> SUFFICES ASSUME ~HandedOver', NEW c \in Comps, NEW m \in Sent'
                 PROVE  /\ pending[c] > 0 => m.upd[c] < pending[c]
                        /\ c \in toReload => m.upd[c] < value[c]
      BY <1>1 DEF RecordedIsNewer
    <3>1. ~HandedOver
      BY <1>1 DEF HandedOver
    <3>2. CASE m \in Sent
      BY <3>1, <3>2 DEF OrderInv, RecordedIsNewer
    <3>3. CASE m = NoMessage
      BY <1>2, <3>3 DEF ServerOK
    <3> QED
      BY <1>3, <3>2, <3>3
  <2>4. RenderedIsNewer'
    BY <1>1, <1>2, <1>3 DEF OrderInv, RenderedIsNewer, Newer
  <2> QED
    BY <2>1, <2>2, <2>3, <2>4
<1>4. CASE Write
  <2>1. CASE channel = "open"
    <3>1. outbox' = NoMessage /\ wire' = Append(wire, outbox)
      BY <1>4, <2>1 DEF Write
    <3>2. /\ Len(wire') = Len(wire) + 1 /\ Len(wire) \in Nat
          /\ wire'[Len(wire) + 1] = outbox
          /\ \A i \in 1 .. Len(wire) : wire'[i] = wire[i]
      BY <3>1
    <3>3. Sent' \subseteq Sent \cup {NoMessage}
      BY <3>1, <3>2 DEF Sent
    <3>4. PushesInOrder'
      BY <1>2, <3>1, <3>2 DEF OrderInv, PushesInOrder, Newer
    <3> QED
      BY <1>3, <3>1, <3>3, <3>4 DEF OrderInv
  <2>2. CASE channel # "open"
    <3>1. outbox' = NoMessage /\ wire' = wire
      BY <1>4, <2>2 DEF Write
    <3>2. Sent' \subseteq Sent \cup {NoMessage}
      BY <3>1 DEF Sent
    <3>3. PushesInOrder'
      BY <1>2, <3>1 DEF OrderInv, PushesInOrder, Newer
    <3> QED
      BY <1>3, <3>1, <3>2, <3>3 DEF OrderInv
  <2> QED
    BY <2>1, <2>2
<1>5. CASE Connect \/ Remove
  <2>1. outbox' = outbox /\ wire' = wire
    BY <1>5 DEF Connect, Remove
  <2>2. Sent' \subseteq Sent \cup {NoMessage} /\ PushesInOrder'
    BY <2>1 DEF Sent, OrderInv, PushesInOrder, Newer
  <2> QED
    BY <1>3, <2>1, <2>2 DEF OrderInv
<1>6. CASE Disconnect
  <2>1. outbox' = outbox /\ wire' = <<>>
    BY <1>6 DEF Disconnect
  <2>2. Sent' \subseteq Sent \cup {NoMessage} /\ PushesInOrder'
    BY <2>1 DEF Sent, OrderInv, PushesInOrder, Newer
  <2> QED
    BY <1>3, <2>1, <2>2 DEF OrderInv
<1>7. CASE OnMessage
  <2>1. outbox' = outbox /\ wire' = Tail(wire) /\ wire # <<>>
    BY <1>7 DEF OnMessage
  <2>2. /\ Len(wire') = Len(wire) - 1 /\ Len(wire) \in Nat
        /\ \A i \in 1 .. Len(wire') : wire'[i] = wire[i + 1]
    BY <2>1
  <2>3. Sent' \subseteq Sent \cup {NoMessage}
    BY <2>1, <2>2 DEF Sent
  <2>4. PushesInOrder'
    BY <2>1, <2>2 DEF OrderInv, PushesInOrder, Newer
  <2> QED
    BY <1>3, <2>1, <2>3, <2>4 DEF OrderInv
<1> QED
  BY <1>4, <1>5, <1>6, <1>7

LEMMA OrderStep == TypeOK /\ OrderInv /\ [Next]_vars => OrderInv'
<1> SUFFICES ASSUME TypeOK, OrderInv, [Next]_vars PROVE OrderInv'
  OBVIOUS
<1>1. ASSUME NEW p \in Pushers, Pusher(p) PROVE OrderInv'
  BY <1>1, OrderPusher
<1>2. ASSUME NEW r \in Requests, RequestThread(r) PROVE OrderInv'
  BY <1>2, OrderRequest
<1>3. CASE Write
  BY <1>3, OrderTransport
<1>4. CASE Browser
  BY <1>4, OrderRequest, OrderTransport DEF Browser
<1>5. CASE UNCHANGED vars
  BY <1>5, OrderFrame DEF vars, system, server, manager, threads, transport
<1> QED
  BY <1>1, <1>2, <1>3, <1>4, <1>5 DEF Next, Step

\* Pushes leave in the order of the changes they carry, whatever requests, reloads and
\* lost connections do meanwhile (Pushable.run renders and broadcasts in one critical
\* section of the HTTP session's monitor).
THEOREM PushOrder == Spec => []PushesInOrder
<1>1. OrderInv => PushesInOrder
  BY DEF OrderInv
<1> QED
  BY TypeCorrect, OrderInit, OrderStep, <1>1, PTL DEF Spec

-----------------------------------------------------------------------------
(* Between the cycles.  Whoever works at the same time, a cycle that clears   *)
(* leaves nothing behind, and what is recorded has an owner at work unless a  *)
(* run has failed since.                                                     *)

Fails(p) == NoBroadcaster(p) \/ Abort(p) \/ NoUpdateMessage(p)
Works(p) ==
  \/ Begin(p) \/ Push(p) \/ FormEvents(p) \/ Invalidate(p) \/ Render(p)
  \/ Broadcast(p) \/ Await(p) \/ Finish(p)
BrowserOnly ==
  \/ Write \/ Connect \/ Disconnect \/ Remove \/ OnMessage
  \/ \E r \in Requests : SendPage(r) \/ OnAnswer(r) \/ OnPage(r)
  \/ \E r \in Requests, c \in Listeners : SendEvent(r, c)

LEMMA Steps ==
  ASSUME Step
  PROVE  \/ \E p \in Pushers : Works(p) \/ Fails(p)
         \/ \E r \in Requests : RequestThread(r)
         \/ BrowserOnly
<1>1. ASSUME NEW p \in Pushers, Pusher(p) PROVE Works(p) \/ Fails(p)
  BY <1>1 DEF Pusher, Works, Fails
<1>2. ASSUME Write \/ Browser PROVE BrowserOnly
  BY <1>2 DEF Browser, BrowserOnly
<1> QED
  BY <1>1, <1>2 DEF Step

\* A run that fails leaves from the middle of its cycle, and nothing but the threads
\* notices.
LEMMA FailShape ==
  ASSUME NEW p \in Pushers, Fails(p)
  PROVE  /\ pc[p] \in {"push", "form", "invalidate", "render", "broadcast"}
         /\ Leave(p)
         /\ UNCHANGED <<server, manager, servlet, armed, req, transport, client>>
BY DEF Fails, NoBroadcaster, Abort, NoUpdateMessage, Thrown

LEMMA FailIsRecorded ==
  ASSUME TypeOK, Record, NEW p \in Pushers, Fails(p)
  PROVE  failed' /\ (stuck' \/ met' \/ acceptChanges')
<1>1. pc'[p] = "idle"
  BY FailShape DEF TypeOK, ThreadsOK, Threads, Leave, Goto
<1>2. RunFails
  BY <1>1, FailShape DEF RunFails
<1>3. failed'
  BY <1>2 DEF Record
<1>4. stuck' \/ met' \/ acceptChanges'
  BY <1>2 DEF Record
<1> QED
  BY <1>3, <1>4

\* The browser, the dispatcher and the container do not touch the session's state.
LEMMA BrowserShape ==
  ASSUME TypeOK, BrowserOnly
  PROVE  /\ UNCHANGED <<server, manager, lock, servlet, armed, changed>>
         /\ \A p \in Pushers : pc'[p] = pc[p]
         /\ \A r \in Requests :
              pc'[r] = pc[r] \/ (pc[r] \in {"idle", "answered"} /\ pc'[r] \in {"idle", "lookup"})
<1>1. ASSUME Write \/ Connect \/ Disconnect \/ Remove \/ OnMessage
      PROVE  server' = server /\ manager' = manager /\ threads' = threads
  BY <1>1 DEF Write, Connect, Disconnect, Remove, OnMessage
<1>2. CASE Write \/ Connect \/ Disconnect \/ Remove \/ OnMessage
  <2>1. /\ server' = server /\ manager' = manager /\ lock' = lock /\ servlet' = servlet
        /\ armed' = armed /\ changed' = changed /\ pc' = pc
    BY <1>1, <1>2 DEF threads
  <2> QED
    BY <2>1
<1>3. ASSUME NEW q \in Requests,
             SendPage(q) \/ OnAnswer(q) \/ OnPage(q) \/ \E c \in Listeners : SendEvent(q, c)
      PROVE  /\ server' = server /\ manager' = manager /\ lock' = lock /\ servlet' = servlet
             /\ armed' = armed /\ changed' = changed
             /\ pc[q] \in {"idle", "answered"}
             /\ \E at \in {"idle", "lookup"} : pc' = [pc EXCEPT ![q] = at]
  BY <1>3 DEF SendPage, OnAnswer, OnPage, SendEvent, Goto
<1>4. ASSUME NEW q \in Requests,
             SendPage(q) \/ OnAnswer(q) \/ OnPage(q) \/ \E c \in Listeners : SendEvent(q, c)
      PROVE  /\ UNCHANGED <<server, manager, lock, servlet, armed, changed>>
             /\ \A p \in Pushers : pc'[p] = pc[p]
             /\ \A r \in Requests :
                  pc'[r] = pc[r] \/ (pc[r] \in {"idle", "answered"} /\ pc'[r] \in {"idle", "lookup"})
  <2>1. PICK at \in {"idle", "lookup"} : pc' = [pc EXCEPT ![q] = at]
    BY <1>3, <1>4
  <2>2. \A t \in Threads : pc'[t] = IF t = q THEN at ELSE pc[t]
    BY <2>1 DEF TypeOK, ThreadsOK
  <2>3. \A p \in Pushers : p \in Threads /\ p # q
    BY PushCycleAssumption DEF Threads
  <2>4. \A p \in Pushers : pc'[p] = pc[p]
    BY <2>2, <2>3
  <2>5. \A r \in Requests : r \in Threads
    BY DEF Threads
  <2>6. pc[q] \in {"idle", "answered"}
    BY <1>3, <1>4
  <2>7. \A r \in Requests :
          pc'[r] = pc[r] \/ (pc[r] \in {"idle", "answered"} /\ pc'[r] \in {"idle", "lookup"})
    BY <2>2, <2>5, <2>6
  <2>8. UNCHANGED <<server, manager, lock, servlet, armed, changed>>
    BY <1>3, <1>4
  <2> QED
    BY <2>4, <2>7, <2>8
<1> QED
  BY <1>2, <1>4 DEF BrowserOnly

ServletExclusive ==
  \A r \in Requests : pc[r] \in {"dispatch", "invalidate", "deliver", "clear"} => servlet = r
OwnChanges ==
  \A r \in Requests : pc[r] \notin {"invalidate", "deliver", "clear"} => changed[r] = {}
Owned(c) ==
  \/ \E r \in Requests : c \in changed[r]
  \/ \E p \in Pushers : pc[p] \in {"invalidate", "render", "broadcast", "await", "clear"}
  \/ \E p \in Pushers : pc[p] = "form" /\ c \in changed[p]
DirtyOwned == ~failed => \A c \in DirtyComponents : Owned(c)
CycleInv == ServletExclusive /\ OwnChanges /\ CleanWhenQuiet /\ DirtyOwned

LEMMA CycleInit == Init => CycleInv
<1> SUFFICES ASSUME Init PROVE CycleInv
  OBVIOUS
<1>1. DirtyComponents = {} /\ ~Dirty
  BY DEF Init, DirtyComponents, Dirty, NoUpdates
<1>2. ServletExclusive /\ OwnChanges
  BY DEF Init, ServletExclusive, OwnChanges, Threads
<1>3. CleanWhenQuiet /\ DirtyOwned
  BY <1>1 DEF Init, CleanWhenQuiet, DirtyOwned
<1> QED
  BY <1>2, <1>3 DEF CycleInv

\* After clear() there is nothing to own.
LEMMA ClearCleans ==
  ASSUME Clear
  PROVE  CleanWhenQuiet' /\ DirtyOwned'
<1>1. DirtyComponents' = {} /\ ~Dirty'
  BY DEF Clear, DirtyComponents, Dirty, NoUpdates
<1> QED
  BY <1>1 DEF Clear, CleanWhenQuiet, DirtyOwned

\* A step that does not end a cycle makes the last cycle no better than it was.
LEMMA NotCleared ==
  ASSUME Record, \A t \in Threads : pc[t] = "clear" => pc'[t] = "clear"
  PROVE  failed => failed'
BY DEF Record, Clears

LEMMA TouchDirties ==
  ASSUME TypeOK, NEW cs \in SUBSET Comps, Touch(cs)
  PROVE  DirtyComponents' \subseteq DirtyComponents \cup Changing(cs)
<1>1. \A c \in Comps : pending'[c] = pending[c] \/ c \in Changing(cs)
  BY DEF Touch
<1>2. toReload' \subseteq toReload \cup Changing(cs)
  BY DEF Touch
<1> QED
  BY <1>1, <1>2 DEF DirtyComponents

LEMMA CyclePusher ==
  ASSUME TypeOK, Exclusive, CycleInv, Record, NEW p \in Pushers, Works(p) \/ Fails(p)
  PROVE  CycleInv'
<1> USE PushCycleAssumption DEF TypeOK, ThreadsOK, Threads, Goto
<1>1. /\ servlet' = servlet
      /\ \A t \in Threads \ {p} : pc'[t] = pc[t] /\ changed'[t] = changed[t]
  <2>1. CASE Works(p)
    BY <2>1 DEF Works, Begin, Attach, Push, FormEvents, Invalidate, Render, Broadcast, Await,
                Finish, Leave
  <2>2. CASE Fails(p)
    BY <2>2, FailShape DEF Leave
  <2> QED
    BY <2>1, <2>2
<1>2. p \notin Requests
  OBVIOUS
<1>3. ServletExclusive' /\ OwnChanges'
  BY <1>1, <1>2 DEF CycleInv, ServletExclusive, OwnChanges
<1>4. \A c : (\E r \in Requests : c \in changed[r]) => \E r \in Requests : c \in changed'[r]
  BY <1>1, <1>2
<1>5. ASSUME pc[p] # "clear" PROVE failed => failed'
  BY <1>1, <1>5, NotCleared
<1>6. \A q \in Pushers \ {p} : pc[p] # "idle" => pc[q] = "idle"
  BY DEF Exclusive
<1>7. CASE Fails(p)
  BY <1>3, <1>7, FailIsRecorded DEF CycleInv, CleanWhenQuiet, DirtyOwned
<1>8. CASE Finish(p)
  BY <1>3, <1>8, ClearCleans DEF Finish, CycleInv
<1>9. ASSUME Works(p), ~Finish(p) PROVE CleanWhenQuiet'
  <2>1. lock' = p
    BY <1>9 DEF Works, Begin, Attach, Push, FormEvents, Invalidate, Render, Broadcast, Await,
                Exclusive
  <2> QED
    BY <2>1 DEF CleanWhenQuiet, Quiet
<1>10. CASE Begin(p)
  <2>1. pc[p] = "idle" /\ DirtyComponents' = DirtyComponents
    BY <1>10 DEF Begin, Attach, DirtyComponents
  <2>2. \A q \in Pushers : pc[q] = "idle"
    BY <1>10 DEF Begin, Exclusive
  <2>3. DirtyOwned'
    BY <1>4, <1>5, <2>1, <2>2 DEF CycleInv, DirtyOwned, Owned
  <2> QED
    BY <1>3, <1>9, <1>10, <2>3 DEF CycleInv, Works, Finish, Begin, Attach
<1>11. CASE Push(p)
  <2>1. PICK cs \in SUBSET Comps : Touch(cs) /\ changed'[p] = Changing(cs)
    BY <1>11 DEF Push
  <2>2. pc[p] = "push" /\ pc'[p] \in {"form", "invalidate"}
    BY <1>11 DEF Push
  <2>3. DirtyComponents' \subseteq DirtyComponents \cup changed'[p]
    BY <2>1, TouchDirties
  <2>4. \A c \in changed'[p] : Owned(c)'
    BY <2>2 DEF Owned
  <2>5. ASSUME NEW c, Owned(c) PROVE Owned(c)'
    BY <1>4, <1>6, <2>2, <2>5 DEF Owned
  <2>6. DirtyOwned'
    BY <1>5, <2>2, <2>3, <2>4, <2>5 DEF CycleInv, DirtyOwned
  <2> QED
    BY <1>3, <1>9, <1>11, <2>2, <2>6 DEF CycleInv, Works, Finish
<1>12. CASE FormEvents(p) \/ Invalidate(p) \/ Render(p) \/ Broadcast(p) \/ Await(p)
  <2>1. pc'[p] \in {"invalidate", "render", "broadcast", "await", "clear"}
    BY <1>12 DEF FormEvents, Invalidate, Render, Broadcast, Await
  <2>2. \A c : Owned(c)'
    BY <2>1 DEF Owned
  <2>3. pc[p] # "clear"
    BY <1>12 DEF FormEvents, Invalidate, Render, Broadcast, Await
  <2>4. DirtyOwned'
    BY <2>2 DEF DirtyOwned
  <2> QED
    BY <1>3, <1>9, <1>12, <2>3, <2>4 DEF CycleInv, Works, Finish
<1> QED
  BY <1>7, <1>8, <1>10, <1>11, <1>12 DEF Works

LEMMA CycleRequest ==
  ASSUME TypeOK, CycleInv, Record, NEW r \in Requests, RequestThread(r)
  PROVE  CycleInv'
<1> USE PushCycleAssumption DEF TypeOK, ThreadsOK, Threads, Goto
<1>1. /\ \A t \in Threads \ {r} : pc'[t] = pc[t] /\ changed'[t] = changed[t]
      /\ lock' = lock
  BY DEF RequestThread, Lookup, Enter, Dispatch, RunInClientRequestCycle, RefuseStale,
         InvalidateRequest, Deliver, Fail, FinishRequest
<1>2. r \notin Pushers
  OBVIOUS
<1>3. ASSUME NEW c, \E p \in Pushers :
                      \/ pc[p] \in {"invalidate", "render", "broadcast", "await", "clear"}
                      \/ pc[p] = "form" /\ c \in changed[p]
      PROVE  Owned(c)'
  BY <1>1, <1>2, <1>3 DEF Owned
<1>4. ASSUME pc[r] # "clear" PROVE failed => failed'
  BY <1>1, <1>4, NotCleared
<1>5. CASE Lookup(r)
  <2>1. /\ pc[r] = "lookup" /\ pc'[r] = "enter" /\ servlet' = servlet /\ changed' = changed
        /\ manager' = manager
    BY <1>5 DEF Lookup
  <2>2. DirtyComponents' = DirtyComponents /\ Dirty' = Dirty
    BY <2>1 DEF manager, DirtyComponents, Dirty
  <2>3. ServletExclusive' /\ OwnChanges'
    BY <1>1, <2>1 DEF CycleInv, ServletExclusive, OwnChanges
  <2>4. CleanWhenQuiet'
    BY <1>1, <1>4, <2>1, <2>2 DEF CycleInv, CleanWhenQuiet, Quiet, manager
  <2>5. \A c : Owned(c) => Owned(c)'
    BY <1>1, <1>2, <2>1 DEF Owned
  <2>6. DirtyOwned'
    BY <1>4, <2>1, <2>2, <2>5 DEF CycleInv, DirtyOwned
  <2> QED
    BY <2>3, <2>4, <2>6 DEF CycleInv
<1>6. CASE Enter(r)
  <2>1. /\ pc[r] = "enter" /\ pc'[r] \in {"dispatch", "invalidate"} /\ changed' = changed
        /\ servlet = NoThread /\ servlet' = r /\ UNCHANGED <<pending, toReload>>
    BY <1>6 DEF Enter
  <2>2. DirtyComponents' = DirtyComponents
    BY <2>1 DEF DirtyComponents
  <2>3. ServletExclusive' /\ OwnChanges'
    BY <1>1, <2>1 DEF CycleInv, ServletExclusive, OwnChanges
  <2>4. CleanWhenQuiet'
    BY <2>1 DEF CleanWhenQuiet, Quiet
  <2>5. \A c : Owned(c) => Owned(c)'
    BY <1>1, <1>2, <2>1 DEF Owned
  <2>6. DirtyOwned'
    BY <1>4, <2>1, <2>2, <2>5 DEF CycleInv, DirtyOwned
  <2> QED
    BY <2>3, <2>4, <2>6 DEF CycleInv
<1>7. CASE Dispatch(r) \/ RunInClientRequestCycle(r)
  <2>1. EffectsOf(req[r].target) \in SUBSET Comps
    BY EffectsTypes DEF Request
  <2>2. /\ pc[r] = "dispatch" /\ pc'[r] = "invalidate" /\ servlet' = servlet
        /\ Touch(EffectsOf(req[r].target))
        /\ changed'[r] = Changing(EffectsOf(req[r].target))
    BY <1>7 DEF Dispatch, RunInClientRequestCycle
  <2>3. servlet = r /\ changed[r] = {}
    BY <2>2 DEF CycleInv, ServletExclusive, OwnChanges
  <2>4. DirtyComponents' \subseteq DirtyComponents \cup changed'[r]
    BY <2>1, <2>2, TouchDirties
  <2>5. ServletExclusive' /\ OwnChanges'
    BY <1>1, <2>2, <2>3 DEF CycleInv, ServletExclusive, OwnChanges
  <2>6. CleanWhenQuiet'
    BY <2>2, <2>3 DEF CleanWhenQuiet, Quiet
  <2>7. \A c : Owned(c) => Owned(c)'
    BY <1>1, <1>2, <2>3 DEF Owned
  <2>8. \A c \in changed'[r] : Owned(c)'
    BY DEF Owned
  <2>9. DirtyOwned'
    BY <1>4, <2>2, <2>4, <2>7, <2>8 DEF CycleInv, DirtyOwned
  <2> QED
    BY <2>5, <2>6, <2>9 DEF CycleInv
<1>8. CASE RefuseStale(r) \/ InvalidateRequest(r) \/ Deliver(r) \/ Fail(r)
  <2>1. /\ pc[r] \in {"dispatch", "invalidate", "deliver"}
        /\ pc'[r] \in {"invalidate", "deliver", "clear"}
        /\ UNCHANGED <<servlet, changed, pending, toReload>>
    BY <1>8 DEF RefuseStale, InvalidateRequest, Deliver, Fail, manager
  <2>2. servlet = r /\ DirtyComponents' = DirtyComponents
    BY <2>1 DEF CycleInv, ServletExclusive, DirtyComponents
  <2>3. ServletExclusive' /\ OwnChanges'
    BY <1>1, <2>1, <2>2 DEF CycleInv, ServletExclusive, OwnChanges
  <2>4. CleanWhenQuiet'
    BY <2>1, <2>2 DEF CleanWhenQuiet, Quiet
  <2>5. \A c : Owned(c) => Owned(c)'
    BY <1>1, <1>2, <2>1 DEF Owned
  <2>6. DirtyOwned'
    BY <1>4, <2>1, <2>2, <2>5 DEF CycleInv, DirtyOwned
  <2> QED
    BY <2>3, <2>4, <2>6 DEF CycleInv
<1>9. CASE FinishRequest(r)
  <2>1. /\ pc[r] = "clear" /\ pc'[r] = "answered" /\ servlet' = NoThread /\ changed'[r] = {}
        /\ Clear
    BY <1>9 DEF FinishRequest
  <2>2. servlet = r
    BY <2>1 DEF CycleInv, ServletExclusive
  <2>3. ServletExclusive' /\ OwnChanges'
    BY <1>1, <2>1, <2>2 DEF CycleInv, ServletExclusive, OwnChanges
  <2> QED
    BY <2>1, <2>3, ClearCleans DEF CycleInv
<1> QED
  BY <1>5, <1>6, <1>7, <1>8, <1>9 DEF RequestThread

LEMMA CycleStep == TypeOK /\ Exclusive /\ CycleInv /\ [Next]_vars => CycleInv'
<1> SUFFICES ASSUME TypeOK, Exclusive, CycleInv, [Next]_vars PROVE CycleInv'
  OBVIOUS
<1>1. ASSUME manager' = manager, lock' = lock, servlet' = servlet, changed' = changed,
             failed => failed',
             \A p \in Pushers : pc'[p] = pc[p],
             \A r \in Requests :
               pc'[r] = pc[r] \/ (pc[r] \in {"idle", "answered"} /\ pc'[r] \in {"idle", "lookup"})
      PROVE  CycleInv'
  <2>1. DirtyComponents' = DirtyComponents /\ Dirty' = Dirty
    BY <1>1 DEF manager, DirtyComponents, Dirty
  <2>2. ServletExclusive' /\ OwnChanges'
    BY <1>1 DEF CycleInv, ServletExclusive, OwnChanges
  <2>3. CleanWhenQuiet'
    BY <1>1, <2>1 DEF CycleInv, CleanWhenQuiet, Quiet, manager
  <2>4. \A c : Owned(c) => Owned(c)'
    BY <1>1 DEF Owned
  <2>5. DirtyOwned'
    BY <1>1, <2>1, <2>4 DEF CycleInv, DirtyOwned
  <2> QED
    BY <2>2, <2>3, <2>5 DEF CycleInv
<1>2. CASE UNCHANGED vars
  <2>1. /\ manager' = manager /\ lock' = lock /\ servlet' = servlet /\ changed' = changed
        /\ pc' = pc /\ failed' = failed
    BY <1>2 DEF vars, system, threads, history
  <2> QED
    BY <1>1, <2>1
<1>3. ASSUME BrowserOnly, Record PROVE CycleInv'
  <2>1. \A t \in Threads : pc[t] = "clear" => pc'[t] = "clear"
    BY <1>3, BrowserShape DEF Threads
  <2>2. manager' = manager /\ lock' = lock /\ servlet' = servlet /\ changed' = changed
    BY <1>3, BrowserShape
  <2> QED
    BY <1>1, <1>3, <2>1, <2>2, BrowserShape, NotCleared
<1> QED
  BY <1>2, <1>3, Steps, CyclePusher, CycleRequest DEF Next

\* Everything that holds of all cycles, whoever works at the same time.
LEMMA CycleAlways == Spec => [](TypeOK /\ OrderInv /\ CycleInv)
<1>1. OrderInv => Exclusive
  BY DEF OrderInv
<1> QED
  BY TypeCorrect, OrderInit, OrderStep, CycleInit, CycleStep, <1>1, PTL DEF Spec

\* Whatever requests, broken connections and failures there are: with no thread at work
\* the manager is out of update mode, accepts changes and has nothing recorded, unless the
\* last cycle to end was a run that failed (Pushable.run and SessionServlet.doGet end with
\* ReloadManager.clear()).
THEOREM CleanAfterRuns == Spec => []CleanWhenQuiet
<1>1. CycleInv => CleanWhenQuiet
  BY DEF CycleInv
<1> QED
  BY CycleAlways, <1>1, PTL

\* Whatever happens at the same time: since the last clear() no run has failed, or what a
\* run is about to fire form events for is what its own push() or a request at work has
\* changed (Pushable.runInServerPushThread).
THEOREM ArmsOwnChanges == Spec => []ArmedOnlyByPush
<1>1. ASSUME Exclusive, CycleInv PROVE ArmedOnlyByPush
  <2> SUFFICES ASSUME NEW p \in Pushers, pc[p] = "form", ~failed, NEW c \in DirtyComponents,
                      \A r \in Requests : c \notin changed[r]
               PROVE  c \in changed[p]
    BY DEF ArmedOnlyByPush
  <2>1. Owned(c)
    BY <1>1 DEF CycleInv, DirtyOwned
  <2>2. \A q \in Pushers : pc[q] # "idle" => q = p
    BY <1>1 DEF Exclusive
  <2> QED
    BY <2>1, <2>2 DEF Owned
<1>2. OrderInv => Exclusive
  BY DEF OrderInv
<1> QED
  BY CycleAlways, <1>1, <1>2, PTL

-----------------------------------------------------------------------------
(* Runs of Pushables with no client request between: for any number of       *)
(* pushers and components, whether the page is connected or not, and         *)
(* whatever fails, nothing overtakes; and nothing is lost but what a run     *)
(* that failed after refusing changes, or a message without a page, loses.   *)

NobodyElse == servlet = NoThread /\ ~met /\ ~frameFull /\ toReload = {}
Collects(p) == pc[p] # "idle" => updateMode
Accepts ==
  ~stuck => /\ lock = NoThread => acceptChanges
            /\ \A p \in Pushers : pc[p] \in {"push", "form", "invalidate"} => acceptChanges
SectionInv == NobodyElse /\ Accepts /\ \A p \in Pushers : Collects(p)

(* What the page shows is older than everything on its way to it.            *)
ShownIsOlder ==
  \A c \in Comps :
    /\ shown[c] <= value[c]
    /\ \A m \in Sent : m.upd[c] > 0 => shown[c] < m.upd[c]
    /\ ~HandedOver /\ pending[c] > 0 => shown[c] < pending[c]
    /\ \A p \in Pushers : pc[p] = "broadcast" /\ msg[p].upd[c] > 0
                            => shown[c] < msg[p].upd[c]

(* The newest version of a component is shown, on its way, or recorded; a    *)
(* run clears the records only when the connection has them.                 *)
NewestSomewhere ==
  stuck \/ missed \/ \A c \in Comps : \/ shown[c] = value[c]
                                      \/ pending[c] = value[c]
                                      \/ \E m \in Sent : m.upd[c] = value[c]
OnTheWire(p) ==
  \A c \in Comps : \/ shown[c] >= msg[p].upd[c]
                   \/ \E i \in 1 .. Len(wire) : wire[i].upd[c] = msg[p].upd[c]
Carried ==
  \A p \in Pushers :
    /\ pc[p] \in {"broadcast", "await", "clear"} => msg[p].upd = pending
    /\ pc[p] = "await" => missed \/ outbox = msg[p] \/ OnTheWire(p)
    /\ pc[p] = "clear" => missed \/ OnTheWire(p)
ArrivalInv == NewestSomewhere /\ Carried

-----------------------------------------------------------------------------
Connection == Write \/ Connect \/ Disconnect \/ Remove \/ OnMessage

LEMMA StepsAlone ==
  ASSUME Requests = {}, NobodyElse, [Next]_vars
  PROVE  /\ ~met' /\ (stuck => stuck') /\ (missed => missed')
         /\ \/ Record /\ \E p \in Pushers : Works(p) \/ Fails(p)
            \/ Record /\ Connection
            \/ UNCHANGED vars
<1>1. CASE Next
  <2>1. ~met'
    BY <1>1 DEF Next, Record, Meeting, NobodyElse
  <2>2. (stuck => stuck') /\ (missed => missed')
    BY <1>1, <2>1 DEF Next, Record
  <2>3. (\E p \in Pushers : Works(p) \/ Fails(p)) \/ Connection
    BY <1>1, Steps DEF Next, BrowserOnly, Connection
  <2> QED
    BY <1>1, <2>1, <2>2, <2>3 DEF Next
<1>2. CASE UNCHANGED vars
  BY <1>2 DEF vars, history, NobodyElse
<1> QED
  BY <1>1, <1>2

LEMMA ConnectionShape ==
  ASSUME Connection
  PROVE  /\ server' = server /\ manager' = manager /\ threads' = threads
         /\ value' = value /\ pending' = pending /\ pc' = pc /\ msg' = msg
<1>1. server' = server /\ manager' = manager /\ threads' = threads
  BY DEF Connection, Write, Connect, Disconnect, Remove, OnMessage
<1> QED
  BY <1>1 DEF server, manager, threads

LEMMA SectionInit == Init => SectionInv
<1> SUFFICES ASSUME Init PROVE SectionInv
  OBVIOUS
<1>1. \A p \in Pushers : pc[p] = "idle"
  BY DEF Init, Threads
<1> QED
  BY <1>1 DEF Init, SectionInv, NobodyElse, Collects, Accepts

\* In update mode a change is recorded as an update, or dropped.
LEMMA TouchRecords ==
  ASSUME TypeOK, updateMode, NEW cs \in SUBSET Comps, Touch(cs)
  PROVE  /\ toReload' = toReload
         /\ \A c \in Comps :
              /\ value[c] <= value'[c] /\ value'[c] \in Nat
              /\ pending'[c] = pending[c] \/ pending'[c] = value[c] + 1
              /\ acceptChanges => \/ value'[c] = value[c] /\ pending'[c] = pending[c]
                                  \/ pending'[c] = value'[c]
BY DEF Touch, TypeOK, ServerOK, ManagerOK, Changing

LEMMA SectionWorks ==
  ASSUME TypeOK, Exclusive, SectionInv, ~met', stuck => stuck', Record,
         NEW p \in Pushers, Works(p) \/ Fails(p)
  PROVE  SectionInv'
<1> USE PushCycleAssumption DEF TypeOK, ThreadsOK, Threads, Goto
<1>1. /\ NobodyElse /\ Accepts
      /\ \A q \in Pushers : Collects(q) /\ (pc[q] # "idle" => lock = q)
  BY DEF SectionInv, Exclusive
<1>2. ASSUME pc[p] # "idle" PROVE lock = p /\ \A q \in Pushers \ {p} : pc[q] = "idle"
  BY <1>1, <1>2
<1>3. ASSUME NobodyElse', Collects(p)', \A q \in Pushers \ {p} : pc'[q] = "idle",
             stuck' \/ acceptChanges' \/ (lock' # NoThread /\ pc'[p] \notin {"push", "form", "invalidate"})
      PROVE  SectionInv'
  BY <1>3 DEF SectionInv, Collects, Accepts
<1>4. CASE Begin(p)
  <2>1. lock = NoThread /\ \A q \in Pushers : pc[q] = "idle"
    BY <1>1, <1>4 DEF Begin
  <2>2. /\ \A q \in Pushers \ {p} : pc'[q] = "idle"
        /\ updateMode'
        /\ UNCHANGED <<toReload, frameFull, acceptChanges, servlet>>
    BY <1>4, <2>1 DEF Begin, Attach
  <2>3. stuck' \/ acceptChanges'
    BY <1>1, <2>1, <2>2 DEF Accepts
  <2>4. NobodyElse' /\ Collects(p)'
    BY <1>1, <2>2 DEF NobodyElse, Collects
  <2> QED
    BY <1>3, <2>2, <2>3, <2>4
<1>5. CASE Push(p) \/ FormEvents(p)
  <2>1. /\ pc[p] \in {"push", "form"} /\ updateMode
        /\ lock = p /\ \A q \in Pushers \ {p} : pc[q] = "idle"
    BY <1>1, <1>2, <1>5 DEF Push, FormEvents, Collects
  <2>2. PICK cs \in SUBSET Comps : Touch(cs)
    BY <1>5, EffectsTypes DEF Push, FormEvents
  <2>3. toReload' = toReload
    BY <2>1, <2>2, TouchRecords
  <2>4. /\ \A q \in Pushers \ {p} : pc'[q] = "idle"
        /\ UNCHANGED <<frameFull, updateMode, acceptChanges, servlet>>
    BY <1>5, <2>1 DEF Push, FormEvents
  <2>5. stuck' \/ acceptChanges'
    BY <1>1, <2>1, <2>4 DEF Accepts
  <2>6. NobodyElse' /\ Collects(p)'
    BY <1>1, <2>1, <2>3, <2>4 DEF NobodyElse, Collects
  <2> QED
    BY <1>3, <2>4, <2>5, <2>6
<1>6. CASE Invalidate(p) \/ Render(p) \/ Broadcast(p) \/ Await(p)
  <2>1. pc[p] # "idle" /\ updateMode /\ lock = p /\ \A q \in Pushers \ {p} : pc[q] = "idle"
    BY <1>1, <1>2, <1>6 DEF Invalidate, Render, Broadcast, Await, Collects
  <2>2. /\ pc'[p] \in {"render", "broadcast", "await", "clear"}
        /\ \A q \in Pushers \ {p} : pc'[q] = "idle"
        /\ UNCHANGED <<toReload, frameFull, updateMode, lock, servlet>>
    BY <1>6, <2>1 DEF Invalidate, Render, Broadcast, Await, manager
  <2>3. NobodyElse' /\ Collects(p)'
    BY <1>1, <2>1, <2>2 DEF NobodyElse, Collects
  <2> QED
    BY <1>3, <2>1, <2>2, <2>3
<1>7. CASE Finish(p)
  <2>1. \A q \in Pushers \ {p} : pc[q] = "idle"
    BY <1>2, <1>7 DEF Finish
  <2>2. \A q \in Pushers : pc'[q] = "idle"
    BY <1>7, <2>1 DEF Finish, Leave
  <2>3. acceptChanges' /\ toReload' = {} /\ frameFull' = FALSE /\ servlet' = servlet
    BY <1>7 DEF Finish, Clear
  <2>4. NobodyElse' /\ Collects(p)'
    BY <1>1, <2>2, <2>3 DEF NobodyElse, Collects
  <2> QED
    BY <1>3, <2>2, <2>3, <2>4
<1>8. CASE Fails(p)
  <2>1. pc[p] # "idle"
    BY <1>8, FailShape
  <2>2. \A q \in Pushers : pc'[q] = "idle"
    BY <1>2, <1>8, <2>1, FailShape DEF Leave
  <2>3. UNCHANGED <<toReload, frameFull, servlet>>
    BY <1>8, FailShape DEF manager
  <2>4. NobodyElse' /\ Collects(p)'
    BY <1>1, <2>2, <2>3 DEF NobodyElse, Collects
  <2>5. stuck' \/ acceptChanges'
    BY <1>8, FailIsRecorded
  <2> QED
    BY <1>3, <2>2, <2>4, <2>5
<1> QED
  BY <1>4, <1>5, <1>6, <1>7, <1>8 DEF Works

LEMMA SectionStep ==
  ASSUME Requests = {}, TypeOK, Exclusive, SectionInv, [Next]_vars
  PROVE  SectionInv'
<1>1. ~met' /\ (stuck => stuck')
  BY StepsAlone DEF SectionInv
<1>2. ASSUME Connection \/ UNCHANGED vars PROVE SectionInv'
  <2>1. manager' = manager /\ threads' = threads
    BY <1>2, ConnectionShape DEF vars, system
  <2> QED
    BY <1>1, <2>1 DEF SectionInv, NobodyElse, Accepts, Collects, manager, threads
<1> QED
  BY <1>1, <1>2, StepsAlone, SectionWorks DEF SectionInv

-----------------------------------------------------------------------------
\* Applying the first message of the connection.
LEMMA AppliesFirst ==
  ASSUME TypeOK, OnMessage
  PROVE  /\ Head(wire) \in Sent /\ Head(wire) = wire[1] /\ Sent' \subseteq Sent
         /\ \A m \in Sent' : Newer(m, Head(wire)) \/ ~PushesInOrder
         /\ Len(wire) \in Nat \ {0} /\ Len(wire') = Len(wire) - 1
         /\ \A i \in 1 .. Len(wire') : wire'[i] = wire[i + 1]
         /\ \A c \in Comps : shown'[c] = IF Head(wire).upd[c] > 0 THEN Head(wire).upd[c]
                                                                   ELSE shown[c]
<1> USE DEF TypeOK, TransportOK
<1>1. wire # <<>> /\ wire' = Tail(wire) /\ Apply(Head(wire)) /\ outbox' = outbox
  BY DEF OnMessage
<1>2. /\ Len(wire) \in Nat \ {0} /\ Head(wire) = wire[1] /\ Len(wire') = Len(wire) - 1
      /\ \A i \in 1 .. Len(wire') : wire'[i] = wire[i + 1]
  BY <1>1
<1>3. Head(wire) \in Sent /\ Sent' \subseteq Sent
  BY <1>1, <1>2 DEF Sent
<1>4. \A m \in Sent' : Newer(m, Head(wire)) \/ ~PushesInOrder
  BY <1>1, <1>2 DEF Sent, PushesInOrder
<1> QED
  BY <1>1, <1>2, <1>3, <1>4 DEF Apply

\* Versions are numbers, and those of a message that updates nothing are 0.
LEMMA Numbers ==
  ASSUME TypeOK
  PROVE  /\ \A c \in Comps : value[c] \in Nat \ {0} /\ shown[c] \in Nat /\ pending[c] \in Nat
         /\ \A c \in Comps : NoMessage.upd[c] = 0
         /\ \A m \in Sent, c \in Comps : m.upd[c] \in Nat
         /\ \A p \in Pushers, c \in Comps : msg[p].upd[c] \in Nat
<1> USE PushCycleAssumption
<1>1. \A m \in Message, c \in Comps : m.upd[c] \in Nat
  BY DEF Message, Versions
<1> QED
  BY <1>1, SentTypes
     DEF TypeOK, ServerOK, ManagerOK, ThreadsOK, ClientOK, Threads, Versions, NoMessage, Bare,
         NoUpdates

LEMMA ShownInit == Init => ShownIsOlder
<1> SUFFICES ASSUME Init PROVE ShownIsOlder
  OBVIOUS
<1>1. \A m \in Sent, c \in Comps : m.upd[c] = 0
  BY DEF Init, Sent, NoMessage, Bare, NoUpdates
<1>2. \A p \in Pushers : pc[p] = "idle"
  BY DEF Init, Threads
<1> QED
  BY <1>1, <1>2 DEF Init, ShownIsOlder, NoUpdates

LEMMA ShownWorks ==
  ASSUME TypeOK, OrderInv, SectionInv, ShownIsOlder, NEW p \in Pushers, Works(p) \/ Fails(p)
  PROVE  ShownIsOlder'
<1> USE DEF TypeOK, ThreadsOK, Threads, Goto
<1>1. \A q \in Pushers : pc[q] # "idle" => lock = q
  BY DEF OrderInv, Exclusive
<1>2. pc[p] \in {"push", "form", "invalidate", "render", "broadcast"} => ~HandedOver
  BY <1>1 DEF HandedOver
<1>3. CASE Push(p) \/ FormEvents(p)
  <2>1. PICK cs \in SUBSET Comps : Touch(cs)
    BY <1>3, EffectsTypes, PushCycleAssumption DEF Push, FormEvents
  <2>2. updateMode /\ ~HandedOver
    BY <1>2, <1>3 DEF Push, FormEvents, SectionInv, Collects
  <2>3. \A c \in Comps : /\ value[c] <= value'[c]
                         /\ pending'[c] = pending[c] \/ pending'[c] = value[c] + 1
    BY <2>1, <2>2, TouchRecords
  <2>4. Sent' = Sent /\ shown' = shown /\ msg' = msg
    BY <1>3 DEF Push, FormEvents, Sent, transport, client
  <2>5. \A q \in Pushers : pc'[q] = "broadcast" => pc[q] = "broadcast"
    BY <1>3 DEF Push, FormEvents
  <2>6. \A c \in Comps : value'[c] \in Nat
    BY <2>1, <2>2, TouchRecords
  <2> QED
    BY <2>2, <2>3, <2>4, <2>5, <2>6, Numbers DEF ShownIsOlder
<1>4. CASE Begin(p) \/ Invalidate(p)
  <2>1. UNCHANGED <<value, pending, shown, msg>> /\ Sent' = Sent
    BY <1>4 DEF Begin, Attach, Invalidate, Sent, transport, client, server
  <2>2. HandedOver => HandedOver'
    BY <1>4 DEF Begin, Attach, Invalidate, HandedOver
  <2>3. \A q \in Pushers : pc'[q] = "broadcast" => pc[q] = "broadcast"
    BY <1>4 DEF Begin, Attach, Invalidate
  <2> QED
    BY <2>1, <2>2, <2>3 DEF ShownIsOlder
<1>5. CASE Render(p)
  <2>1. /\ UNCHANGED <<value, pending, shown>> /\ Sent' = Sent /\ ~HandedOver
        /\ toReload = {} /\ ~frameFull /\ updateMode
    BY <1>2, <1>5
       DEF Render, Sent, transport, client, server, manager, SectionInv, NobodyElse, Collects
  <2>2. \A c \in Comps : msg'[p].upd[c] = pending[c]
    BY <1>5, <2>1 DEF Render, RenderedUpdates, ReloadRequired
  <2>3. \A q \in Pushers : pc'[q] = "broadcast" => q = p
    BY <1>1, <1>5 DEF Render
  <2> QED
    BY <2>1, <2>2, <2>3 DEF ShownIsOlder
<1>6. CASE Broadcast(p)
  <2>1. UNCHANGED <<value, pending, shown, msg>> /\ HandedOver'
    BY <1>6 DEF Broadcast, client, server, manager, HandedOver
  <2>2. Sent' \subseteq Sent \cup {msg[p]} /\ pc[p] = "broadcast"
    BY <1>6 DEF Broadcast, Sent
  <2>3. \A q \in Pushers : pc'[q] = "broadcast" => pc[q] = "broadcast"
    BY <1>6 DEF Broadcast
  <2> QED
    BY <2>1, <2>2, <2>3 DEF ShownIsOlder
<1>7. CASE Await(p)
  <2>1. UNCHANGED <<value, pending, shown, msg>> /\ Sent' = Sent /\ HandedOver'
    BY <1>7 DEF Await, Sent, transport, client, server, manager, HandedOver
  <2>2. \A q \in Pushers : pc'[q] = "broadcast" => pc[q] = "broadcast"
    BY <1>7 DEF Await
  <2> QED
    BY <2>1, <2>2 DEF ShownIsOlder
<1>8. CASE Finish(p)
  <2>1. UNCHANGED <<value, shown>> /\ Sent' = Sent /\ \A c \in Comps : pending'[c] = 0
    BY <1>8 DEF Finish, Clear, NoUpdates, Sent, transport, client, server
  <2>2. \A q \in Pushers : pc'[q] = "idle"
    BY <1>1, <1>8 DEF Finish, Leave
  <2> QED
    BY <2>1, <2>2 DEF ShownIsOlder
<1>9. CASE Fails(p)
  <2>1. UNCHANGED <<value, pending, shown>> /\ Sent' = Sent
    BY <1>9, FailShape DEF Sent, transport, client, server, manager
  <2>2. \A q \in Pushers : pc'[q] = "idle"
    BY <1>1, <1>9, FailShape DEF Leave
  <2>3. ~HandedOver
    BY <1>2, <1>9, FailShape
  <2> QED
    BY <2>1, <2>2, <2>3 DEF ShownIsOlder
<1> QED
  BY <1>3, <1>4, <1>5, <1>6, <1>7, <1>8, <1>9 DEF Works

LEMMA ShownBrowser ==
  ASSUME TypeOK, OrderInv, ShownIsOlder, Connection
  PROVE  ShownIsOlder' /\ \A c \in Comps : shown'[c] >= shown[c]
<1>1. UNCHANGED <<value, pending, msg, pc>> /\ HandedOver' = HandedOver
  BY ConnectionShape DEF HandedOver
<1>2. CASE Write
  <2>1. shown' = shown
    BY <1>2 DEF Write, client
  <2>2. Sent' \subseteq Sent \cup {NoMessage}
    <3>1. wire' = wire \/ wire' = Append(wire, outbox)
      BY <1>2 DEF Write
    <3> QED
      BY <1>2, <3>1 DEF Write, Sent, TypeOK, TransportOK
  <2> QED
    BY <1>1, <2>1, <2>2, Numbers DEF ShownIsOlder
<1>3. CASE OnMessage
  <2> DEFINE first == Head(wire)
  <2>1. /\ first \in Sent /\ Sent' \subseteq Sent
        /\ \A m \in Sent' : Newer(m, first)
        /\ \A c \in Comps : shown'[c] = IF first.upd[c] > 0 THEN first.upd[c] ELSE shown[c]
    BY <1>3, AppliesFirst DEF OrderInv
  <2>2. \A c \in Comps : shown'[c] >= shown[c] /\ shown'[c] <= value[c]
    BY <2>1, Numbers DEF ShownIsOlder, OrderInv, VersionsExist
  <2>3. \A c \in Comps, m \in Sent' : m.upd[c] > 0 => shown'[c] < m.upd[c]
    BY <2>1, Numbers DEF ShownIsOlder, Newer
  <2>4. \A c \in Comps : ~HandedOver /\ pending[c] > 0 => shown'[c] < pending[c]
    BY <2>1, Numbers DEF ShownIsOlder, OrderInv, RecordedIsNewer
  <2>5. \A c \in Comps, p \in Pushers :
          pc[p] = "broadcast" /\ msg[p].upd[c] > 0 => shown'[c] < msg[p].upd[c]
    BY <2>1, Numbers DEF ShownIsOlder, OrderInv, RenderedIsNewer, Newer
  <2> QED
    BY <1>1, <2>2, <2>3, <2>4, <2>5 DEF ShownIsOlder
<1>4. CASE Connect \/ Disconnect \/ Remove
  <2>1. shown' = shown /\ outbox' = outbox /\ (wire' = wire \/ wire' = <<>>)
    BY <1>4 DEF Connect, Disconnect, Remove, client
  <2>2. Sent' \subseteq Sent
    BY <2>1 DEF Sent
  <2> QED
    BY <1>1, <2>1, <2>2, Numbers DEF ShownIsOlder
<1> QED
  BY <1>2, <1>3, <1>4 DEF Connection

LEMMA ShownStep ==
  ASSUME Requests = {}, TypeOK, OrderInv, SectionInv, ShownIsOlder, [Next]_vars
  PROVE  ShownIsOlder' /\ \A c \in Comps : shown'[c] >= shown[c]
<1>1. ASSUME NEW p \in Pushers, Works(p) \/ Fails(p) PROVE shown' = shown
  <2>1. CASE Works(p)
    BY <2>1 DEF Works, Begin, Attach, Push, FormEvents, Invalidate, Render, Broadcast, Await,
                Finish, client
  <2>2. CASE Fails(p)
    BY <2>2, FailShape DEF client
  <2> QED
    BY <1>1, <2>1, <2>2
<1>2. CASE UNCHANGED vars
  BY <1>2, Numbers
     DEF ShownIsOlder, HandedOver, Sent, vars, system, server, manager, threads, transport, client
<1> QED
  BY <1>1, <1>2, StepsAlone, ShownWorks, ShownBrowser, Numbers DEF SectionInv

-----------------------------------------------------------------------------
LEMMA ArrivalInit == Init => ArrivalInv
<1> SUFFICES ASSUME Init PROVE ArrivalInv
  OBVIOUS
<1>1. \A p \in Pushers : pc[p] = "idle"
  BY DEF Init, Threads
<1> QED
  BY <1>1 DEF Init, ArrivalInv, NewestSomewhere, Carried

LEMMA ArrivalWorks ==
  ASSUME TypeOK, OrderInv, SectionInv, ShownIsOlder, ArrivalInv, stuck => stuck',
         missed => missed', NEW p \in Pushers, Works(p) \/ Fails(p)
  PROVE  ArrivalInv'
<1> USE DEF TypeOK, ThreadsOK, Threads, Goto
<1>1. \A q \in Pushers : pc[q] # "idle" => lock = q
  BY DEF OrderInv, Exclusive
<1>2. ASSUME \A q \in Pushers : pc'[q] \notin {"broadcast", "await", "clear"}
      PROVE  Carried'
  BY <1>2 DEF Carried
<1>3. CASE Push(p) \/ FormEvents(p)
  <2>1. PICK cs \in SUBSET Comps : Touch(cs)
    BY <1>3, EffectsTypes, PushCycleAssumption DEF Push, FormEvents
  <2>2. updateMode /\ (stuck \/ acceptChanges)
    BY <1>3 DEF Push, FormEvents, SectionInv, Collects, Accepts
  <2>3. ~stuck => \A c \in Comps : \/ value'[c] = value[c] /\ pending'[c] = pending[c]
                                   \/ pending'[c] = value'[c]
    BY <2>1, <2>2, TouchRecords
  <2>4. Sent' = Sent /\ shown' = shown
    BY <1>3 DEF Push, FormEvents, Sent, transport, client
  <2>5. \A q \in Pushers : pc'[q] \notin {"broadcast", "await", "clear"}
    BY <1>1, <1>3 DEF Push, FormEvents
  <2>6. NewestSomewhere'
    BY <2>3, <2>4 DEF ArrivalInv, NewestSomewhere
  <2> QED
    BY <1>2, <2>5, <2>6 DEF ArrivalInv
<1>4. CASE Begin(p) \/ Invalidate(p)
  <2>1. UNCHANGED <<value, pending, shown, msg>> /\ Sent' = Sent
    BY <1>4 DEF Begin, Attach, Invalidate, Sent, transport, client, server
  <2>2. \A q \in Pushers : pc'[q] \notin {"broadcast", "await", "clear"}
    BY <1>1, <1>4, PushCycleAssumption DEF Begin, Attach, Invalidate
  <2>3. NewestSomewhere'
    BY <2>1 DEF ArrivalInv, NewestSomewhere
  <2> QED
    BY <1>2, <2>2, <2>3 DEF ArrivalInv
<1>5. CASE Render(p)
  <2>1. /\ UNCHANGED <<value, pending, shown>> /\ Sent' = Sent
        /\ toReload = {} /\ ~frameFull /\ updateMode
    BY <1>5 DEF Render, Sent, transport, client, server, manager, SectionInv, NobodyElse, Collects
  <2>2. msg'[p] = RenderedUpdates
    BY <1>5 DEF Render
  <2>3. RenderedUpdates.upd = [c \in Comps |-> pending[c]]
    BY <2>1 DEF RenderedUpdates, ReloadRequired
  <2>4. pending = [c \in Comps |-> pending[c]]
    BY DEF ManagerOK
  <2>5. \A q \in Pushers : pc'[q] # "idle" => q = p /\ pc'[q] = "broadcast"
    BY <1>1, <1>5 DEF Render
  <2>6. Carried'
    BY <2>1, <2>2, <2>3, <2>4, <2>5 DEF Carried
  <2>7. NewestSomewhere'
    BY <2>1 DEF ArrivalInv, NewestSomewhere
  <2> QED
    BY <2>6, <2>7 DEF ArrivalInv
<1>6. CASE Broadcast(p)
  <2>1. UNCHANGED <<value, pending, shown, msg, wire>> /\ outbox' = msg[p]
    BY <1>6 DEF Broadcast, client, server, manager
  <2>2. outbox = NoMessage
    BY <1>1, <1>6 DEF Broadcast, OrderInv, OutboxOwned
  <2>3. \A q \in Pushers : pc'[q] # "idle" => q = p /\ pc'[q] = "await"
    BY <1>1, <1>6 DEF Broadcast
  <2>4. pc[p] = "broadcast"
    BY <1>6 DEF Broadcast
  <2>5. Carried'
    BY <2>1, <2>3, <2>4 DEF ArrivalInv, Carried
  <2>6. \A m \in Sent : m \in Sent' \/ m = NoMessage
    BY <2>1, <2>2 DEF Sent
  <2>7. NewestSomewhere'
    BY <2>1, <2>6, Numbers DEF ArrivalInv, NewestSomewhere
  <2> QED
    BY <2>5, <2>7 DEF ArrivalInv
<1>7. CASE Await(p)
  <2>1. UNCHANGED <<value, pending, shown, msg, wire, outbox>> /\ outbox = NoMessage
    BY <1>7 DEF Await, transport, client, server, manager
  <2>2. pc[p] = "await" /\ pc'[p] = "clear" /\ \A q \in Pushers \ {p} : pc'[q] = "idle"
    BY <1>1, <1>7 DEF Await
  <2>3. missed \/ OnTheWire(p)
    <3>1. CASE outbox = msg[p]
      BY <2>1, <3>1, Numbers DEF OnTheWire
    <3>2. CASE outbox # msg[p]
      BY <2>2, <3>2 DEF ArrivalInv, Carried
    <3> QED
      BY <3>1, <3>2
  <2>4. Carried'
    BY <2>1, <2>2, <2>3 DEF ArrivalInv, Carried, OnTheWire
  <2>5. NewestSomewhere'
    BY <2>1 DEF ArrivalInv, NewestSomewhere, Sent
  <2> QED
    BY <2>4, <2>5 DEF ArrivalInv
<1>8. CASE Finish(p)
  <2>1. UNCHANGED <<value, shown>> /\ Sent' = Sent
    BY <1>8 DEF Finish, Sent, transport, client, server
  <2>2. \A q \in Pushers : pc'[q] = "idle"
    BY <1>1, <1>8 DEF Finish, Leave
  <2>3. (missed \/ OnTheWire(p)) /\ msg[p].upd = pending
    BY <1>8 DEF Finish, ArrivalInv, Carried
  <2>4. \A i \in 1 .. Len(wire) : wire[i] \in Sent
    BY DEF Sent
  <2>5. ASSUME ~missed, NEW c \in Comps, pending[c] = value[c]
        PROVE  shown[c] = value[c] \/ \E m \in Sent : m.upd[c] = value[c]
    BY <2>3, <2>4, <2>5, Numbers DEF OnTheWire, ShownIsOlder
  <2>6. NewestSomewhere'
    BY <2>1, <2>5 DEF ArrivalInv, NewestSomewhere
  <2> QED
    BY <1>2, <2>2, <2>6 DEF ArrivalInv
<1>9. CASE Fails(p)
  <2>1. UNCHANGED <<value, pending, shown>> /\ Sent' = Sent
    BY <1>9, FailShape DEF Sent, transport, client, server, manager
  <2>2. \A q \in Pushers : pc'[q] = "idle"
    BY <1>1, <1>9, FailShape DEF Leave
  <2>3. NewestSomewhere'
    BY <2>1 DEF ArrivalInv, NewestSomewhere
  <2> QED
    BY <1>2, <2>2, <2>3 DEF ArrivalInv
<1> QED
  BY <1>3, <1>4, <1>5, <1>6, <1>7, <1>8, <1>9 DEF Works

LEMMA ArrivalBrowser ==
  ASSUME TypeOK, OrderInv, SectionInv, ShownIsOlder, ArrivalInv, ~met', missed => missed',
         stuck => stuck', Record, Connection
  PROVE  ArrivalInv'
<1>1. UNCHANGED <<value, pending, msg, pc>>
  BY ConnectionShape
<1>a. MessageMisses => missed'
  BY DEF Record
<1>2. ASSUME Write, channel = "open" PROVE ArrivalInv'
  <2>1. outbox' = NoMessage /\ wire' = Append(wire, outbox) /\ shown' = shown
    BY <1>2 DEF Write, client
  <2>2. /\ Len(wire) \in Nat /\ Len(wire') = Len(wire) + 1
        /\ wire'[Len(wire')] = outbox
        /\ \A i \in 1 .. Len(wire) : wire'[i] = wire[i]
    BY <2>1 DEF TypeOK, TransportOK
  <2>3. Sent \subseteq Sent'
    BY <2>1, <2>2 DEF Sent
  <2>4. NewestSomewhere'
    BY <1>1, <2>1, <2>3 DEF ArrivalInv, NewestSomewhere
  <2>5. \A p \in Pushers : OnTheWire(p) \/ outbox = msg[p] => OnTheWire(p)'
    BY <1>1, <2>1, <2>2 DEF OnTheWire
  <2>6. Carried'
    BY <1>1, <2>5 DEF ArrivalInv, Carried
  <2> QED
    BY <2>4, <2>6 DEF ArrivalInv
<1>3. CASE OnMessage
  <2> DEFINE first == Head(wire)
  <2>1. /\ first = wire[1] /\ Len(wire) \in Nat \ {0} /\ Len(wire') = Len(wire) - 1
        /\ \A i \in 1 .. Len(wire') : wire'[i] = wire[i + 1]
        /\ \A c \in Comps : shown'[c] = IF first.upd[c] > 0 THEN first.upd[c] ELSE shown[c]
    BY <1>3, AppliesFirst
  <2>2. \A c \in Comps : shown'[c] >= shown[c] /\ shown'[c] <= value[c]
    BY <1>1, <1>3, ShownBrowser DEF ShownIsOlder
  <2>3. outbox' = outbox
    BY <1>3 DEF OnMessage
  <2>4. \A m \in Sent : m \in Sent' \/ m = first
    <3>1. ASSUME NEW i \in 1 .. Len(wire), i # 1
          PROVE  i - 1 \in 1 .. Len(wire') /\ wire'[i - 1] = wire[i]
      BY <2>1, <3>1
    <3>2. \A i \in 1 .. Len(wire) : wire[i] \in Sent' \/ wire[i] = first
      BY <2>1, <3>1 DEF Sent
    <3>3. outbox \in Sent'
      BY <2>3 DEF Sent
    <3> QED
      BY <3>2, <3>3 DEF Sent
  <2>5. first \in Sent
    BY <1>3, AppliesFirst
  <2>6. NewestSomewhere'
    BY <1>1, <2>1, <2>2, <2>4, <2>5, Numbers DEF ArrivalInv, NewestSomewhere
  <2>7. ASSUME NEW p \in Pushers, OnTheWire(p) PROVE OnTheWire(p)'
    <3> SUFFICES ASSUME NEW c \in Comps
                 PROVE  \/ shown'[c] >= msg[p].upd[c]
                        \/ \E i \in 1 .. Len(wire') : wire'[i].upd[c] = msg[p].upd[c]
      BY <1>1 DEF OnTheWire
    <3>1. CASE shown[c] >= msg[p].upd[c]
      BY <2>1, <2>2, <2>5, <3>1, Numbers
    <3>2. CASE first.upd[c] = msg[p].upd[c]
      BY <2>1, <3>2, Numbers
    <3>3. ASSUME NEW i \in 2 .. Len(wire), wire[i].upd[c] = msg[p].upd[c]
          PROVE  wire'[i - 1].upd[c] = msg[p].upd[c] /\ i - 1 \in 1 .. Len(wire')
      BY <2>1, <3>3
    <3> QED
      BY <2>1, <2>7, <3>1, <3>2, <3>3 DEF OnTheWire
  <2>8. Carried'
    BY <1>1, <2>3, <2>7 DEF ArrivalInv, Carried
  <2> QED
    BY <2>6, <2>8 DEF ArrivalInv
<1>4. ASSUME missed' PROVE ArrivalInv'
  BY <1>1, <1>4 DEF ArrivalInv, NewestSomewhere, Carried
<1>5. ASSUME Write, channel # "open" PROVE missed'
  BY <1>5, <1>a DEF Write, MessageMisses
<1>6. ASSUME Disconnect, wire # <<>> PROVE missed'
  BY <1>6, <1>a DEF Disconnect, MessageMisses
<1>7. ASSUME Connect \/ Remove \/ (Disconnect /\ wire = <<>>) PROVE ArrivalInv'
  <2>1. shown' = shown /\ outbox' = outbox /\ wire' = wire
    BY <1>7 DEF Connect, Remove, Disconnect, client
  <2> QED
    BY <1>1, <2>1 DEF ArrivalInv, NewestSomewhere, Carried, OnTheWire, Sent
<1> QED
  BY <1>2, <1>3, <1>4, <1>5, <1>6, <1>7 DEF Connection

LEMMA ArrivalStep ==
  ASSUME Requests = {}, TypeOK, OrderInv, SectionInv, ShownIsOlder, ArrivalInv, [Next]_vars
  PROVE  ArrivalInv'
<1>1. CASE UNCHANGED vars
  BY <1>1 DEF ArrivalInv, NewestSomewhere, Carried, OnTheWire, Sent, vars, system, server,
              manager, threads, transport, client, history
<1> QED
  BY <1>1, StepsAlone, ArrivalWorks, ArrivalBrowser DEF SectionInv

\* All of it together, as an invariant of the specification.
LEMMA AloneAlways ==
  ASSUME Requests = {}
  PROVE  Spec => [](TypeOK /\ OrderInv /\ SectionInv /\ ShownIsOlder /\ ArrivalInv)
<1>1. OrderInv => Exclusive
  BY DEF OrderInv
<1>2. TypeOK /\ OrderInv /\ SectionInv /\ ShownIsOlder /\ [Next]_vars => ShownIsOlder'
  BY ShownStep
<1> QED
  BY TypeCorrect, OrderInit, OrderStep, SectionInit, SectionStep, ShownInit, ArrivalInit,
     ArrivalStep, <1>1, <1>2, PTL DEF Spec

\* Without requests the page never goes back to an older version of a component, though it
\* evaluates whatever arrives, connections break and runs fail (fbw.serverpush.js).
THEOREM NoWayBack ==
  ASSUME Requests = {}
  PROVE  Spec => NeverRegresses
<1>1. TypeOK /\ OrderInv /\ SectionInv /\ ShownIsOlder /\ [Next]_vars
        => [\A c \in Comps : shown'[c] >= shown[c]]_vars
  BY ShownStep
<1> QED
  BY AloneAlways, <1>1, PTL DEF Spec, NeverRegresses

\* Without requests whatever push() changes reaches the page: until it shows the newest
\* version of a component, that version is recorded or on its way, unless a run has failed
\* after invalidateFrames() or a message has missed the page; the connection may come late
\* or break (Pushable.run).
THEOREM NothingLost ==
  ASSUME Requests = {}
  PROVE  Spec => []NoLostUpdate
<1>1. ArrivalInv => NoLostUpdate
  <2>1. Sent \subseteq InFlight
    BY DEF Sent, InFlight
  <2> QED
    BY <2>1 DEF ArrivalInv, NewestSomewhere, NoLostUpdate, EveryUpdateReaches
<1> QED
  BY AloneAlways, <1>1, PTL

\* Without requests a run releases the monitor of the HTTP session only when the page has
\* its updates or the connection carries them, unless a message has missed the page
\* (Pushable.run waits in get()).
THEOREM UpdatedFirst ==
  ASSUME Requests = {}
  PROVE  Spec => []UpdatedBeforeUnlock
<1>1. ArrivalInv => UpdatedBeforeUnlock
  BY DEF ArrivalInv, Carried, OnTheWire, UpdatedBeforeUnlock
<1> QED
  BY AloneAlways, <1>1, PTL
=============================================================================
