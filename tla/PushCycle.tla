------------------------------ MODULE PushCycle ------------------------------
(***************************************************************************)
(* One wingS session of the application: the Pushables that run in server  *)
(* push threads (fbw.serverpush.Pushable), the client requests served by   *)
(* the wingS SessionServlet, the ReloadManager both of them fill and       *)
(* empty, and the browser page that applies what they send.                *)
(*                                                                         *)
(* A component is abstracted to a version number: every state change of a  *)
(* component gives it the next version.  A partial update carries the      *)
(* version it was created with.  The push channel is reduced to one        *)
(* browser tab here; PushChannel.tla has the broadcaster in detail.        *)
(*                                                                         *)
(* Synchronisation is the code's.  A push thread holds the monitor of the  *)
(* HTTP session for its whole cycle.  A request takes that monitor only    *)
(* while WingServlet looks its SessionServlet up, and is then processed    *)
(* under the monitor of the SessionServlet, which a push thread never      *)
(* takes.                                                                  *)
(***************************************************************************)
EXTENDS Naturals, Sequences

CONSTANTS
  Pushers,        \* threads that run a Pushable, each again and again
  Requests,       \* servlet threads, one outstanding client request each
  NoThread,       \* owner of a free monitor
  Comps,          \* components of the frame
  Listeners,      \* those that are LowLevelEventListeners (buttons, fields)
  Effects,        \* Effects[c]: what the action listener of c changes
  NoEpochCheck,   \* listeners with isEpochCheckEnabled() = FALSE
  Direct,         \* listeners whose action calls run() of a Pushable itself
  PushSet,        \* PushSet[p]: what push() of p changes, when it does
  PreventForm,    \* pushers built with preventFormEvents()
  PreventEpoch,   \* pushers built with preventEpochUpdates()
  FirstChannels,  \* what the push channel may be when the page has been shown
  Lossy,          \* may the browser lose its connection?
  Throws,         \* what may throw: the application, an iteration, the writing
  MaxVersion,     \* bound: a component changes at most up to this version
  MaxWire,        \* bound: messages on the connection before it blocks
  MaxEpoch        \* bound: cycles begin only while the epoch is below it

ASSUME PushCycleAssumption ==
  /\ MaxVersion \in Nat \ {0}
  /\ MaxEpoch \in Nat \ {0}
  /\ MaxWire \in Nat \ {0}
  /\ Lossy \in BOOLEAN
  /\ Throws \subseteq {"application", "iteration", "write"}
  /\ FirstChannels \subseteq {"never", "open"}
  /\ NoThread \notin Pushers \cup Requests
  /\ Pushers \cap Requests = {}
  /\ Listeners \subseteq Comps
  /\ NoEpochCheck \subseteq Listeners
  /\ Direct \subseteq Listeners
  /\ Effects \in [Listeners -> SUBSET Comps]
  /\ PushSet \in [Pushers -> SUBSET Comps]
  /\ PreventForm \subseteq Pushers
  /\ PreventEpoch \subseteq Pushers

VARIABLES
  value,         \* value[c]: current version of c on the server
  pending,       \* ReloadManager: version captured by c's update, 0 if none
  toReload,      \* ReloadManager: componentsToReload
  frameFull,     \* ReloadManager: a full replace of the frame is recorded
  epochUpdate,   \* ReloadManager: epoch carried by the frame's update, or 0
  updateMode,    \* ReloadManager
  acceptChanges, \* ReloadManager
  epoch,         \* event epoch of the frame
  lock,          \* owner of the monitor of the HTTP session
  servlet,       \* owner of the monitor of the SessionServlet
  pc,            \* where each thread is
  bound,         \* is a session attached to the thread (SessionManager)?
  armed,         \* SForm's armed components of the thread
  changed,       \* history: what push(), or an event, changed in the current cycle
  msg,           \* message the thread has rendered
  req,           \* the request a servlet thread works for
  channel,       \* "never": no broadcaster yet, "open", or "away"
  stale,         \* is a resource whose connection has ended still listed?
  lost,          \* has a future been left that nobody will complete?
  outbox,        \* message handed to broadcast() and not dispatched yet
  wire,          \* messages written to the connection, in order
  shown,         \* shown[c]: version the browser displays
  seenEpoch,     \* event epoch the browser sends with its events
  page,          \* "live", or "reloading" / "loading" during a page change
  failed,        \* history: was the last cycle that ended a run without clear()?
  stuck,         \* history: has a run ended so, leaving changes refused?
  missed,        \* history: has a message missed the page?
  met            \* history: have a request and a push been under way at once?

manager == <<pending, toReload, frameFull, epochUpdate, updateMode, acceptChanges>>
server  == <<value, epoch>>
threads == <<lock, servlet, pc, bound, armed, changed, msg, req>>
transport == <<channel, stale, lost, outbox, wire>>
client  == <<shown, seenEpoch, page>>
system  == <<server, manager, threads, transport, client>>
history == <<failed, stuck, missed, met>>
vars == <<system, history>>

Threads == Pushers \cup Requests
Versions == 0 .. MaxVersion
NoUpdates == [c \in Comps |-> 0]
Message == [kind : {"none", "updates", "reload", "page", "error"},
            upd : [Comps -> Versions], epoch : Nat]
Bare(kind) == [kind |-> kind, upd |-> NoUpdates, epoch |-> 0]
NoMessage == Bare("none")
\* A request fetches the page or carries the event of one component.
Request == [kind : {"event", "page"}, target : SUBSET Listeners, epoch : Nat,
            abandoned : BOOLEAN]
PageRequest == [kind |-> "page", target |-> {}, epoch |-> 0, abandoned |-> FALSE]

PusherAt == {"idle", "push", "form", "invalidate", "render", "broadcast",
             "await", "clear"}
RequestAt == {"idle", "lookup", "enter", "dispatch", "invalidate", "deliver",
              "clear", "answered"}

-----------------------------------------------------------------------------
(* The ReloadManager of the session (wingS).                                *)

DirtyComponents == toReload \cup {c \in Comps : pending[c] > 0}
Dirty == DirtyComponents # {} \/ frameFull \/ epochUpdate > 0

\* Components that the bound still lets change; setting an equal value is no
\* state change and records nothing.
Changing(cs) == {c \in cs : value[c] < MaxVersion}

\* State changes of the components cs, as a setter records them: an update
\* with the new version in update mode (dropped when changes are no longer
\* accepted), a component to reload otherwise.
Touch(cs) ==
  LET ch == Changing(cs) IN
  /\ value' = [c \in Comps |-> IF c \in ch THEN value[c] + 1 ELSE value[c]]
  /\ pending' = [c \in Comps |-> IF c \in ch /\ updateMode /\ acceptChanges
                                   THEN value[c] + 1 ELSE pending[c]]
  /\ toReload' = IF updateMode THEN toReload ELSE toReload \cup ch

\* What firing the events of the armed components cs changes.
EffectsOf(cs) == UNION {Effects[c] : c \in cs}

\* invalidateFrames(): a dirty frame gets its next epoch, and an update that
\* tells the browser if updates are collected; later changes are refused.
InvalidateFrames ==
  /\ epoch' = IF Dirty THEN epoch + 1 ELSE epoch
  /\ epochUpdate' = IF Dirty /\ updateMode /\ acceptChanges
                      THEN epoch + 1 ELSE epochUpdate
  /\ acceptChanges' = FALSE

ReloadRequired == ~updateMode \/ frameFull

\* UpdateResource.write(): the recorded updates, or an order to reload.
RenderedUpdates ==
  IF ReloadRequired
    THEN Bare("reload")
    ELSE [kind  |-> "updates",
          upd   |-> [c \in Comps |-> IF c \in toReload THEN value[c] ELSE pending[c]],
          epoch |-> epochUpdate]

RenderedPage == [kind |-> "page", upd |-> value, epoch |-> epoch]

\* Faulty: changes stay refused.
ClearKeepsRefusing ==
  /\ updateMode' = FALSE
  /\ pending' = NoUpdates
  /\ toReload' = {}
  /\ frameFull' = FALSE
  /\ epochUpdate' = 0
  /\ UNCHANGED acceptChanges

\* clear()
Clear ==
  /\ updateMode' = FALSE
  /\ acceptChanges' = TRUE
  /\ pending' = NoUpdates
  /\ toReload' = {}
  /\ frameFull' = FALSE
  /\ epochUpdate' = 0

-----------------------------------------------------------------------------
(* Pushable.run() in a server push thread.                                  *)

Goto(t, at) == pc' = [pc EXCEPT ![t] = at]

\* Attach the session to the thread, switch the manager to update mode.
Attach(p) ==
  /\ pc[p] = "idle" /\ ~bound[p]
  /\ epoch < MaxEpoch \/ ~Dirty
  /\ lock' = p
  /\ bound' = [bound EXCEPT ![p] = TRUE]
  /\ updateMode' = TRUE
  /\ Goto(p, "push")
  /\ UNCHANGED <<server, pending, toReload, frameFull, epochUpdate, acceptChanges,
                 servlet, armed, changed, msg, req, transport, client>>

\* All of that under the monitor of the HTTP session.
Begin(p) == lock = NoThread /\ Attach(p)

\* push(): the application's state changes, if it has any this time.
Push(p) ==
  /\ pc[p] = "push"
  /\ \E cs \in {{}} \cup (IF epoch < MaxEpoch THEN {PushSet[p]} ELSE {}) :
       /\ Touch(cs)
       /\ changed' = [changed EXCEPT ![p] = Changing(cs)]
  /\ Goto(p, IF p \in PreventForm THEN "invalidate" ELSE "form")
  /\ UNCHANGED <<epoch, frameFull, epochUpdate, updateMode, acceptChanges,
                 lock, servlet, bound, armed, msg, req, transport, client>>

\* Arm every dirty component that listens to events, then fire their events.
FormEvents(p) ==
  LET dirty == DirtyComponents \cap Listeners IN
  /\ pc[p] = "form"
  /\ armed' = [armed EXCEPT ![p] = dirty]
  /\ Touch(EffectsOf(dirty))
  /\ Goto(p, "invalidate")
  /\ UNCHANGED <<epoch, frameFull, epochUpdate, updateMode, acceptChanges,
                 lock, servlet, bound, changed, msg, req, transport, client>>

\* notifyCGs() changes nothing; invalidateFrames() unless prevented.
Invalidate(p) ==
  /\ pc[p] = "invalidate"
  /\ IF p \in PreventEpoch
       THEN UNCHANGED <<epoch, epochUpdate, acceptChanges>>
       ELSE InvalidateFrames
  /\ Goto(p, "render")
  /\ UNCHANGED <<value, pending, toReload, frameFull, updateMode, lock, servlet,
                 bound, armed, changed, msg, req, transport, client>>

\* getUpdateMessage()
Render(p) ==
  /\ pc[p] = "render"
  /\ msg' = [msg EXCEPT ![p] = RenderedUpdates]
  /\ Goto(p, "broadcast")
  /\ UNCHANGED <<server, manager, lock, servlet, bound, armed, changed, req,
                 transport, client>>

\* The way out of run() that every path takes: detach the session, release
\* the monitor.
Leave(p) ==
  /\ bound' = [bound EXCEPT ![p] = FALSE]
  /\ lock' = NoThread
  /\ msg' = [msg EXCEPT ![p] = NoMessage]
  /\ changed' = [changed EXCEPT ![p] = {}]
  /\ Goto(p, "idle")

\* Hand the message to the session's broadcaster.
Broadcast(p) ==
  /\ pc[p] = "broadcast"
  /\ channel # "never"
  /\ outbox' = msg[p]
  /\ Goto(p, "await")
  /\ UNCHANGED <<server, manager, lock, servlet, bound, armed, changed, msg, req,
                 channel, stale, lost, wire, client>>

\* There is no broadcaster: the exception leaves the manager as it is.
NoBroadcaster(p) ==
  /\ pc[p] = "broadcast"
  /\ channel = "never"
  /\ Leave(p)
  /\ UNCHANGED <<server, manager, servlet, armed, req, transport, client>>

\* The application throws in push() or in a listener; or an iteration over the
\* manager's collections does, which a request thread changes meanwhile.
Thrown(p) ==
  \/ /\ "application" \in Throws
     /\ pc[p] \in {"push", "form", "invalidate"}
  \/ /\ "iteration" \in Throws /\ servlet # NoThread
     /\ pc[p] \in {"form", "invalidate", "render"}

\* Faulty: the thread dies with the monitor in its hands.
AbortLocked(p) ==
  /\ Thrown(p)
  /\ Goto(p, "idle")
  /\ UNCHANGED <<server, manager, lock, servlet, bound, armed, changed, msg, req,
                 transport, client>>

\* run() logs the exception and ends.
Abort(p) ==
  /\ Thrown(p)
  /\ Leave(p)
  /\ UNCHANGED <<server, manager, servlet, armed, req, transport, client>>

\* getUpdateMessage() returns null, for an IOException or without a frame:
\* nothing is broadcast, nothing cleared.
NoUpdateMessage(p) ==
  /\ pc[p] = "render"
  /\ "write" \in Throws
  /\ Leave(p)
  /\ UNCHANGED <<server, manager, servlet, armed, req, transport, client>>

\* Faulty: nobody waits for the broadcast.
AwaitNothing(p) ==
  /\ pc[p] = "await"
  /\ Goto(p, "clear")
  /\ UNCHANGED <<server, manager, lock, servlet, bound, armed, changed, msg, req,
                 transport, client>>

\* get() returns when the broadcaster is done with the message and has counted
\* every resource.
Await(p) ==
  /\ pc[p] = "await"
  /\ outbox = NoMessage /\ ~lost
  /\ Goto(p, "clear")
  /\ UNCHANGED <<server, manager, lock, servlet, bound, armed, changed, msg, req,
                 transport, client>>

\* Faulty: the manager is not cleared.
FinishUncleared(p) ==
  /\ pc[p] = "clear"
  /\ Leave(p)
  /\ UNCHANGED <<server, manager, servlet, armed, req, transport, client>>

\* clear() and the finally block.
Finish(p) ==
  /\ pc[p] = "clear"
  /\ Clear
  /\ Leave(p)
  /\ UNCHANGED <<server, servlet, armed, req, transport, client>>

Pusher(p) ==
  \/ Begin(p) \/ Push(p) \/ FormEvents(p) \/ Invalidate(p) \/ Render(p)
  \/ NoUpdateMessage(p) \/ Broadcast(p) \/ NoBroadcaster(p) \/ Abort(p)
  \/ Await(p) \/ Finish(p)

-----------------------------------------------------------------------------
(* A client request, from the browser through WingServlet and the           *)
(* SessionServlet and back.                                                  *)

\* The user triggers the listener c; the event carries the page's epoch.
SendEvent(r, c) ==
  /\ page = "live"
  /\ pc[r] = "idle"
  /\ epoch < MaxEpoch
  /\ req' = [req EXCEPT ![r] = [kind |-> "event", target |-> {c}, epoch |-> seenEpoch,
                                abandoned |-> FALSE]]
  /\ Goto(r, "lookup")
  /\ UNCHANGED <<server, manager, lock, servlet, bound, armed, changed, msg,
                 transport, client>>

\* A page that was told to reload requests itself anew.
SendPage(r) ==
  /\ page = "reloading"
  /\ pc[r] = "idle"
  /\ page' = "loading"
  /\ req' = [req EXCEPT ![r] = PageRequest]
  /\ Goto(r, "lookup")
  /\ UNCHANGED <<server, manager, lock, servlet, bound, armed, changed, msg,
                 transport, shown, seenEpoch>>

\* Faulty: the monitor is kept for the request.
LookupKeeps(r) ==
  /\ pc[r] = "lookup"
  /\ lock = NoThread
  /\ lock' = r
  /\ Goto(r, "enter")
  /\ UNCHANGED <<server, manager, servlet, bound, armed, changed, msg, req,
                 transport, client>>

\* WingServlet finds the SessionServlet under the HTTP session's monitor.
Lookup(r) ==
  /\ pc[r] = "lookup"
  /\ lock = NoThread
  /\ Goto(r, "enter")
  /\ UNCHANGED <<server, manager, lock, servlet, bound, armed, changed, msg, req,
                 transport, client>>

\* doGet() is synchronized on the SessionServlet.
Enter(r) ==
  /\ pc[r] = "enter"
  /\ servlet = NoThread
  /\ servlet' = r
  /\ bound' = [bound EXCEPT ![r] = TRUE]
  /\ armed' = [armed EXCEPT ![r] = {}]
  /\ updateMode' = (req[r].kind = "event")
  /\ Goto(r, IF req[r].kind = "event" THEN "dispatch" ELSE "invalidate")
  /\ UNCHANGED <<server, pending, toReload, frameFull, epochUpdate, acceptChanges,
                 lock, changed, msg, req, transport, client>>

Accepted(r) == req[r].target \subseteq NoEpochCheck \/ req[r].epoch = epoch

\* The event reaches its listener, which changes components itself.
Dispatch(r) ==
  /\ pc[r] = "dispatch"
  /\ Accepted(r) /\ req[r].target \cap Direct = {}
  /\ armed' = [armed EXCEPT ![r] = req[r].target]
  /\ Touch(EffectsOf(req[r].target))
  /\ changed' = [changed EXCEPT ![r] = Changing(EffectsOf(req[r].target))]
  /\ Goto(r, "invalidate")
  /\ UNCHANGED <<epoch, frameFull, epochUpdate, updateMode, acceptChanges,
                 lock, servlet, bound, msg, req, transport, client>>

\* The listener calls run() of a Pushable: the thread has a session, so
\* runInClientRequestCycle() only executes push().
RunInClientRequestCycle(r) ==
  /\ pc[r] = "dispatch"
  /\ Accepted(r) /\ req[r].target \cap Direct # {}
  /\ bound[r]
  /\ armed' = [armed EXCEPT ![r] = req[r].target]
  /\ Touch(EffectsOf(req[r].target))
  /\ changed' = [changed EXCEPT ![r] = Changing(EffectsOf(req[r].target))]
  /\ Goto(r, "invalidate")
  /\ UNCHANGED <<epoch, frameFull, epochUpdate, updateMode, acceptChanges,
                 lock, servlet, bound, msg, req, transport, client>>

\* An event of an outdated epoch is refused and makes the frame reload.
RefuseStale(r) ==
  /\ pc[r] = "dispatch"
  /\ ~Accepted(r)
  /\ frameFull' = TRUE
  /\ Goto(r, "invalidate")
  /\ UNCHANGED <<server, pending, toReload, epochUpdate, updateMode, acceptChanges,
                 lock, servlet, bound, armed, changed, msg, req, transport, client>>

InvalidateRequest(r) ==
  /\ pc[r] = "invalidate"
  /\ InvalidateFrames
  /\ Goto(r, "deliver")
  /\ UNCHANGED <<value, pending, toReload, frameFull, updateMode, lock, servlet,
                 bound, armed, changed, msg, req, transport, client>>

Deliver(r) ==
  /\ pc[r] = "deliver"
  /\ msg' = [msg EXCEPT ![r] = IF req[r].kind = "page" THEN RenderedPage
                                                       ELSE RenderedUpdates]
  /\ Goto(r, "clear")
  /\ UNCHANGED <<server, manager, lock, servlet, bound, armed, changed, req,
                 transport, client>>

\* The same race as in Thrown, seen from the request: the exception is
\* answered instead.
Fail(r) ==
  /\ pc[r] \in {"invalidate", "deliver"}
  /\ "iteration" \in Throws /\ lock # NoThread
  /\ msg' = [msg EXCEPT ![r] = Bare("error")]
  /\ Goto(r, "clear")
  /\ UNCHANGED <<server, manager, lock, servlet, bound, armed, changed, req,
                 transport, client>>

\* The finally block of doGet().
FinishRequest(r) ==
  /\ pc[r] = "clear"
  /\ Clear
  /\ servlet' = NoThread
  /\ bound' = [bound EXCEPT ![r] = FALSE]
  /\ armed' = [armed EXCEPT ![r] = {}]
  /\ changed' = [changed EXCEPT ![r] = {}]
  /\ Goto(r, "answered")
  /\ UNCHANGED <<server, lock, msg, req, transport, client>>

RequestThread(r) ==
  \/ Lookup(r) \/ Enter(r) \/ Dispatch(r) \/ RunInClientRequestCycle(r)
  \/ RefuseStale(r) \/ InvalidateRequest(r) \/ Deliver(r) \/ Fail(r)
  \/ FinishRequest(r)

-----------------------------------------------------------------------------
(* The broadcaster's dispatcher thread, the connection, the browser.        *)

\* The dispatcher writes to the connected tab; with no tab the message is
\* dropped.  A resource still listed whose connection has ended is passed over,
\* and the future never gets its count.
Write ==
  /\ outbox # NoMessage
  /\ Len(wire) < MaxWire
  /\ outbox' = NoMessage
  /\ wire' = IF channel = "open" THEN Append(wire, outbox) ELSE wire
  /\ lost' = (lost \/ stale)
  /\ UNCHANGED <<server, manager, threads, channel, stale, client>>

\* fbw.serverpush.js connects when the document is ready; onOpen() creates
\* the broadcaster on the first connection.
Connect ==
  /\ page = "live"
  /\ channel # "open"
  /\ channel' = "open"
  /\ UNCHANGED <<server, manager, threads, stale, lost, outbox, wire, client>>

Disconnect ==
  /\ Lossy
  /\ channel = "open"
  /\ channel' = "away"
  /\ stale' = TRUE
  /\ wire' = <<>>
  /\ UNCHANGED <<server, manager, threads, lost, outbox, client>>

\* The container removes the resource of an ended connection.
Remove ==
  /\ stale
  /\ stale' = FALSE
  /\ UNCHANGED <<server, manager, threads, channel, lost, outbox, wire, client>>

\* Every update of a message is evaluated; an order to reload leaves the page.
Apply(m) ==
  /\ shown' = [c \in Comps |-> IF m.upd[c] > 0 THEN m.upd[c] ELSE shown[c]]
  /\ seenEpoch' = IF m.epoch > 0 THEN m.epoch ELSE seenEpoch
  /\ page' = IF m.kind = "reload" /\ page = "live" THEN "reloading"
             ELSE IF m.kind = "page" THEN "live" ELSE page

OnMessage ==
  /\ wire # <<>>
  /\ Apply(Head(wire))
  /\ wire' = Tail(wire)
  /\ UNCHANGED <<server, manager, threads, channel, stale, lost, outbox>>

\* The answer of an event, unless the page that sent it is gone.
OnAnswer(r) ==
  /\ pc[r] = "answered" /\ req[r].kind = "event"
  /\ Apply(IF req[r].abandoned THEN NoMessage ELSE msg[r])
  /\ msg' = [msg EXCEPT ![r] = NoMessage]
  /\ req' = [req EXCEPT ![r] = PageRequest]
  /\ Goto(r, "idle")
  /\ UNCHANGED <<server, manager, lock, servlet, bound, armed, changed, transport>>

\* A new page replaces the old one, its connection and its open requests.
OnPage(r) ==
  /\ pc[r] = "answered" /\ req[r].kind = "page"
  /\ Apply(msg[r])
  /\ wire' = <<>>
  /\ channel' = IF channel = "never" THEN "never" ELSE "away"
  /\ stale' = (stale \/ channel = "open")
  /\ msg' = [msg EXCEPT ![r] = NoMessage]
  /\ req' = [q \in Requests |-> IF q = r \/ pc[q] = "idle" THEN PageRequest
                                ELSE [req[q] EXCEPT !.abandoned = TRUE]]
  /\ Goto(r, "idle")
  /\ UNCHANGED <<server, manager, lock, servlet, bound, armed, changed, lost, outbox>>

-----------------------------------------------------------------------------
\* The session exists, its first page has been delivered, and no thread works
\* for it yet.
Init ==
  /\ value = [c \in Comps |-> 1]
  /\ pending = NoUpdates
  /\ toReload = {}
  /\ frameFull = FALSE
  /\ epochUpdate = 0
  /\ updateMode = FALSE
  /\ acceptChanges = TRUE
  /\ epoch = 1
  /\ lock = NoThread
  /\ servlet = NoThread
  /\ pc = [t \in Threads |-> "idle"]
  /\ bound = [t \in Threads |-> FALSE]
  /\ armed = [t \in Threads |-> {}]
  /\ changed = [t \in Threads |-> {}]
  /\ msg = [t \in Threads |-> NoMessage]
  /\ req = [r \in Requests |-> PageRequest]
  /\ channel \in FirstChannels
  /\ stale = FALSE
  /\ lost = FALSE
  /\ outbox = NoMessage
  /\ wire = <<>>
  /\ shown = [c \in Comps |-> 1]
  /\ seenEpoch = 1
  /\ page = "live"
  /\ failed = FALSE
  /\ stuck = FALSE
  /\ missed = FALSE
  /\ met = FALSE

Browser ==
  \/ \E r \in Requests, c \in Listeners : SendEvent(r, c)
  \/ \E r \in Requests : SendPage(r) \/ OnAnswer(r) \/ OnPage(r)
  \/ Connect \/ Disconnect \/ Remove \/ OnMessage

Step ==
  \/ \E p \in Pushers : Pusher(p)
  \/ \E r \in Requests : RequestThread(r)
  \/ Write
  \/ Browser

-----------------------------------------------------------------------------
(* What has gone wrong so far, or might have: the properties name it.        *)

RunFails == \E p \in Pushers : pc[p] \notin {"idle", "clear"} /\ pc'[p] = "idle"
Clears == \E t \in Threads : pc[t] = "clear" /\ pc'[t] # "clear"
MessageMisses ==
  \/ outbox # NoMessage /\ outbox' = NoMessage /\ channel # "open"
  \/ wire # <<>> /\ channel = "open" /\ channel' # "open"
Meeting ==
  /\ \E r \in Requests : pc'[r] # "idle"
  /\ lock' # NoThread \/ wire' # <<>>

\* Once a request and a push have met, the other losses are not told apart.
Record ==
  /\ failed' = (RunFails \/ (failed /\ ~Clears))
  /\ met' = (met \/ Meeting)
  /\ stuck' = (~met' /\ (stuck \/ (RunFails /\ ~acceptChanges')))
  /\ missed' = (~met' /\ (missed \/ MessageMisses))

Next == Step /\ Record

Spec == Init /\ [][Next]_vars

\* What a request does by itself once it has been sent, with its answer.
GoesOn(r) == RequestThread(r) \/ SendPage(r) \/ OnAnswer(r) \/ OnPage(r)

\* Threads that run keep running, the browser connects, applies what arrives
\* and reloads when told to.  A request waiting for the HTTP session's monitor
\* gets it: the pushers pause between two runs.  Users need not do anything,
\* connections need not break, and the container may take its time to remove
\* the resource of one that has ended.
Fairness ==
  /\ \A p \in Pushers : WF_system(Pusher(p))
  /\ \A r \in Requests : /\ WF_system(GoesOn(r))
                         /\ SF_system(Lookup(r))
                         /\ SF_system(Enter(r))
  /\ WF_system(Write)
  /\ WF_system(Connect)
  /\ WF_system(OnMessage)

FairSpec == Spec /\ Fairness

-----------------------------------------------------------------------------
\* Types of all variables.
ServerOK ==
  /\ value \in [Comps -> 1 .. MaxVersion]
  /\ epoch \in Nat
ManagerOK ==
  /\ pending \in [Comps -> Versions]
  /\ toReload \subseteq Comps
  /\ frameFull \in BOOLEAN
  /\ epochUpdate \in Nat
  /\ updateMode \in BOOLEAN
  /\ acceptChanges \in BOOLEAN
ThreadsOK ==
  /\ lock \in Pushers \cup {NoThread}
  /\ servlet \in Requests \cup {NoThread}
  /\ pc \in [Threads -> PusherAt \cup RequestAt]
  /\ bound \in [Threads -> BOOLEAN]
  /\ armed \in [Threads -> SUBSET Listeners]
  /\ changed \in [Threads -> SUBSET Comps]
  /\ msg \in [Threads -> Message]
  /\ req \in [Requests -> Request]
TransportOK ==
  /\ channel \in {"never", "open", "away"}
  /\ stale \in BOOLEAN
  /\ lost \in BOOLEAN
  /\ outbox \in Message
  /\ wire \in Seq(Message)
ClientOK ==
  /\ shown \in [Comps -> Versions]
  /\ seenEpoch \in Nat
  /\ page \in {"live", "reloading", "loading"}
HistoryOK == {failed, stuck, missed, met} \subseteq BOOLEAN
TypeOK == ServerOK /\ ManagerOK /\ ThreadsOK /\ TransportOK /\ ClientOK /\ HistoryOK

\* Work in progress: the message of a thread that has rendered one, what the
\* broadcaster and the connection hold, the changes the manager records.
InFlight == {msg[t] : t \in Threads} \cup {outbox} \cup {wire[i] : i \in 1 .. Len(wire)}

\* The browser is going to fetch the whole page anew.
WillReload ==
  \/ frameFull
  \/ ~updateMode /\ \E t \in Threads :
       pc[t] \in {"push", "form", "render", "dispatch", "invalidate", "deliver"}
  \/ page = "reloading"
  \/ \E m \in InFlight : m.kind = "reload"
  \/ \E r \in Requests : req[r].kind = "page" /\ pc[r] \in {"lookup", "enter", "invalidate", "deliver"}

(* No state change is lost: as long as the browser does not display the     *)
(* newest version of a component, something on its way carries that version *)
(* (Pushable: "state changes in the server which need to be transferred to  *)
(* the client"; Task3: "without interfering each other").                   *)
EveryUpdateReaches ==
  \A c \in Comps :
    \/ shown[c] = value[c]
    \/ pending[c] = value[c] \/ c \in toReload
    \/ \E m \in InFlight : m.upd[c] = value[c]
    \/ WillReload

(* What Pushable.run() keeps of that: runs of several pushers and events    *)
(* between them lose nothing, nor does a run that fails before it refuses   *)
(* changes, or a connection that breaks with nothing on it.  Excluded is    *)
(* what does lose changes: a run that fails after invalidateFrames(), a     *)
(* message without a page, a request and a push at once.                    *)
NoLostUpdate == stuck \/ missed \/ met \/ EveryUpdateReaches

(* Pushes leave in the order of the changes they carry: of two messages on  *)
(* their way to the browser the later one has the newer version of every    *)
(* component both update.  Rendering and broadcasting is one critical       *)
(* section of the HTTP session's monitor (Pushable.run).                    *)
Newer(n, m) == \A c \in Comps : m.upd[c] > 0 /\ n.upd[c] > 0 => m.upd[c] < n.upd[c]
PushesInOrder ==
  /\ \A i, j \in 1 .. Len(wire) : i < j => Newer(wire[j], wire[i])
  /\ \A i \in 1 .. Len(wire) : Newer(outbox, wire[i])

(* The monitor is held until the browser has been sent the run's updates:   *)
(* when get() has returned, the browser displays or has on its connection   *)
(* at least what the message carries, unless a message has missed the page, *)
(* or the answer of a request has been applied between (Pushable: "we don't *)
(* want to release our lock on the HTTP session before the client was       *)
(* updated").                                                               *)
UpdatedBeforeUnlock ==
  \A p \in Pushers, c \in Comps : pc[p] = "clear" /\ ~missed /\ ~met =>
    \/ shown[c] >= msg[p].upd[c]
    \/ \E i \in 1 .. Len(wire) : wire[i].upd[c] = msg[p].upd[c]

(* The browser never goes back to an older version of a component, as long  *)
(* as answers and pushes are not under way at once (fbw.serverpush.js       *)
(* evaluates whatever arrives, so that the server has to send in order).    *)
NeverRegresses == [][met' \/ \A c \in Comps : shown'[c] >= shown[c]]_vars

(* Whoever worked at the same time: with no thread at work the manager is   *)
(* out of update mode, accepts changes and records nothing, unless the last *)
(* cycle to end was a run that failed; one cycle that ends in clear()       *)
(* repairs what any number of failed runs have left (Pushable and           *)
(* SessionServlet end with ReloadManager.clear()).                          *)
Quiet == lock = NoThread /\ servlet = NoThread
CleanWhenQuiet == Quiet /\ ~failed => ~updateMode /\ acceptChanges /\ ~Dirty

(* A run is about to fire form events only for what its own push() changed, *)
(* or the event of a request at work, unless a run has failed since the     *)
(* last clear().  Pushable means only its own ("marked dirty as a result of *)
(* executing the server push logic above").                                 *)
ArmedOnlyByPush ==
  \A p \in Pushers : pc[p] = "form" /\ ~failed =>
    DirtyComponents \subseteq changed[p] \cup UNION {changed[r] : r \in Requests}

(* In the end the browser shows the server's state, and keeps showing it,   *)
(* though pushes began before it had connected, unless the runs only fail   *)
(* from some time on, or changes have been lost in one of the ways that     *)
(* NoLostUpdate names (Pushable.run).                                       *)
Converges == <>[](shown = value \/ failed \/ stuck \/ missed \/ met)

(* Whoever sent a request gets its answer, unless a future has been left    *)
(* that nobody completes: WingServlet needs the monitor that Pushable.run   *)
(* holds while it waits in get().                                           *)
RequestsAnswered == \A r \in Requests : []<>(pc[r] = "idle" \/ lost)
=============================================================================
