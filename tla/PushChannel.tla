----------------------------- MODULE PushChannel -----------------------------
(***************************************************************************)
(* The push channel of one HTTP session: the tail of                       *)
(* Pushable.runInServerPushThread() (look the broadcaster up, broadcast,   *)
(* wait for the future), ServerPushHandler, ServerPushSessionListener, and *)
(* the Atmosphere broadcaster between them.                                *)
(*                                                                         *)
(* A message is its number.  A tab of the browser is connected by one      *)
(* AtmosphereResource at a time.  The future of a broadcast is a latch     *)
(* that counts the tabs connected at the call of broadcast(); a dispatcher *)
(* thread later hands the message to the tabs that are connected then, and *)
(* each tab has a queue with a writer thread.                              *)
(***************************************************************************)
EXTENDS Naturals, Sequences, FiniteSets

CONSTANTS
  Pushers,     \* push threads of the session
  Tabs,        \* browser tabs of the session
  NoThread,    \* owner of a free monitor
  Leaves,      \* may a tab lose or close its connection?
  Ends,        \* may the HTTP session be destroyed?
  MaxMessage   \* bound: number of messages broadcast

ASSUME PushChannelAssumption ==
  /\ NoThread \notin Pushers
  /\ IsFiniteSet(Tabs)
  /\ Leaves \in BOOLEAN /\ Ends \in BOOLEAN
  /\ MaxMessage \in Nat

VARIABLES
  session,     \* "live" or "destroyed"
  registered,  \* is there a broadcaster in the factory for the session's id?
  conn,        \* conn[t]: the state of the tab's connection
  lock,        \* owner of the monitor of the HTTP session
  pc,          \* where each push thread is
  sent,        \* number of messages broadcast so far
  cur,         \* cur[p]: the message p waits for
  queue,       \* messages the dispatcher has not taken yet
  latch,       \* latch[m]: what the future of m still has to count down
  tokens,      \* tokens[t]: messages in the write queue of the tab's resource
  stray,       \* stray[m]: tokens of m whose resource is not valid any more
  written,     \* written[t]: the last message written to the tab, 0 for none
  wire,        \* wire[t]: written and not applied yet
  applied,     \* applied[t]: the last message the tab's page has applied
  audience     \* history: tabs connected when cur[p] was broadcast, and since

broadcaster == <<registered, queue, latch, tokens, stray>>
pushing == <<lock, pc, sent, cur>>
browser == <<wire, applied>>
vars == <<session, conn, broadcaster, pushing, written, browser, audience>>

Messages == 1 .. MaxMessage

\* A resource is in the broadcaster's list from suspend() until it is removed;
\* a cancelled one stays there for a moment, marked invalid.
Resources == {t \in Tabs : conn[t] \in {"open", "cancelled"}}

\* Faulty: a latch without a floor.
DownBelow(m) == latch[m] - 1

\* latch.countDown()
Down(m) == IF latch[m] > 0 THEN latch[m] - 1 ELSE 0

-----------------------------------------------------------------------------
(* fbw.serverpush.js connects a tab; ServerPushHandler.onOpen() attaches it. *)

Goto(p, at) == pc' = [pc EXCEPT ![p] = at]
Become(t, state) == conn' = [conn EXCEPT ![t] = state]

\* getSession(false).getId()
OnOpen(t) ==
  /\ conn[t] = "closed"
  /\ session = "live"
  /\ Become(t, "opening")
  /\ UNCHANGED <<session, broadcaster, pushing, written, browser, audience>>

\* Faulty: onOpen() looks a broadcaster up without creating one.
AttachExisting(t) ==
  /\ conn[t] = "opening"
  /\ Become(t, "attached")
  /\ UNCHANGED <<session, broadcaster, pushing, written, browser, audience>>

\* lookup(id, true) and setBroadcaster()
Attach(t) ==
  /\ conn[t] = "opening"
  /\ registered' = TRUE
  /\ Become(t, "attached")
  /\ UNCHANGED <<session, queue, latch, tokens, stray, pushing, written, browser, audience>>

\* The interceptor suspends the resource after the handler: it is listed now.
Suspend(t) ==
  /\ conn[t] = "attached"
  /\ Become(t, "open")
  /\ UNCHANGED <<session, broadcaster, pushing, written, browser, audience>>

\* The connection ends: the resource is marked, its queued tokens are void,
\* what was on its way is lost.
Cancel(t) ==
  /\ Leaves
  /\ conn[t] = "open"
  /\ Become(t, "cancelled")
  /\ tokens' = [tokens EXCEPT ![t] = <<>>]
  /\ stray' = [m \in Messages |->
                 stray[m] + Cardinality({i \in 1 .. Len(tokens[t]) : tokens[t][i] = m})]
  /\ wire' = [wire EXCEPT ![t] = <<>>]
  /\ audience' = [p \in Pushers |-> audience[p] \ {t}]
  /\ UNCHANGED <<session, registered, queue, latch, pushing, written, applied>>

\* removeAtmosphereResource(); it does not count a latch down, because isDone()
\* of Atmosphere's future answers TRUE.
Remove(t) ==
  /\ conn[t] = "cancelled"
  /\ Become(t, "closed")
  /\ UNCHANGED <<session, broadcaster, pushing, written, browser, audience>>

\* ServerPushSessionListener
SessionDestroyed ==
  /\ Ends
  /\ session = "live"
  /\ session' = "destroyed"
  /\ registered' = FALSE
  /\ UNCHANGED <<conn, queue, latch, tokens, stray, pushing, written, browser, audience>>

-----------------------------------------------------------------------------
(* Pushable: a push thread with a rendered message.                          *)

\* run() takes the monitor, of a destroyed session too.
Run(p) ==
  /\ pc[p] = "idle"
  /\ lock = NoThread
  /\ lock' = p
  /\ Goto(p, "lookup")
  /\ UNCHANGED <<session, conn, broadcaster, sent, cur, written, browser, audience>>

Leave(p) ==
  /\ lock' = NoThread
  /\ Goto(p, "idle")

NoBroadcaster(p) ==
  /\ pc[p] = "lookup"
  /\ ~registered
  /\ Leave(p)
  /\ UNCHANGED <<session, conn, broadcaster, sent, cur, written, browser, audience>>

Lookup(p) ==
  /\ pc[p] = "lookup"
  /\ registered
  /\ Goto(p, "broadcast")
  /\ UNCHANGED <<session, conn, broadcaster, lock, sent, cur, written, browser, audience>>

\* broadcast() makes a future for the tabs connected now, at least for one.
Count == IF Resources = {} THEN 1 ELSE Cardinality(Resources)

Broadcast(p) ==
  /\ pc[p] = "broadcast"
  /\ sent < MaxMessage
  /\ sent' = sent + 1
  /\ cur' = [cur EXCEPT ![p] = sent + 1]
  /\ latch' = [latch EXCEPT ![sent + 1] = Count]
  /\ queue' = Append(queue, sent + 1)
  /\ audience' = [audience EXCEPT ![p] = {t \in Tabs : conn[t] = "open"}]
  /\ Goto(p, "wait")
  /\ UNCHANGED <<session, conn, registered, tokens, stray, lock, written, browser>>

\* Faulty: broadcast() without get().
GetNothing(p) ==
  /\ pc[p] = "wait"
  /\ Goto(p, "clear")
  /\ UNCHANGED <<session, conn, broadcaster, lock, sent, cur, written, browser, audience>>

\* get() returns.
Get(p) ==
  /\ pc[p] = "wait"
  /\ latch[cur[p]] = 0
  /\ Goto(p, "clear")
  /\ UNCHANGED <<session, conn, broadcaster, lock, sent, cur, written, browser, audience>>

\* clear() and the way out of run().
Finish(p) ==
  /\ pc[p] = "clear"
  /\ Leave(p)
  /\ UNCHANGED <<session, conn, broadcaster, sent, cur, written, browser, audience>>

-----------------------------------------------------------------------------
(* The broadcaster's threads.                                                *)

\* The dispatcher takes a message.  With nobody listed the future is done; else
\* every listed valid resource gets a token, and one marked invalid is passed
\* over without counting.
Dispatch ==
  /\ queue # <<>>
  /\ queue' = Tail(queue)
  /\ LET m == Head(queue) IN
       IF Resources = {}
         THEN latch' = [latch EXCEPT ![m] = Down(m)] /\ UNCHANGED tokens
         ELSE /\ tokens' = [t \in Tabs |-> IF conn[t] = "open" THEN Append(tokens[t], m)
                                                               ELSE tokens[t]]
              /\ UNCHANGED latch
  /\ UNCHANGED <<session, conn, registered, stray, pushing, written, browser, audience>>

\* Faulty: the future is not told about the write.
WriteUncounted(t) ==
  /\ tokens[t] # <<>>
  /\ tokens' = [tokens EXCEPT ![t] = Tail(@)]
  /\ written' = [written EXCEPT ![t] = Head(tokens[t])]
  /\ wire' = [wire EXCEPT ![t] = Append(@, Head(tokens[t]))]
  /\ UNCHANGED <<session, conn, registered, queue, latch, stray, pushing, applied, audience>>

\* Faulty: the message stays in the queue and is written again.
WriteAgain(t) ==
  /\ tokens[t] # <<>>
  /\ LET m == Head(tokens[t]) IN
       /\ latch' = [latch EXCEPT ![m] = Down(m)]
       /\ written' = [written EXCEPT ![t] = m]
       /\ wire' = [wire EXCEPT ![t] = Append(@, m)]
  /\ UNCHANGED <<session, conn, registered, queue, tokens, stray, pushing, applied, audience>>

\* A writer calls ServerPushHandler.onMessage(), then counts the future down.
OnMessage(t) ==
  /\ tokens[t] # <<>>
  /\ LET m == Head(tokens[t]) IN
       /\ latch' = [latch EXCEPT ![m] = Down(m)]
       /\ written' = [written EXCEPT ![t] = m]
       /\ wire' = [wire EXCEPT ![t] = Append(@, m)]
  /\ tokens' = [tokens EXCEPT ![t] = Tail(@)]
  /\ UNCHANGED <<session, conn, registered, queue, stray, pushing, applied, audience>>

\* A writer finds the resource invalid: nothing is written, the future counts.
DropToken(m) ==
  /\ stray[m] > 0
  /\ stray' = [stray EXCEPT ![m] = @ - 1]
  /\ latch' = [latch EXCEPT ![m] = Down(m)]
  /\ UNCHANGED <<session, conn, registered, queue, tokens, pushing, written, browser, audience>>

\* The page evaluates the updates of a message.
ApplyMessage(t) ==
  /\ wire[t] # <<>>
  /\ applied' = [applied EXCEPT ![t] = Head(wire[t])]
  /\ wire' = [wire EXCEPT ![t] = Tail(@)]
  /\ UNCHANGED <<session, conn, broadcaster, pushing, written, audience>>

-----------------------------------------------------------------------------
Init ==
  /\ session = "live"
  /\ registered = FALSE
  /\ conn = [t \in Tabs |-> "closed"]
  /\ lock = NoThread
  /\ pc = [p \in Pushers |-> "idle"]
  /\ sent = 0
  /\ cur = [p \in Pushers |-> 0]
  /\ queue = <<>>
  /\ latch = [m \in Messages |-> 0]
  /\ tokens = [t \in Tabs |-> <<>>]
  /\ stray = [m \in Messages |-> 0]
  /\ written = [t \in Tabs |-> 0]
  /\ wire = [t \in Tabs |-> <<>>]
  /\ applied = [t \in Tabs |-> 0]
  /\ audience = [p \in Pushers |-> {}]

Pusher(p) ==
  \/ Run(p) \/ NoBroadcaster(p) \/ Lookup(p) \/ Broadcast(p) \/ Get(p) \/ Finish(p)

Tab(t) == OnOpen(t) \/ Attach(t) \/ Suspend(t) \/ ApplyMessage(t)

Next ==
  \/ \E p \in Pushers : Pusher(p)
  \/ \E t \in Tabs : Tab(t) \/ Cancel(t) \/ Remove(t) \/ OnMessage(t)
  \/ Dispatch
  \/ \E m \in Messages : DropToken(m)
  \/ SessionDestroyed

Spec == Init /\ [][Next]_vars

\* Threads that run keep running and tabs connect and apply what they get.  Nothing
\* obliges a connection or a session to end.
Fairness ==
  /\ \A p \in Pushers : WF_vars(Pusher(p))
  /\ \A t \in Tabs : /\ WF_vars(Tab(t)) /\ WF_vars(Remove(t)) /\ WF_vars(OnMessage(t))
  /\ WF_vars(Dispatch)
  /\ \A m \in Messages : WF_vars(DropToken(m))

FairSpec == Spec /\ Fairness

-----------------------------------------------------------------------------
TypeOK ==
  /\ session \in {"live", "destroyed"}
  /\ registered \in BOOLEAN
  /\ conn \in [Tabs -> {"closed", "opening", "attached", "open", "cancelled"}]
  /\ lock \in Pushers \cup {NoThread}
  /\ pc \in [Pushers -> {"idle", "lookup", "broadcast", "wait", "clear"}]
  /\ sent \in 0 .. MaxMessage
  /\ cur \in [Pushers -> 0 .. MaxMessage]
  /\ queue \in Seq(Messages)
  /\ latch \in [Messages -> Nat]
  /\ tokens \in [Tabs -> Seq(Messages)]
  /\ stray \in [Messages -> Nat]
  /\ written \in [Tabs -> 0 .. MaxMessage]
  /\ wire \in [Tabs -> Seq(Messages)]
  /\ applied \in [Tabs -> 0 .. MaxMessage]
  /\ audience \in [Pushers -> SUBSET Tabs]

(* A tab gets messages in the order they were broadcast and none twice,      *)
(* however often its connection breaks (Pushable, ServerPushHandler).        *)
InOrder(t) == LET way == wire[t] \o tokens[t] IN
  /\ \A i, j \in 1 .. Len(way) : i < j => way[i] < way[j]
  /\ \A i \in 1 .. Len(way) : applied[t] < way[i]
DeliveredInOrder == \A t \in Tabs : InOrder(t)

(* When get() has returned, every tab that was connected at the broadcast    *)
(* and still is has been sent the message (Pushable: "we don't want to       *)
(* release our lock on the HTTP session before the client was updated").     *)
UpdatedBeforeUnlock ==
  \A p \in Pushers : pc[p] = "clear" => \A t \in audience[p] : written[t] = cur[p]

(* A push ends, and with it its hold on the HTTP session, which every        *)
(* request needs (Pushable: "wait for the broadcast operation to complete    *)
(* before we proceed any further").                                          *)
PushesReturn == \A p \in Pushers : pc[p] = "wait" ~> pc[p] = "idle"

(* As soon as a tab is connected the pushes of a live session reach it: the  *)
(* broadcaster is there (ServerPushHandler.onOpen).                          *)
OpenIsRegistered ==
  session = "live" /\ Resources # {} => registered
=============================================================================
