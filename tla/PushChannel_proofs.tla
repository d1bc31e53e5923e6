-------------------------- MODULE PushChannel_proofs --------------------------
(***************************************************************************)
(* What holds in PushChannel for any pushers, tabs and number of messages, *)
(* whenever tabs connect and leave and the session ends, and then in the   *)
(* scene with one tab: proofs checked by TLAPS.                            *)
(***************************************************************************)
EXTENDS MCPushScenes, SequenceTheorems, FiniteSetTheorems, TLAPS

-----------------------------------------------------------------------------
(* Types.                                                                    *)

LEMMA CountTypes == TypeOK => Count \in Nat
<1> SUFFICES ASSUME TypeOK PROVE Count \in Nat
  OBVIOUS
<1>1. IsFiniteSet(Resources)
  BY PushChannelAssumption, FS_Subset DEF Resources
<1>2. Cardinality(Resources) \in Nat
  BY <1>1, FS_CardinalityType
<1> QED
  BY <1>2 DEF Count

LEMMA DownTypes ==
  ASSUME TypeOK, NEW m \in Messages
  PROVE  Down(m) \in Nat
BY DEF TypeOK, Down

LEMMA TokenCountTypes ==
  ASSUME NEW q \in Seq(Messages), NEW m
  PROVE  Cardinality({i \in 1 .. Len(q) : q[i] = m}) \in Nat
<1>1. Len(q) \in Nat
  OBVIOUS
<1>2. IsFiniteSet(1 .. Len(q))
  BY <1>1, FS_Interval
<1> QED
  BY <1>2, FS_Subset, FS_CardinalityType

LEMMA PusherTypes ==
  ASSUME TypeOK, NEW p \in Pushers, Pusher(p)
  PROVE  TypeOK'
<1> USE PushChannelAssumption DEF TypeOK, Goto, Leave
<1>1. CASE Run(p)
  BY <1>1 DEF Run, broadcaster, browser
<1>2. CASE NoBroadcaster(p)
  BY <1>2 DEF NoBroadcaster, broadcaster, browser
<1>3. CASE Lookup(p)
  BY <1>3 DEF Lookup, broadcaster, browser
<1>4. CASE Broadcast(p)
  <2>1. sent + 1 \in Messages /\ Count \in Nat
    BY <1>4, CountTypes DEF Broadcast, Messages
  <2>2. sent' \in 0 .. MaxMessage /\ cur' \in [Pushers -> 0 .. MaxMessage]
    BY <1>4, <2>1 DEF Broadcast, Messages
  <2>3. queue' \in Seq(Messages)
    BY <1>4, <2>1 DEF Broadcast
  <2>4. latch' \in [Messages -> Nat] /\ audience' \in [Pushers -> SUBSET Tabs]
    BY <1>4, <2>1 DEF Broadcast
  <2>5. pc' \in [Pushers -> {"idle", "lookup", "broadcast", "wait", "clear"}]
    BY <1>4 DEF Broadcast
  <2> QED
    BY <1>4, <2>2, <2>3, <2>4, <2>5 DEF Broadcast, browser
<1>5. CASE Get(p)
  BY <1>5 DEF Get, broadcaster, browser
<1>6. CASE Finish(p)
  BY <1>6 DEF Finish, broadcaster, browser
<1> QED
  BY <1>1, <1>2, <1>3, <1>4, <1>5, <1>6 DEF Pusher

LEMMA TabTypes ==
  ASSUME TypeOK, NEW t \in Tabs, Tab(t) \/ Cancel(t) \/ Remove(t) \/ OnMessage(t)
  PROVE  TypeOK'
<1> USE DEF TypeOK, Become
<1>1. CASE OnOpen(t)
  BY <1>1 DEF OnOpen, broadcaster, pushing, browser
<1>2. CASE Attach(t)
  BY <1>2 DEF Attach, pushing, browser
<1>3. CASE Suspend(t)
  BY <1>3 DEF Suspend, broadcaster, pushing, browser
<1>4. CASE ApplyMessage(t)
  <2>1. wire[t] \in Seq(Messages) /\ wire[t] # <<>>
    BY <1>4 DEF ApplyMessage
  <2>2. Head(wire[t]) \in Messages /\ Tail(wire[t]) \in Seq(Messages)
    BY <2>1
  <2>3. Head(wire[t]) \in 0 .. MaxMessage
    BY <2>2 DEF Messages
  <2> QED
    BY <1>4, <2>2, <2>3 DEF ApplyMessage, broadcaster, pushing
<1>5. CASE Cancel(t)
  <2>1. tokens[t] \in Seq(Messages)
    OBVIOUS
  <2>2. stray' \in [Messages -> Nat]
    <3>1. \A m \in Messages :
            stray[m] + Cardinality({i \in 1 .. Len(tokens[t]) : tokens[t][i] = m}) \in Nat
      <4> SUFFICES ASSUME NEW m \in Messages
                   PROVE  stray[m] + Cardinality({i \in 1 .. Len(tokens[t]) : tokens[t][i] = m}) \in Nat
        OBVIOUS
      <4>1. Cardinality({i \in 1 .. Len(tokens[t]) : tokens[t][i] = m}) \in Nat
        BY <2>1, TokenCountTypes, Zenon
      <4>2. stray[m] \in Nat
        OBVIOUS
      <4> QED
        BY <4>1, <4>2
    <3> QED
      BY <1>5, <3>1 DEF Cancel
  <2>3. /\ tokens' \in [Tabs -> Seq(Messages)] /\ wire' \in [Tabs -> Seq(Messages)]
        /\ audience' \in [Pushers -> SUBSET Tabs]
    BY <1>5 DEF Cancel
  <2> QED
    BY <1>5, <2>2, <2>3 DEF Cancel, pushing
<1>6. CASE Remove(t)
  BY <1>6 DEF Remove, broadcaster, pushing, browser
<1>7. CASE OnMessage(t)
  <2>1. /\ Head(tokens[t]) \in Messages /\ Tail(tokens[t]) \in Seq(Messages)
        /\ wire[t] \in Seq(Messages)
    BY <1>7 DEF OnMessage
  <2>2. /\ Append(wire[t], Head(tokens[t])) \in Seq(Messages)
        /\ Down(Head(tokens[t])) \in Nat
    <3> HIDE DEF TypeOK
    <3>1. Append(wire[t], Head(tokens[t])) \in Seq(Messages)
      BY <2>1
    <3>2. Down(Head(tokens[t])) \in Nat
      BY <2>1, DownTypes
    <3> QED
      BY <3>1, <3>2
  <2>3. Head(tokens[t]) \in 0 .. MaxMessage
    BY <2>1 DEF Messages
  <2>4. latch' \in [Messages -> Nat] /\ written' \in [Tabs -> 0 .. MaxMessage]
    BY <1>7, <2>1, <2>2, <2>3 DEF OnMessage
  <2>5. wire' \in [Tabs -> Seq(Messages)] /\ tokens' \in [Tabs -> Seq(Messages)]
    BY <1>7, <2>1, <2>2 DEF OnMessage
  <2> QED
    BY <1>7, <2>4, <2>5 DEF OnMessage, pushing
<1> QED
  BY <1>1, <1>2, <1>3, <1>4, <1>5, <1>6, <1>7 DEF Tab

LEMMA BroadcasterTypes ==
  ASSUME TypeOK, Dispatch \/ (\E m \in Messages : DropToken(m)) \/ SessionDestroyed
  PROVE  TypeOK'
<1> USE DEF TypeOK
<1>1. CASE Dispatch
  <2>1. Head(queue) \in Messages /\ Tail(queue) \in Seq(Messages)
    BY <1>1 DEF Dispatch
  <2>2. Down(Head(queue)) \in Nat
    BY <2>1, DownTypes
  <2>3. latch' \in [Messages -> Nat]
    BY <1>1, <2>1, <2>2 DEF Dispatch
  <2>4. tokens' \in [Tabs -> Seq(Messages)]
    <3>1. \A t \in Tabs : Append(tokens[t], Head(queue)) \in Seq(Messages)
      BY <2>1
    <3> QED
      BY <1>1, <3>1 DEF Dispatch
  <2> QED
    BY <1>1, <2>1, <2>3, <2>4 DEF Dispatch, pushing, browser
<1>2. ASSUME NEW m \in Messages, DropToken(m) PROVE TypeOK'
  <2>1. stray[m] - 1 \in Nat /\ Down(m) \in Nat
    BY <1>2, DownTypes DEF DropToken
  <2> QED
    BY <1>2, <2>1 DEF DropToken, pushing, browser
<1>3. CASE SessionDestroyed
  BY <1>3 DEF SessionDestroyed, pushing, browser
<1> QED
  BY <1>1, <1>2, <1>3

LEMMA TypesKept == TypeOK /\ [Next]_vars => TypeOK'
<1> SUFFICES ASSUME TypeOK, [Next]_vars PROVE TypeOK'
  OBVIOUS
<1>1. CASE Next
  BY <1>1, PusherTypes, TabTypes, BroadcasterTypes DEF Next
<1>2. CASE UNCHANGED vars
  BY <1>2 DEF vars, TypeOK, broadcaster, pushing, browser
<1> QED
  BY <1>1, <1>2

LEMMA InitTypes == Init => TypeOK
<1> SUFFICES ASSUME Init PROVE TypeOK
  OBVIOUS
<1> USE PushChannelAssumption DEF Init
<1>1. /\ sent \in 0 .. MaxMessage /\ cur \in [Pushers -> 0 .. MaxMessage]
      /\ written \in [Tabs -> 0 .. MaxMessage] /\ applied \in [Tabs -> 0 .. MaxMessage]
  OBVIOUS
<1>2. /\ queue \in Seq(Messages) /\ tokens \in [Tabs -> Seq(Messages)]
      /\ wire \in [Tabs -> Seq(Messages)]
  OBVIOUS
<1>3. /\ session \in {"live", "destroyed"} /\ registered \in BOOLEAN
      /\ conn \in [Tabs -> {"closed", "opening", "attached", "open", "cancelled"}]
      /\ lock \in Pushers \cup {NoThread}
      /\ pc \in [Pushers -> {"idle", "lookup", "broadcast", "wait", "clear"}]
  OBVIOUS
<1>4. /\ latch \in [Messages -> Nat] /\ stray \in [Messages -> Nat]
      /\ audience \in [Pushers -> SUBSET Tabs]
  OBVIOUS
<1> QED
  BY <1>1, <1>2, <1>3, <1>4 DEF TypeOK

(* Every part of the channel keeps its type; no count goes below zero,       *)
(* however messages, writers and leaving tabs count a future down.           *)
THEOREM ChannelTypes == Spec => []TypeOK
BY InitTypes, TypesKept, PTL DEF Spec
-----------------------------------------------------------------------------
(* The broadcaster is there as soon as a tab counts on it.                   *)

Attached == {t \in Tabs : conn[t] \in {"attached", "open", "cancelled"}}
AttachedIsRegistered == session = "live" /\ Attached # {} => registered

LEMMA RegisteredKept ==
  ASSUME TypeOK, AttachedIsRegistered, [Next]_vars
  PROVE  AttachedIsRegistered'
<1> USE DEF AttachedIsRegistered, Attached, TypeOK, Become
<1>1. ASSUME NEW p \in Pushers, Pusher(p) PROVE AttachedIsRegistered'
  BY <1>1 DEF Pusher, Run, NoBroadcaster, Lookup, Broadcast, Get, Finish, broadcaster
<1>2. ASSUME NEW t \in Tabs, OnOpen(t) PROVE AttachedIsRegistered'
  BY <1>2 DEF OnOpen, broadcaster
<1>3. ASSUME NEW t \in Tabs, Attach(t) PROVE AttachedIsRegistered'
  BY <1>3 DEF Attach
<1>4. ASSUME NEW t \in Tabs, Suspend(t) PROVE AttachedIsRegistered'
  BY <1>4 DEF Suspend, broadcaster
<1>5. ASSUME NEW t \in Tabs, ApplyMessage(t) \/ OnMessage(t) PROVE AttachedIsRegistered'
  BY <1>5 DEF ApplyMessage, OnMessage, broadcaster
<1>6. ASSUME NEW t \in Tabs, Cancel(t) PROVE AttachedIsRegistered'
  BY <1>6 DEF Cancel
<1>7. ASSUME NEW t \in Tabs, Remove(t) PROVE AttachedIsRegistered'
  BY <1>7 DEF Remove, broadcaster
<1>8. CASE Dispatch \/ \E m \in Messages : DropToken(m)
  BY <1>8 DEF Dispatch, DropToken
<1>9. CASE SessionDestroyed
  BY <1>9 DEF SessionDestroyed
<1>10. CASE UNCHANGED vars
  BY <1>10 DEF vars, broadcaster
<1> QED
  BY <1>1, <1>2, <1>3, <1>4, <1>5, <1>6, <1>7, <1>8, <1>9, <1>10 DEF Next, Tab

(* A tab that is connected, or about to be, while the session lives has a    *)
(* broadcaster in the factory, so that pushes find it: onOpen() makes one    *)
(* before the resource is suspended, and only the end of the session takes   *)
(* it away.                                                                  *)
THEOREM Registered == Spec => []OpenIsRegistered
<1>1. Init => AttachedIsRegistered
  BY DEF Init, AttachedIsRegistered, Attached
<1>2. AttachedIsRegistered => OpenIsRegistered
  BY DEF AttachedIsRegistered, Attached, OpenIsRegistered, Resources
<1> QED
  BY <1>1, <1>2, ChannelTypes, RegisteredKept, PTL DEF Spec

-----------------------------------------------------------------------------
(* Order.                                                                    *)

Sorted(q) == \A i, j \in 1 .. Len(q) : i < j => q[i] < q[j]
Before(q, r) == \A i \in 1 .. Len(q), j \in 1 .. Len(r) : q[i] < r[j]
Above(q, n) == \A i \in 1 .. Len(q) : n < q[i]
AtMost(q, n) == \A i \in 1 .. Len(q) : q[i] <= n

LEMMA AppendOrder ==
  ASSUME NEW q \in Seq(Nat), NEW n \in Nat
  PROVE  /\ Sorted(q) /\ (\A i \in 1 .. Len(q) : q[i] < n) => Sorted(Append(q, n))
         /\ \A k \in Nat : Above(q, k) /\ k < n => Above(Append(q, n), k)
         /\ \A k \in Nat : AtMost(q, k) /\ n <= k => AtMost(Append(q, n), k)
BY DEF Sorted, Above, AtMost

LEMMA AtMostNext ==
  ASSUME NEW q \in Seq(Nat), NEW n \in Nat, AtMost(q, n)
  PROVE  AtMost(q, n + 1) /\ \A i \in 1 .. Len(q) : q[i] < n + 1
<1>1. \A i \in 1 .. Len(q) : q[i] \in Nat
  OBVIOUS
<1> QED
  BY <1>1 DEF AtMost

LEMMA ConcatOrder ==
  ASSUME NEW q \in Seq(Nat), NEW r \in Seq(Nat), NEW k \in Nat,
         Sorted(q), Sorted(r), Before(q, r), Above(q, k), Above(r, k)
  PROVE  Sorted(q \o r) /\ Above(q \o r, k)
<1> DEFINE way == q \o r
<1>1. /\ Len(way) = Len(q) + Len(r) /\ Len(q) \in Nat /\ Len(r) \in Nat
      /\ \A i \in 1 .. Len(way) : way[i] = IF i <= Len(q) THEN q[i] ELSE r[i - Len(q)]
  BY ConcatProperties
<1> HIDE DEF way
<1>2. \A i \in 1 .. Len(way) :
        \/ i \in 1 .. Len(q) /\ way[i] = q[i]
        \/ i > Len(q) /\ i - Len(q) \in 1 .. Len(r) /\ way[i] = r[i - Len(q)]
  <2> SUFFICES ASSUME NEW i \in 1 .. Len(way)
               PROVE  \/ i \in 1 .. Len(q) /\ way[i] = q[i]
                      \/ i > Len(q) /\ i - Len(q) \in 1 .. Len(r) /\ way[i] = r[i - Len(q)]
    OBVIOUS
  <2>1. CASE i <= Len(q)
    BY <1>1, <2>1
  <2>2. CASE i > Len(q)
    <3>1. ~(i <= Len(q)) /\ i - Len(q) \in 1 .. Len(r)
      BY <1>1, <2>2
    <3> QED
      BY <1>1, <2>2, <3>1
  <2> QED
    BY <1>1, <2>1, <2>2
<1>3. Above(way, k)
  BY <1>2 DEF Above
<1>4. ASSUME NEW i \in 1 .. Len(way), NEW j \in 1 .. Len(way), i < j
      PROVE  way[i] < way[j]
  <2>1. CASE j \in 1 .. Len(q)
    <3>1. i \in 1 .. Len(q) /\ way[i] = q[i] /\ way[j] = q[j]
      BY <1>1, <1>4, <2>1
    <3> QED
      BY <1>4, <2>1, <3>1 DEF Sorted
  <2>2. CASE i \in 1 .. Len(q) /\ j \notin 1 .. Len(q)
    <3>1. way[i] = q[i]
      BY <1>1, <2>2
    <3>2. j - Len(q) \in 1 .. Len(r) /\ way[j] = r[j - Len(q)]
      BY <1>2, <2>2
    <3> QED
      BY <2>2, <3>1, <3>2 DEF Before
  <2>3. CASE i \notin 1 .. Len(q) /\ j \notin 1 .. Len(q)
    <3>1. /\ i - Len(q) \in 1 .. Len(r) /\ way[i] = r[i - Len(q)]
          /\ j - Len(q) \in 1 .. Len(r) /\ way[j] = r[j - Len(q)]
      BY <1>2, <2>3
    <3>2. i - Len(q) < j - Len(q)
      BY <1>1, <1>4
    <3> QED
      BY <3>1, <3>2 DEF Sorted
  <2>4. CASE i \notin 1 .. Len(q) /\ j \in 1 .. Len(q)
    BY <1>1, <1>4, <2>4
  <2> QED
    BY <2>1, <2>2, <2>3, <2>4
<1> QED
  BY <1>3, <1>4 DEF Sorted, way

LEMMA AppendBefore ==
  ASSUME NEW q \in Seq(Nat), NEW r \in Seq(Nat), NEW n \in Nat, Before(q, r)
  PROVE  /\ Above(r, n) => Before(Append(q, n), r)
         /\ (\A i \in 1 .. Len(q) : q[i] < n) => Before(q, Append(r, n))
<1>1. ASSUME NEW f \in Seq(Nat)
      PROVE  /\ Len(Append(f, n)) = Len(f) + 1 /\ Append(f, n)[Len(f) + 1] = n
             /\ Len(f) \in Nat
             /\ \A i \in 1 .. Len(f) : Append(f, n)[i] = f[i]
  OBVIOUS
<1>2. ASSUME Above(r, n) PROVE Before(Append(q, n), r)
  BY <1>1, <1>2 DEF Before, Above
<1>3. ASSUME \A i \in 1 .. Len(q) : q[i] < n PROVE Before(q, Append(r, n))
  BY <1>1, <1>3 DEF Before
<1> QED
  BY <1>2, <1>3

LEMMA TailOrder ==
  ASSUME NEW q \in Seq(Nat), q # <<>>
  PROVE  /\ Head(q) \in Nat /\ Tail(q) \in Seq(Nat) /\ 1 \in 1 .. Len(q) /\ Head(q) = q[1]
         /\ Sorted(q) => Sorted(Tail(q)) /\ Above(Tail(q), Head(q))
         /\ \A k \in Nat : Above(q, k) => Above(Tail(q), k)
         /\ \A k \in Nat : AtMost(q, k) => AtMost(Tail(q), k)
<1>1. Len(q) \in Nat /\ Len(q) > 0 /\ Head(q) = q[1] /\ Head(q) \in Nat /\ Tail(q) \in Seq(Nat)
  OBVIOUS
<1>2. /\ Len(Tail(q)) = Len(q) - 1
      /\ \A i \in 1 .. Len(Tail(q)) : i + 1 \in 1 .. Len(q) /\ Tail(q)[i] = q[i + 1]
  BY <1>1
<1> QED
  BY <1>1, <1>2 DEF Sorted, Above, AtMost

LEMMA TailBefore ==
  ASSUME NEW q \in Seq(Nat), NEW r \in Seq(Nat), Before(q, r)
  PROVE  /\ q # <<>> => Before(Tail(q), r) /\ Above(r, Head(q))
         /\ r # <<>> => Before(q, Tail(r)) /\ \A i \in 1 .. Len(q) : q[i] < Head(r)
<1>1. ASSUME q # <<>> PROVE Before(Tail(q), r) /\ Above(r, Head(q))
  <2>1. \A i \in 1 .. Len(Tail(q)) : i + 1 \in 1 .. Len(q) /\ Tail(q)[i] = q[i + 1]
    BY <1>1
  <2>2. 1 \in 1 .. Len(q) /\ Head(q) = q[1]
    BY <1>1
  <2> QED
    BY <2>1, <2>2 DEF Before, Above
<1>2. ASSUME r # <<>> PROVE Before(q, Tail(r)) /\ \A i \in 1 .. Len(q) : q[i] < Head(r)
  <2>1. \A i \in 1 .. Len(Tail(r)) : i + 1 \in 1 .. Len(r) /\ Tail(r)[i] = r[i + 1]
    BY <1>2
  <2>2. 1 \in 1 .. Len(r) /\ Head(r) = r[1]
    BY <1>2
  <2> QED
    BY <2>1, <2>2 DEF Before
<1> QED
  BY <1>1, <1>2

\* Whatever is on its way to a tab is newer than what is ahead of it.
Ordered(t) ==
  /\ Sorted(wire[t]) /\ Sorted(tokens[t])
  /\ Before(wire[t], tokens[t]) /\ Before(wire[t], queue) /\ Before(tokens[t], queue)
  /\ applied[t] <= sent
  /\ Above(wire[t], applied[t]) /\ Above(tokens[t], applied[t]) /\ Above(queue, applied[t])
  /\ AtMost(wire[t], sent) /\ AtMost(tokens[t], sent)
QueueOrdered == Sorted(queue) /\ AtMost(queue, sent)
OrderInv == TypeOK /\ QueueOrdered /\ \A t \in Tabs : Ordered(t)

LEMMA Numbers ==
  ASSUME TypeOK
  PROVE  /\ sent \in Nat /\ queue \in Seq(Nat)
         /\ \A t \in Tabs : wire[t] \in Seq(Nat) /\ tokens[t] \in Seq(Nat) /\ applied[t] \in Nat
<1>1. Messages \subseteq Nat
  BY DEF Messages
<1>2. Seq(Messages) \subseteq Seq(Nat)
  BY <1>1, SeqMonotonic
<1> QED
  BY <1>2, PushChannelAssumption DEF TypeOK

LEMMA BroadcastOrder ==
  ASSUME OrderInv, NEW p \in Pushers, Broadcast(p)
  PROVE  QueueOrdered' /\ \A t \in Tabs : Ordered(t)'
<1> USE Numbers DEF OrderInv
<1>1. /\ queue' = Append(queue, sent + 1) /\ sent' = sent + 1 /\ sent + 1 \in Nat
      /\ tokens' = tokens /\ wire' = wire /\ applied' = applied
  BY DEF Broadcast, browser
<1>2. \A i \in 1 .. Len(queue) : queue[i] < sent + 1
  BY AtMostNext DEF QueueOrdered
<1>3. QueueOrdered'
  <2>1. AtMost(queue, sent + 1)
    BY AtMostNext DEF QueueOrdered
  <2>2. AtMost(Append(queue, sent + 1), sent + 1)
    BY <1>1, <2>1, AppendOrder
  <2>3. Sorted(Append(queue, sent + 1))
    BY <1>1, <1>2, AppendOrder DEF QueueOrdered
  <2> QED
    BY <1>1, <2>2, <2>3 DEF QueueOrdered
<1>4. ASSUME NEW t \in Tabs PROVE Ordered(t)'
  <2>1. /\ \A i \in 1 .. Len(wire[t]) : wire[t][i] < sent + 1
        /\ \A i \in 1 .. Len(tokens[t]) : tokens[t][i] < sent + 1
    BY AtMostNext DEF Ordered
  <2>2. Before(wire[t], Append(queue, sent + 1)) /\ Before(tokens[t], Append(queue, sent + 1))
    BY <1>1, <2>1, AppendBefore DEF Ordered
  <2>3. Above(Append(queue, sent + 1), applied[t]) /\ applied[t] <= sent + 1
    BY <1>1, AppendOrder DEF Ordered
  <2>4. AtMost(wire[t], sent + 1) /\ AtMost(tokens[t], sent + 1)
    BY AtMostNext DEF Ordered
  <2> QED
    BY <1>1, <2>2, <2>3, <2>4 DEF Ordered
<1> QED
  BY <1>3, <1>4

LEMMA DispatchOrder ==
  ASSUME OrderInv, Dispatch
  PROVE  QueueOrdered' /\ \A t \in Tabs : Ordered(t)'
<1> USE Numbers DEF OrderInv
<1>1. /\ queue # <<>> /\ queue' = Tail(queue)
      /\ sent' = sent /\ wire' = wire /\ applied' = applied
      /\ \A t \in Tabs : tokens'[t] = tokens[t] \/ tokens'[t] = Append(tokens[t], Head(queue))
  BY DEF Dispatch, pushing, browser, TypeOK
<1>2. /\ Head(queue) \in Nat /\ Tail(queue) \in Seq(Nat) /\ Head(queue) <= sent
      /\ Sorted(Tail(queue)) /\ Above(Tail(queue), Head(queue)) /\ AtMost(Tail(queue), sent)
  <2>1. Head(queue) = queue[1] /\ 1 \in 1 .. Len(queue)
    BY <1>1, TailOrder
  <2> QED
    BY <1>1, <2>1, TailOrder DEF QueueOrdered, AtMost
<1>3. ASSUME NEW t \in Tabs PROVE Ordered(t)'
  <2>1. /\ Before(wire[t], Tail(queue)) /\ \A i \in 1 .. Len(wire[t]) : wire[t][i] < Head(queue)
        /\ Before(tokens[t], Tail(queue)) /\ \A i \in 1 .. Len(tokens[t]) : tokens[t][i] < Head(queue)
    BY <1>1, TailBefore DEF Ordered
  <2>2. Above(Tail(queue), applied[t]) /\ applied[t] < Head(queue)
    <3>1. Head(queue) = queue[1] /\ 1 \in 1 .. Len(queue)
      BY <1>1, TailOrder
    <3> QED
      BY <1>1, <3>1, TailOrder DEF Ordered, Above
  <2>3. CASE tokens'[t] = tokens[t]
    BY <1>1, <2>1, <2>2, <2>3 DEF Ordered
  <2>4. CASE tokens'[t] = Append(tokens[t], Head(queue))
    <3>1. Sorted(Append(tokens[t], Head(queue))) /\ AtMost(Append(tokens[t], Head(queue)), sent)
      BY <1>2, <2>1, AppendOrder DEF Ordered
    <3>2. Above(Append(tokens[t], Head(queue)), applied[t])
      BY <1>2, <2>2, AppendOrder DEF Ordered
    <3>3. /\ Before(wire[t], Append(tokens[t], Head(queue)))
          /\ Before(Append(tokens[t], Head(queue)), Tail(queue))
      BY <1>2, <2>1, AppendBefore DEF Ordered
    <3> QED
      BY <1>1, <2>1, <2>2, <2>4, <3>1, <3>2, <3>3 DEF Ordered
  <2> QED
    BY <1>1, <2>3, <2>4
<1> QED
  BY <1>1, <1>2, <1>3 DEF QueueOrdered

LEMMA WriteOrder ==
  ASSUME OrderInv, NEW t \in Tabs, OnMessage(t)
  PROVE  Ordered(t)'
<1> USE Numbers DEF OrderInv
<1>1. /\ tokens[t] # <<>> /\ tokens'[t] = Tail(tokens[t])
      /\ wire'[t] = Append(wire[t], Head(tokens[t]))
      /\ queue' = queue /\ sent' = sent /\ applied' = applied
  BY DEF OnMessage, pushing, TypeOK
<1>2. /\ Head(tokens[t]) \in Nat /\ Tail(tokens[t]) \in Seq(Nat)
      /\ Head(tokens[t]) = tokens[t][1] /\ 1 \in 1 .. Len(tokens[t])
      /\ Sorted(Tail(tokens[t])) /\ Above(Tail(tokens[t]), Head(tokens[t]))
      /\ AtMost(Tail(tokens[t]), sent) /\ Above(Tail(tokens[t]), applied[t])
  BY <1>1, TailOrder DEF Ordered
<1>3. applied[t] < Head(tokens[t]) /\ Head(tokens[t]) <= sent
  BY <1>2 DEF Ordered, Above, AtMost
<1>4. /\ Before(wire[t], Tail(tokens[t]))
      /\ \A i \in 1 .. Len(wire[t]) : wire[t][i] < Head(tokens[t])
  BY <1>1, TailBefore DEF Ordered
<1>5. Before(Tail(tokens[t]), queue) /\ Above(queue, Head(tokens[t]))
  BY <1>1, TailBefore DEF Ordered
<1>6. /\ Sorted(Append(wire[t], Head(tokens[t]))) /\ AtMost(Append(wire[t], Head(tokens[t])), sent)
      /\ Above(Append(wire[t], Head(tokens[t])), applied[t])
  BY <1>2, <1>3, <1>4, AppendOrder DEF Ordered
<1>7. /\ Before(Append(wire[t], Head(tokens[t])), Tail(tokens[t]))
      /\ Before(Append(wire[t], Head(tokens[t])), queue)
  BY <1>2, <1>4, <1>5, AppendBefore DEF Ordered
<1> QED
  BY <1>1, <1>2, <1>5, <1>6, <1>7 DEF Ordered

LEMMA ApplyOrder ==
  ASSUME OrderInv, NEW t \in Tabs, ApplyMessage(t)
  PROVE  Ordered(t)'
<1> USE Numbers DEF OrderInv
<1>1. /\ wire[t] # <<>> /\ wire'[t] = Tail(wire[t]) /\ applied'[t] = Head(wire[t])
      /\ tokens' = tokens /\ queue' = queue /\ sent' = sent
  BY DEF ApplyMessage, broadcaster, pushing, TypeOK
<1>2. /\ Head(wire[t]) = wire[t][1] /\ 1 \in 1 .. Len(wire[t])
      /\ Sorted(Tail(wire[t])) /\ Above(Tail(wire[t]), Head(wire[t])) /\ AtMost(Tail(wire[t]), sent)
  BY <1>1, TailOrder DEF Ordered
<1>3. /\ Before(Tail(wire[t]), tokens[t]) /\ Above(tokens[t], Head(wire[t]))
      /\ Before(Tail(wire[t]), queue) /\ Above(queue, Head(wire[t]))
  BY <1>1, TailBefore DEF Ordered
<1>4. Head(wire[t]) <= sent
  BY <1>2 DEF Ordered, AtMost
<1> QED
  BY <1>1, <1>2, <1>3, <1>4 DEF Ordered

LEMMA CancelOrder ==
  ASSUME OrderInv, NEW t \in Tabs, Cancel(t)
  PROVE  Ordered(t)'
<1>1. /\ tokens'[t] = <<>> /\ wire'[t] = <<>>
      /\ queue' = queue /\ sent' = sent /\ applied' = applied
  BY DEF OrderInv, TypeOK, Cancel, pushing
<1> QED
  BY <1>1 DEF OrderInv, Ordered, Sorted, Before, Above, AtMost

LEMMA OrderKept == OrderInv /\ [Next]_vars => OrderInv'
<1> SUFFICES ASSUME OrderInv, [Next]_vars
             PROVE  QueueOrdered' /\ \A t \in Tabs : Ordered(t)'
  BY TypesKept DEF OrderInv
<1>1. ASSUME UNCHANGED <<queue, sent, tokens, wire, applied>>
      PROVE  QueueOrdered' /\ \A t \in Tabs : Ordered(t)'
  BY <1>1 DEF OrderInv, QueueOrdered, Ordered
<1>2. ASSUME NEW t \in Tabs, UNCHANGED <<queue, sent>>, Ordered(t)',
             \A u \in Tabs \ {t} : UNCHANGED <<tokens[u], wire[u], applied[u]>>
      PROVE  QueueOrdered' /\ \A u \in Tabs : Ordered(u)'
  BY <1>2 DEF OrderInv, QueueOrdered, Ordered
<1>3. ASSUME NEW p \in Pushers, Pusher(p)
      PROVE  QueueOrdered' /\ \A t \in Tabs : Ordered(t)'
  BY <1>1, <1>3, BroadcastOrder
     DEF Pusher, Run, NoBroadcaster, Lookup, Get, Finish, Leave, broadcaster, browser
<1>4. ASSUME NEW t \in Tabs, OnOpen(t) \/ Attach(t) \/ Suspend(t) \/ Remove(t)
      PROVE  QueueOrdered' /\ \A u \in Tabs : Ordered(u)'
  BY <1>1, <1>4 DEF OnOpen, Attach, Suspend, Remove, broadcaster, pushing, browser
<1>5. ASSUME NEW t \in Tabs, ApplyMessage(t)
      PROVE  QueueOrdered' /\ \A u \in Tabs : Ordered(u)'
  <2>1. Ordered(t)'
    BY <1>5, ApplyOrder
  <2>2. /\ UNCHANGED <<queue, sent>>
        /\ \A u \in Tabs \ {t} : UNCHANGED <<tokens[u], wire[u], applied[u]>>
    BY <1>5 DEF ApplyMessage, broadcaster, pushing, OrderInv, TypeOK
  <2> QED
    BY <1>2, <2>1, <2>2
<1>6. ASSUME NEW t \in Tabs, Cancel(t)
      PROVE  QueueOrdered' /\ \A u \in Tabs : Ordered(u)'
  <2>1. Ordered(t)'
    BY <1>6, CancelOrder
  <2>2. /\ UNCHANGED <<queue, sent>>
        /\ \A u \in Tabs \ {t} : UNCHANGED <<tokens[u], wire[u], applied[u]>>
    BY <1>6 DEF Cancel, pushing, OrderInv, TypeOK
  <2> QED
    BY <1>2, <2>1, <2>2
<1>7. ASSUME NEW t \in Tabs, OnMessage(t)
      PROVE  QueueOrdered' /\ \A u \in Tabs : Ordered(u)'
  <2>1. Ordered(t)'
    BY <1>7, WriteOrder
  <2>2. /\ UNCHANGED <<queue, sent>>
        /\ \A u \in Tabs \ {t} : UNCHANGED <<tokens[u], wire[u], applied[u]>>
    BY <1>7 DEF OnMessage, pushing, OrderInv, TypeOK
  <2> QED
    BY <1>2, <2>1, <2>2
<1>8. ASSUME (\E m \in Messages : DropToken(m)) \/ SessionDestroyed \/ UNCHANGED vars
      PROVE  QueueOrdered' /\ \A t \in Tabs : Ordered(t)'
  BY <1>1, <1>8 DEF DropToken, SessionDestroyed, vars, broadcaster, pushing, browser
<1> QED
  BY <1>3, <1>4, <1>5, <1>6, <1>7, <1>8, DispatchOrder DEF Next, Tab

LEMMA OrderedInOrder ==
  ASSUME TypeOK, NEW t \in Tabs, Ordered(t)
  PROVE  InOrder(t)
<1>1. wire[t] \in Seq(Nat) /\ tokens[t] \in Seq(Nat) /\ applied[t] \in Nat
  BY Numbers
<1>2. Sorted(wire[t] \o tokens[t]) /\ Above(wire[t] \o tokens[t], applied[t])
  BY <1>1, ConcatOrder DEF Ordered
<1> QED
  BY <1>2 DEF InOrder, Sorted, Above

(* To every tab messages go in the order they were broadcast, none twice and *)
(* none after a newer one, for any number of tabs, pushers and messages, and *)
(* however often connections break and are made anew.                        *)
THEOREM Delivered == Spec => []DeliveredInOrder
<1>1. Init => OrderInv
  <2>1. Init => QueueOrdered /\ \A t \in Tabs : Ordered(t)
    BY DEF Init, QueueOrdered, Ordered, Sorted, Before, Above, AtMost
  <2> QED
    BY <2>1, InitTypes DEF OrderInv
<1>2. OrderInv => DeliveredInOrder
  BY OrderedInOrder DEF OrderInv, DeliveredInOrder
<1> QED
  BY <1>1, <1>2, OrderKept, PTL DEF Spec

-----------------------------------------------------------------------------
(* The scene with one tab: t1 is it, and t2 never connects.                  *)

Waiting == \E p \in Pushers : pc[p] = "wait"

\* One pusher at a time has the monitor, and waits for the last message.
OnePusher ==
  \A p \in Pushers :
    /\ pc[p] # "idle" => lock = p
    /\ pc[p] \in {"wait", "clear"} => cur[p] = sent /\ sent > 0

OnlyTab ==
  /\ conn[t2] = "closed" /\ tokens[t2] = <<>>
  /\ \A p \in Pushers : \A t \in audience[p] : conn[t] = "open"

\* Where the last message is: in the queue of the dispatcher, with the writer
\* of the tab, void, or nowhere.
Fresh == queue = <<sent>> /\ tokens[t1] = <<>> /\ stray[sent] = 0
Queued == queue = <<>> /\ tokens[t1] = <<sent>> /\ stray[sent] = 0
Void == queue = <<>> /\ tokens[t1] = <<>> /\ stray[sent] = 1
Gone == queue = <<>> /\ tokens[t1] = <<>> /\ (sent > 0 => stray[sent] = 0)

\* A push goes on that was broadcast while the tab was connected, and it still is.
Counts == \E p \in Pushers : pc[p] \in {"wait", "clear"} /\ t1 \in audience[p]

\* Only the future of the last message is not done, and only while its push
\* waits; when it is done the message has gone to the tab that counts on it.
Pending == Waiting /\ sent > 0 /\ latch[sent] = 1
Underway == Pending /\ (Fresh \/ Queued) /\ written[t1] < sent
Missed == Pending /\ (Void \/ Gone) /\ ~Counts
Settled == (sent > 0 => latch[sent] = 0) /\ Gone /\ (Counts => written[t1] = sent)
OneMessage ==
  /\ \A m \in Messages : m # sent => latch[m] = 0 /\ stray[m] = 0
  /\ Underway \/ Missed \/ Settled
  /\ written[t1] <= sent

One == OnlyTab /\ OnePusher /\ OneMessage
OneTabInv == oneTab => One

-----------------------------------------------------------------------------
LEMMA CountIsOne ==
  ASSUME Tabs = {t1, t2}, TypeOK, OnlyTab
  PROVE  Count = 1 /\ (Resources = {} <=> conn[t1] \notin {"open", "cancelled"})
<1>1. Resources = {} \/ Resources = {t1}
  BY DEF Resources, OnlyTab
<1>2. Cardinality({t1}) = 1
  BY FS_Singleton
<1> QED
  BY <1>1, <1>2 DEF Count, Resources

LEMMA PusherOne ==
  ASSUME Tabs = {t1, t2}, t1 # t2, TypeOK, One, NEW p \in Pushers, Pusher(p)
  PROVE  One'
<1> USE PushChannelAssumption DEF One, Goto, Leave
<1>1. CASE Run(p)
  <2>1. /\ UNCHANGED <<conn, audience, tokens, queue, latch, stray, sent, written, cur>>
        /\ \A q \in Pushers : pc'[q] = IF q = p THEN "lookup" ELSE pc[q]
        /\ \A q \in Pushers : pc[q] = "idle"
        /\ lock' = p
    BY <1>1 DEF Run, broadcaster, OnePusher, TypeOK
  <2>2. Counts' <=> Counts
    BY <2>1 DEF Counts
  <2>3. Waiting' <=> Waiting
    BY <2>1 DEF Waiting
  <2> QED
    BY <2>1, <2>2, <2>3 DEF OnlyTab, OnePusher, OneMessage, Underway, Missed, Settled, Pending,
       Fresh, Queued, Void, Gone
<1>2. CASE NoBroadcaster(p) \/ Lookup(p)
  <2>1. /\ UNCHANGED <<conn, audience, tokens, queue, latch, stray, sent, written, cur>>
        /\ \A q \in Pushers \ {p} : pc'[q] = pc[q] /\ pc[q] = "idle"
        /\ pc[p] = "lookup" /\ pc'[p] \in {"idle", "broadcast"}
        /\ pc'[p] = "broadcast" => lock' = p
    BY <1>2 DEF NoBroadcaster, Lookup, broadcaster, OnePusher, TypeOK
  <2>2. Counts' <=> Counts
    BY <2>1 DEF Counts
  <2>3. Waiting' <=> Waiting
    BY <2>1 DEF Waiting
  <2> QED
    BY <2>1, <2>2, <2>3 DEF OnlyTab, OnePusher, OneMessage, Underway, Missed, Settled, Pending,
       Fresh, Queued, Void, Gone
<1>3. CASE Broadcast(p)
  <2>1. /\ pc[p] = "broadcast" /\ sent' = sent + 1 /\ sent + 1 \in Messages
        /\ sent \in Nat
        /\ UNCHANGED <<conn, tokens, stray, lock, written>>
        /\ pc' = [pc EXCEPT ![p] = "wait"] /\ cur' = [cur EXCEPT ![p] = sent + 1]
        /\ latch' = [latch EXCEPT ![sent + 1] = Count]
        /\ queue' = Append(queue, sent + 1)
        /\ audience' = [audience EXCEPT ![p] = {t \in Tabs : conn[t] = "open"}]
    BY <1>3 DEF Broadcast, TypeOK, Messages
  <2>2. \A q \in Pushers \ {p} : pc[q] = "idle" /\ pc'[q] = "idle"
    BY <2>1 DEF OnePusher, TypeOK
  <2>3. pc'[p] = "wait" /\ cur'[p] = sent' /\ lock' = p
    BY <2>1 DEF OnePusher, TypeOK
  <2>4. OnePusher' /\ OnlyTab'
    <3>1. sent' > 0
      BY <2>1
    <3>2. OnePusher'
      BY <2>2, <2>3, <3>1 DEF OnePusher
    <3>3. \A q \in Pushers : \A t \in audience'[q] : conn[t] = "open"
      BY <2>1 DEF OnlyTab, TypeOK
    <3> QED
      BY <2>1, <3>2, <3>3 DEF OnlyTab
  <2>5. ~Waiting /\ Waiting'
    BY <2>1, <2>2, <2>3 DEF Waiting
  <2>6. Settled
    BY <2>5 DEF OneMessage, Underway, Missed, Pending
  <2>7. queue' = <<sent'>>
    BY <2>1, <2>6 DEF Settled, Gone
  <2>8. \A m \in Messages : /\ latch'[m] = IF m = sent' THEN 1 ELSE 0
                            /\ stray'[m] = 0
    <3>1. ASSUME NEW m \in Messages PROVE latch[m] = 0 /\ stray[m] = 0
      BY <2>6, <3>1 DEF Settled, Gone, OneMessage, Messages
    <3>2. Count = 1
      BY CountIsOne
    <3> QED
      BY <2>1, <3>1, <3>2 DEF TypeOK
  <2>9. written'[t1] < sent' /\ written[t1] \in Nat
    BY <2>1 DEF OneMessage, TypeOK
  <2> QED
    BY <2>1, <2>4, <2>5, <2>6, <2>7, <2>8, <2>9
       DEF OneMessage, Underway, Pending, Fresh, Settled, Gone
<1>4. CASE Get(p)
  <2>1. /\ UNCHANGED <<conn, audience, tokens, queue, latch, stray, sent, written, cur, lock>>
        /\ \A q \in Pushers \ {p} : pc'[q] = pc[q] /\ pc[q] = "idle"
        /\ pc[p] = "wait" /\ pc'[p] = "clear" /\ latch[sent] = 0
    BY <1>4 DEF Get, broadcaster, OnePusher, TypeOK
  <2>2. Counts' <=> Counts
    BY <2>1 DEF Counts
  <2>3. Settled
    BY <2>1 DEF OneMessage, Underway, Missed, Pending
  <2> QED
    BY <2>1, <2>2, <2>3 DEF OnlyTab, OnePusher, OneMessage, Settled, Gone
<1>5. CASE Finish(p)
  <2>1. /\ UNCHANGED <<conn, audience, tokens, queue, latch, stray, sent, written, cur>>
        /\ \A q \in Pushers \ {p} : pc'[q] = pc[q] /\ pc[q] = "idle"
        /\ pc[p] = "clear" /\ pc'[p] = "idle"
    BY <1>5 DEF Finish, broadcaster, OnePusher, TypeOK
  <2>2. ~Waiting /\ ~Counts'
    BY <2>1 DEF Waiting, Counts
  <2> QED
    BY <2>1, <2>2 DEF OnlyTab, OnePusher, OneMessage, Underway, Missed, Pending, Settled, Gone
<1> QED
  BY <1>1, <1>2, <1>3, <1>4, <1>5 DEF Pusher

LEMMA TabOne ==
  ASSUME Tabs = {t1, t2}, t1 # t2, TypeOK, One, conn'[t2] = "closed",
         NEW t \in Tabs, Tab(t) \/ Cancel(t) \/ Remove(t) \/ OnMessage(t)
  PROVE  One'
<1> USE DEF One, Become
<1>1. CASE OnOpen(t) \/ Attach(t) \/ Suspend(t) \/ Remove(t)
  <2>1. /\ UNCHANGED <<audience, tokens, queue, latch, stray, sent, written, pc, cur, lock>>
        /\ conn[t] # "open"
        /\ \A u \in Tabs \ {t} : conn'[u] = conn[u]
    BY <1>1 DEF OnOpen, Attach, Suspend, Remove, broadcaster, pushing, TypeOK
  <2>2. OnlyTab'
    BY <2>1 DEF OnlyTab, TypeOK
  <2>3. (Counts' <=> Counts) /\ (Waiting' <=> Waiting)
    BY <2>1 DEF Counts, Waiting
  <2> QED
    BY <2>1, <2>2, <2>3 DEF OnePusher, OneMessage, Underway, Missed, Settled, Pending, Fresh,
       Queued, Void, Gone
<1>2. CASE ApplyMessage(t)
  <2>1. UNCHANGED <<conn, audience, tokens, queue, latch, stray, sent, written, pc, cur, lock>>
    BY <1>2 DEF ApplyMessage, broadcaster, pushing
  <2>2. (Counts' <=> Counts) /\ (Waiting' <=> Waiting)
    BY <2>1 DEF Counts, Waiting
  <2> QED
    BY <2>1, <2>2 DEF OnlyTab, OnePusher, OneMessage, Underway, Missed, Settled, Pending, Fresh,
       Queued, Void, Gone
<1>3. CASE Cancel(t)
  <2>1. t = t1
    BY <1>3 DEF Cancel, OnlyTab
  <2>2. /\ UNCHANGED <<queue, latch, sent, written, pc, cur, lock>>
        /\ conn[t1] = "open" /\ tokens' = [tokens EXCEPT ![t1] = <<>>]
        /\ \A p \in Pushers : audience'[p] = audience[p] \ {t1}
        /\ \A m \in Messages : stray'[m] =
             stray[m] + Cardinality({i \in 1 .. Len(tokens[t1]) : tokens[t1][i] = m})
    BY <1>3, <2>1 DEF Cancel, pushing
  <2>3. OnlyTab'
    BY <1>3, <2>1, <2>2 DEF OnlyTab, TypeOK, Cancel
  <2>4. ~Counts' /\ (Waiting' <=> Waiting)
    BY <2>2 DEF Counts, Waiting
  <2>5. tokens'[t1] = <<>>
    BY <2>2 DEF TypeOK
  <2>6. CASE tokens[t1] = <<>>
    <3>1. \A m \in Messages : {i \in 1 .. Len(tokens[t1]) : tokens[t1][i] = m} = {}
      BY <2>6
    <3>2. ASSUME NEW m \in Messages PROVE stray'[m] = stray[m]
      <4>1. Cardinality({i \in 1 .. Len(tokens[t1]) : tokens[t1][i] = m}) = 0
        BY <3>1, FS_EmptySet, Zenon
      <4>2. stray'[m] =
              stray[m] + Cardinality({i \in 1 .. Len(tokens[t1]) : tokens[t1][i] = m})
        BY <2>2
      <4>3. stray[m] \in Nat
        BY DEF TypeOK
      <4> QED
        BY <4>1, <4>2, <4>3
    <3>3. sent > 0 => sent \in Messages
      BY PushChannelAssumption DEF TypeOK, Messages
    <3> QED
      BY <2>2, <2>3, <2>4, <2>5, <2>6, <3>2, <3>3 DEF OnePusher, OneMessage, Underway, Missed,
         Settled, Pending, Fresh, Queued, Void, Gone
  <2>7. CASE tokens[t1] # <<>>
    <3>1. Pending /\ Queued /\ sent \in Messages
      BY <2>7 DEF OneMessage, Underway, Missed, Settled, Fresh, Void, Gone, Queued, Pending,
         TypeOK, Messages
    <3>2. ASSUME NEW m \in Messages PROVE stray'[m] = IF m = sent THEN 1 ELSE 0
      <4>1. {i \in 1 .. Len(tokens[t1]) : tokens[t1][i] = m} = IF m = sent THEN {1} ELSE {}
        BY <3>1 DEF Queued
      <4>2. stray[m] = 0
        BY <3>1 DEF Queued, OneMessage
      <4>3. Cardinality({}) = 0 /\ Cardinality({1}) = 1
        BY FS_EmptySet, FS_Singleton
      <4>4. Cardinality({i \in 1 .. Len(tokens[t1]) : tokens[t1][i] = m}) =
              IF m = sent THEN 1 ELSE 0
        BY <4>1, <4>3, Zenon
      <4>5. stray'[m] =
              stray[m] + Cardinality({i \in 1 .. Len(tokens[t1]) : tokens[t1][i] = m})
        BY <2>2
      <4> QED
        BY <4>2, <4>4, <4>5
    <3> QED
      BY <2>2, <2>3, <2>4, <2>5, <3>1, <3>2 DEF OnePusher, OneMessage, Missed, Pending, Void,
         Queued
  <2> QED
    BY <2>6, <2>7
<1>4. CASE OnMessage(t)
  <2>1. t = t1 /\ tokens[t1] # <<>>
    BY <1>4 DEF OnMessage, OnlyTab
  <2>2. Pending /\ Queued /\ sent \in Messages
    BY <2>1 DEF OneMessage, Underway, Missed, Settled, Fresh, Void, Gone, Queued, Pending,
       TypeOK, Messages
  <2>3. Head(tokens[t1]) = sent /\ Tail(tokens[t1]) = <<>>
    BY <2>2 DEF Queued
  <2>4. /\ UNCHANGED <<conn, audience, queue, stray, sent, pc, cur, lock>>
        /\ latch' = [latch EXCEPT ![sent] = Down(sent)]
        /\ written'[t1] = sent /\ tokens'[t1] = <<>> /\ tokens'[t2] = tokens[t2]
    BY <1>4, <2>1, <2>3 DEF OnMessage, pushing, TypeOK
  <2>5. Down(sent) = 0
    BY <2>2 DEF Pending, Down
  <2>6. Settled'
    BY <2>2, <2>4, <2>5 DEF Settled, Queued, Gone, TypeOK
  <2>7. \A m \in Messages : m # sent' => latch'[m] = 0 /\ stray'[m] = 0
    BY <2>2, <2>4 DEF OneMessage, TypeOK
  <2>8. written'[t1] <= sent'
    BY <2>4, PushChannelAssumption DEF TypeOK
  <2> QED
    BY <2>4, <2>6, <2>7, <2>8 DEF OnlyTab, OnePusher, OneMessage
<1> QED
  BY <1>1, <1>2, <1>3, <1>4 DEF Tab

LEMMA BroadcasterOne ==
  ASSUME Tabs = {t1, t2}, t1 # t2, TypeOK, One,
         Dispatch \/ (\E m \in Messages : DropToken(m)) \/ SessionDestroyed
  PROVE  One'
<1> USE DEF One
<1>1. CASE Dispatch
  <2>1. Pending /\ Fresh /\ written[t1] < sent /\ sent \in Messages
    BY <1>1 DEF Dispatch, OneMessage, Underway, Missed, Settled, Fresh, Void, Gone, Queued,
       Pending, TypeOK, Messages
  <2>2. Head(queue) = sent /\ Tail(queue) = <<>>
    BY <2>1 DEF Fresh
  <2>3. /\ UNCHANGED <<conn, audience, stray, sent, written, pc, cur, lock>>
        /\ queue' = <<>>
    BY <1>1, <2>2 DEF Dispatch, pushing
  <2>4. (Counts' <=> Counts) /\ (Waiting' <=> Waiting)
    BY <2>3 DEF Counts, Waiting
  <2>5. conn[t1] # "open" => ~Counts
    BY DEF Counts, OnlyTab
  <2>6. CASE Resources = {}
    <3>1. latch' = [latch EXCEPT ![sent] = Down(sent)] /\ tokens' = tokens /\ Down(sent) = 0
      BY <1>1, <2>1, <2>2, <2>6 DEF Dispatch, Pending, Down
    <3>2. ~Counts
      BY <2>5, <2>6, CountIsOne
    <3>3. Settled'
      BY <2>1, <2>3, <2>4, <3>1, <3>2 DEF Settled, Gone, Fresh, TypeOK
    <3>4. \A m \in Messages : m # sent' => latch'[m] = 0 /\ stray'[m] = 0
      BY <2>3, <3>1 DEF OneMessage, TypeOK
    <3> QED
      BY <2>3, <3>1, <3>3, <3>4 DEF OnlyTab, OnePusher, OneMessage
  <2>7. CASE Resources # {}
    <3>1. /\ latch' = latch
          /\ tokens' = [t \in Tabs |-> IF conn[t] = "open" THEN Append(tokens[t], sent)
                                                           ELSE tokens[t]]
      BY <1>1, <2>2, <2>7 DEF Dispatch
    <3>2. tokens'[t2] = <<>>
      BY <3>1 DEF OnlyTab
    <3>3. tokens'[t1] = IF conn[t1] = "open" THEN <<sent>> ELSE <<>>
      <4>1. tokens[t1] = <<>> /\ Append(<<>>, sent) = <<sent>>
        BY <2>1 DEF Fresh
      <4>2. tokens'[t1] = IF conn[t1] = "open" THEN Append(tokens[t1], sent) ELSE tokens[t1]
        BY <3>1
      <4> QED
        BY <4>1, <4>2
    <3>4. Pending'
      BY <2>1, <2>3, <2>4, <3>1 DEF Pending
    <3>5. Underway' \/ Missed'
      BY <2>1, <2>3, <2>4, <2>5, <3>3, <3>4 DEF Underway, Missed, Queued, Gone, Fresh
    <3> QED
      BY <2>3, <3>1, <3>2, <3>5 DEF OnlyTab, OnePusher, OneMessage
  <2> QED
    BY <2>6, <2>7
<1>2. ASSUME NEW m \in Messages, DropToken(m) PROVE One'
  <2>1. m = sent /\ Pending /\ Void /\ ~Counts
    BY <1>2 DEF DropToken, OneMessage, Underway, Missed, Settled, Fresh, Void, Gone, Queued,
       Pending, Messages
  <2>2. /\ UNCHANGED <<conn, audience, queue, tokens, sent, written, pc, cur, lock>>
        /\ latch' = [latch EXCEPT ![sent] = Down(sent)] /\ Down(sent) = 0
        /\ stray' = [stray EXCEPT ![sent] = stray[sent] - 1] /\ stray[sent] = 1
    BY <1>2, <2>1 DEF DropToken, pushing, Pending, Down, Void
  <2>3. ~Counts'
    BY <2>1, <2>2 DEF Counts
  <2>4. Settled'
    BY <1>2, <2>1, <2>2, <2>3 DEF Settled, Gone, Void, TypeOK
  <2>5. \A k \in Messages : k # sent' => latch'[k] = 0 /\ stray'[k] = 0
    BY <2>2 DEF OneMessage, TypeOK
  <2> QED
    BY <2>2, <2>4, <2>5 DEF OnlyTab, OnePusher, OneMessage
<1>3. CASE SessionDestroyed
  <2>1. UNCHANGED <<conn, audience, tokens, queue, latch, stray, sent, written, pc, cur, lock>>
    BY <1>3 DEF SessionDestroyed, pushing
  <2>2. (Counts' <=> Counts) /\ (Waiting' <=> Waiting)
    BY <2>1 DEF Counts, Waiting
  <2> QED
    BY <2>1, <2>2 DEF OnlyTab, OnePusher, OneMessage, Underway, Missed, Settled, Pending, Fresh,
       Queued, Void, Gone
<1> QED
  BY <1>1, <1>2, <1>3

LEMMA SceneStep == [SceneNext]_<<vars, oneTab>> => [Next]_vars
BY DEF SceneNext

LEMMA OneKept ==
  ASSUME Tabs = {t1, t2}, t1 # t2, TypeOK, OneTabInv, [SceneNext]_<<vars, oneTab>>
  PROVE  OneTabInv'
<1> SUFFICES ASSUME oneTab PROVE One'
  BY DEF OneTabInv, SceneNext
<1>1. One
  BY DEF OneTabInv
<1>2. CASE SceneNext
  BY <1>1, <1>2, PusherOne, TabOne, BroadcasterOne DEF SceneNext, Next
<1>3. CASE UNCHANGED <<vars, oneTab>>
  <2>1. UNCHANGED <<conn, audience, tokens, queue, latch, stray, sent, written, pc, cur, lock>>
    BY <1>3 DEF vars, broadcaster, pushing
  <2>2. (Counts' <=> Counts) /\ (Waiting' <=> Waiting)
    BY <2>1 DEF Counts, Waiting
  <2> QED
    BY <1>1, <2>1, <2>2 DEF One, OnlyTab, OnePusher, OneMessage, Underway, Missed, Settled,
       Pending, Fresh, Queued, Void, Gone
<1> QED
  BY <1>2, <1>3

LEMMA OneInit == Tabs = {t1, t2} /\ SceneInit => TypeOK /\ OneTabInv
<1> SUFFICES ASSUME Tabs = {t1, t2}, Init PROVE TypeOK /\ One
  BY DEF SceneInit, OneTabInv
<1>1. OnlyTab /\ OnePusher
  BY DEF Init, OnlyTab, OnePusher
<1>2. OneMessage
  BY DEF Init, OneMessage, Settled, Gone, Counts, Messages
<1> QED
  BY <1>1, <1>2, InitTypes DEF One

(* When a push has waited for its message and before it gives the monitor    *)
(* back, the only tab has been sent it, if it was connected at the broadcast *)
(* and still is: whoever counts the future down, writer or dispatcher.       *)
THEOREM TabUpdated ==
  ASSUME Tabs = {t1, t2}, t1 # t2
  PROVE  SceneSpec => []OneTabUpdated
<1>1. TypeOK /\ OneTabInv => OneTabUpdated
  <2> SUFFICES ASSUME TypeOK, One, NEW p \in Pushers, pc[p] = "clear", NEW t \in audience[p]
               PROVE  written[t] = cur[p]
    BY DEF OneTabUpdated, UpdatedBeforeUnlock, OneTabInv
  <2>1. lock = p /\ cur[p] = sent
    BY DEF One, OnePusher
  <2>2. ~Waiting
    BY <2>1 DEF One, OnePusher, Waiting
  <2>3. t = t1
    BY DEF One, OnlyTab, TypeOK
  <2> QED
    BY <2>1, <2>2, <2>3 DEF One, OnlyTab, OneMessage, Underway, Missed, Settled, Pending, Counts
<1> QED
  BY <1>1, OneInit, OneKept, TypesKept, SceneStep, PTL DEF SceneSpec

-----------------------------------------------------------------------------
(* The session with one tab implements the log of PushLog.                   *)

LEMMA LogInit == SceneInit => Log!Init
BY DEF SceneInit, Init, Log!Init

\* What a pusher's step is to the log.
LEMMA PusherLogs ==
  ASSUME Tabs = {t1, t2}, t1 # t2, TypeOK, One, oneTab, oneTab', NEW p \in Pushers, Pusher(p)
  PROVE  [Log!Next]_Log!vars
<1> USE PushChannelAssumption DEF One
<1>1. written' = written
  BY DEF Pusher, Run, NoBroadcaster, Lookup, Broadcast, Get, Finish
<1>2. CASE Broadcast(p)
  <2>1. ~Waiting
    BY <1>2 DEF Broadcast, Waiting, OnePusher
  <2>2. Waiting' /\ sent' = sent + 1 /\ sent \in Nat
    BY <1>2 DEF Broadcast, Goto, Waiting, TypeOK
  <2>3. Log!Begin
    BY <1>1, <2>1, <2>2 DEF Log!Begin, Waiting
  <2> QED
    BY <2>3 DEF Log!Next
<1>3. CASE Get(p)
  <2>1. Waiting /\ sent' = sent /\ sent \in Nat
    BY <1>3 DEF Get, Waiting, TypeOK
  <2>2. ~Waiting'
    BY <1>3 DEF Get, Goto, Waiting, OnePusher, TypeOK
  <2>3. Log!Complete
    BY <1>1, <2>1, <2>2 DEF Log!Complete, Waiting
  <2> QED
    BY <2>3 DEF Log!Next
<1>4. CASE Run(p) \/ NoBroadcaster(p) \/ Lookup(p) \/ Finish(p)
  <2>1. sent' = sent
    BY <1>4 DEF Run, NoBroadcaster, Lookup, Finish
  <2>2. Waiting' <=> Waiting
    BY <1>4 DEF Run, NoBroadcaster, Lookup, Finish, Goto, Leave, Waiting, TypeOK
  <2> QED
    BY <1>1, <2>1, <2>2 DEF Log!vars, Waiting
<1> QED
  BY <1>2, <1>3, <1>4 DEF Pusher

\* A writer's step is a write of the log, any other step is none.
LEMMA OthersLog ==
  ASSUME Tabs = {t1, t2}, t1 # t2, TypeOK, One, oneTab, oneTab', [Next]_vars,
         ~(\E p \in Pushers : Pusher(p))
  PROVE  [Log!Next]_Log!vars
<1>1. UNCHANGED <<sent, pc>>
  BY DEF Next, Tab, OnOpen, Attach, Suspend, ApplyMessage, Cancel, Remove, OnMessage, Dispatch,
     DropToken, SessionDestroyed, vars, pushing
<1>2. ASSUME NEW t \in Tabs, OnMessage(t) PROVE Log!Next
  <2>1. t = t1 /\ tokens[t1] # <<>>
    BY <1>2 DEF OnMessage, One, OnlyTab
  <2>2. Underway /\ Queued
    BY <2>1 DEF One, OneMessage, Underway, Missed, Settled, Fresh, Void, Gone, Queued
  <2>3. Waiting /\ written[t1] < sent /\ sent \in Nat
    BY <2>2 DEF Underway, Pending, TypeOK
  <2>4. written' = [written EXCEPT ![t1] = sent]
    BY <1>2, <2>1, <2>2 DEF OnMessage, Queued
  <2>5. Log!Write(t1)
    BY <1>1, <2>3, <2>4 DEF Log!Write, Waiting
  <2> QED
    BY <2>5 DEF Log!Next
<1>3. ASSUME written' = written PROVE UNCHANGED Log!vars
  BY <1>1, <1>3 DEF Log!vars
<1>4. (\E t \in Tabs : OnMessage(t)) \/ written' = written
  BY DEF Next, Tab, OnOpen, Attach, Suspend, ApplyMessage, Cancel, Remove, Dispatch, DropToken,
     SessionDestroyed, vars
<1> QED
  BY <1>2, <1>3, <1>4

LEMMA LogStep ==
  ASSUME Tabs = {t1, t2}, t1 # t2, TypeOK, OneTabInv, [SceneNext]_<<vars, oneTab>>
  PROVE  [Log!Next]_Log!vars
<1>1. oneTab' = oneTab
  BY DEF SceneNext
<1>2. CASE oneTab
  BY <1>1, <1>2, SceneStep, PusherLogs, OthersLog DEF OneTabInv
<1>3. CASE ~oneTab
  BY <1>1, <1>3 DEF Log!vars
<1> QED
  BY <1>2, <1>3

(* To its only tab the session is a log: a push begins when the one before   *)
(* has ended, and the tab is sent a message while its push waits, never      *)
(* later and never twice (Pushable, with the broadcaster between).           *)
THEOREM SessionIsLog ==
  ASSUME Tabs = {t1, t2}, t1 # t2
  PROVE  SceneSpec => OneTabOneByOne
BY OneInit, OneKept, TypesKept, SceneStep, LogInit, LogStep, PTL
   DEF SceneSpec, OneTabOneByOne, Log!Spec
=============================================================================
