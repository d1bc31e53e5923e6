--------------------------- MODULE Deferreds_proofs ---------------------------
(***************************************************************************)
(* What the functions of the page, when() and then() make of the outcomes  *)
(* of any number of deferreds, whichever functions the page adds and in    *)
(* whatever order and depth it settles them: OutcomesAgree; and a deferred *)
(* that is settled stays as it is.                                         *)
(*                                                                         *)
(* The invariant has two halves.  Shape: where each list and each loop is, *)
(* and what the state of a deferred has to do with it.  Duty: which        *)
(* functions of a list are still to be called, and what follows from those *)
(* that have been.                                                         *)
(***************************************************************************)
EXTENDS Deferreds, Integers, FiniteSetTheorems, SequenceTheorems, TLAPS

\* The functions of the page are for lists that there are.
HandlersFit ==
  \A h \in Handlers : h.d \in Deferreds /\ h.t \in Tuples \cup {"always"}

Finals == {"resolve", "reject"}

-----------------------------------------------------------------------------
(* The functions in a list.                                                  *)

User(h) == [do |-> "user", h |-> h]
Passer(t) == [do |-> "pass", t |-> t]
Reporter(t) ==
  IF t = "reject" THEN SettleFunction(Master, "reject") ELSE [do |-> "update", t |-> t]

\* The first three: they settle the deferred.
Setter(d, t) == [do |-> "state", d |-> d, t |-> t]
Disabler(d, t) == [do |-> "disable", d |-> d, t |-> Opposite[t]]
Locker(d) == [do |-> "lock", d |-> d, t |-> "notify"]

\* The others.
Listens(h, d, t) == h \in Handlers /\ h.d = d /\ (h.t = t \/ (h.t = "always" /\ t \in Finals))
InBody(f, d, t) ==
  \/ \E h \in Handlers : Listens(h, d, t) /\ f = User(h)
  \/ d \in Subs /\ Master \notin Subs /\ f = Reporter(t)
  \/ d = Master /\ f = Passer(t)
  \/ d = Inner /\ f = SettleFunction(Follower, t)

Things ==
  {User(h) : h \in Handlers} \cup {Passer(t) : t \in Tuples} \cup {Reporter(t) : t \in Tuples}
  \cup {SettleFunction(Follower, t) : t \in Tuples}
  \cup {Setter(d, t) : d \in Deferreds, t \in Finals}
  \cup {Disabler(d, t) : d \in Deferreds, t \in Finals} \cup {Locker(d) : d \in Deferreds}

Headers == {"state", "disable", "lock"}

LEMMA Numbers ==
  ASSUME Subordinates \in Nat
  PROVE  /\ Master \in Nat /\ Follower \in Nat /\ Inner \in Nat
         /\ Subs \subseteq Nat /\ Deferreds \subseteq Nat
         /\ Master \in Deferreds /\ Follower \in Deferreds /\ Inner \in Deferreds
         /\ Subs \subseteq Deferreds
         /\ Follower \notin Subs /\ Inner \notin Subs
         /\ Follower # Master /\ Inner # Master /\ Inner # Follower
<1>1. CASE Subordinates = 1 /\ Plain = 0
  BY <1>1 DEF Master, Follower, Inner, Subs, Deferreds
<1>2. CASE ~(Subordinates = 1 /\ Plain = 0)
  BY <1>2 DEF Master, Follower, Inner, Subs, Deferreds
<1> QED
  BY <1>1, <1>2

LEMMA BodyIsThings ==
  ASSUME NEW f, NEW d, NEW t \in Tuples, InBody(f, d, t)
  PROVE  f \in Things /\ f.do \notin Headers
<1>1. CASE \E h \in Handlers : Listens(h, d, t) /\ f = User(h)
  BY <1>1 DEF Things, User, Headers
<1>2. CASE f = Reporter(t)
  <2>1. f.do \in {"update", "settle"}
    BY <1>2 DEF Reporter, SettleFunction
  <2>2. f \in Things
    BY <1>2 DEF Things
  <2> QED
    BY <2>1, <2>2 DEF Headers
<1>3. CASE f = Passer(t)
  <2>1. f.do = "pass"
    BY <1>3 DEF Passer
  <2>2. f \in Things
    BY <1>3 DEF Things
  <2> QED
    BY <2>1, <2>2 DEF Headers
<1>4. CASE f = SettleFunction(Follower, t)
  <2>1. f.do = "settle"
    BY <1>4 DEF SettleFunction
  <2>2. f \in Things
    BY <1>4 DEF Things
  <2> QED
    BY <2>1, <2>2 DEF Headers
<1> QED
  BY <1>1, <1>2, <1>3, <1>4 DEF InBody

LEMMA HeadsAreThings ==
  ASSUME NEW d \in Deferreds, NEW t \in Finals
  PROVE  /\ Setter(d, t) \in Things /\ Disabler(d, t) \in Things /\ Locker(d) \in Things
         /\ Setter(d, t).do = "state" /\ Disabler(d, t).do = "disable" /\ Locker(d).do = "lock"
         /\ Setter(d, t).d = d /\ Setter(d, t).t = t
         /\ Disabler(d, t).d = d /\ Disabler(d, t).t = Opposite[t]
         /\ Locker(d).d = d /\ Locker(d).t = "notify"
<1>1. Setter(d, t) \in Things /\ Disabler(d, t) \in Things /\ Locker(d) \in Things
  BY DEF Things
<1> QED
  BY <1>1 DEF Setter, Disabler, Locker

-----------------------------------------------------------------------------
(* One list.                                                                 *)

Lists ==
  [options : {{"memory"}, {"once", "memory"}}, alive : BOOLEAN, list : Seq(Things),
   repeats : BOOLEAN, stack : Seq(Nat), memory : Nat, fired : BOOLEAN, firing : BOOLEAN,
   length : Nat, index : Nat, start : Nat, data : Nat]

\* The functions that are still to be called.
Waits(l) == {i \in DOMAIN l.list : l.firing => l.index <= i}
Waiting(l) == {l.list[i] : i \in Waits(l)}

\* What then() adds to the lists of Inner comes again with each note that it passes.
MayComeAgain(f) ==
  "notify" \in Chained /\ f \in {SettleFunction(Follower, t) : t \in Tuples}
Distinct(l) ==
  \A i, j \in Waits(l) : l.list[i] = l.list[j] => i = j \/ MayComeAgain(l.list[i])

\* The list of an outcome: not fired yet; in the loop, at one of the functions
\* that settle the deferred, or behind them; fired; or disabled.
Headed(l, d, t) ==
  /\ Len(l.list) >= 3
  /\ l.list[1] = Setter(d, t) /\ l.list[2] = Disabler(d, t) /\ l.list[3] = Locker(d)
  /\ \A i \in DOMAIN l.list : i > 3 => InBody(l.list[i], d, t)
Virgin(l, d, t) ==
  l.alive /\ ~l.fired /\ ~l.firing /\ l.memory = None /\ Headed(l, d, t)
Loops(l) ==
  /\ l.alive /\ l.fired /\ l.firing /\ l.memory = 1 /\ l.length = Len(l.list)
  /\ 1 <= l.index /\ l.index <= l.length + 1
Setting(l, d, t) == Loops(l) /\ l.index <= 3 /\ Headed(l, d, t)
Running(l, d, t) == Loops(l) /\ \A f \in Waiting(l) : InBody(f, d, t)
Done(l) == l.alive /\ l.fired /\ ~l.firing /\ l.memory = 1 /\ l.list = <<>>
Dead(l) == ~l.alive /\ ~l.fired /\ ~l.firing /\ l.list = <<>>

OutcomeFits(l, d, t) ==
  /\ l.options = {"once", "memory"} /\ ~l.repeats /\ l.stack = <<>> /\ l.start = 1
  /\ Distinct(l)
  /\ Virgin(l, d, t) \/ Setting(l, d, t) \/ Running(l, d, t) \/ Done(l) \/ Dead(l)

NotesFit(l, d) ==
  /\ \A i \in DOMAIN l.list : InBody(l.list[i], d, "notify")
  /\ l.options = {"memory"} /\ l.start = 1
  /\ l.firing /\ l.alive => l.length = Len(l.list) /\ l.index >= 1

ListFits(l, d, t) == IF t \in Finals THEN OutcomeFits(l, d, t) ELSE NotesFit(l, d)

LEMMA SettingIsNotRunning ==
  ASSUME NEW l \in Lists, NEW d \in Deferreds, NEW t \in Finals, Setting(l, d, t)
  PROVE  /\ ~Running(l, d, t) /\ Calls(l) /\ l.firing /\ l.fired
         /\ Called(l).do \in Headers
<1>1. l.index \in 1 .. 3 /\ l.index \in DOMAIN l.list /\ l.index <= l.length /\ l.alive
  BY DEF Setting, Loops, Headed, Lists
<1>2. l.list[l.index].do \in Headers
  BY <1>1, HeadsAreThings DEF Setting, Headed, Headers
<1>3. l.list[l.index] \in Waiting(l)
  BY <1>1 DEF Waiting, Waits, Lists
<1>4. t \in Tuples
  BY DEF Finals, Tuples
<1>5. ~Running(l, d, t)
  BY <1>2, <1>3, <1>4, BodyIsThings DEF Running
<1> QED
  BY <1>1, <1>2, <1>5 DEF Calls, Called, Setting, Loops

\* fire() begins a loop.
LEMMA FireResult ==
  ASSUME NEW l \in Lists, NEW v \in Nat
  PROVE  LET m == Fire(l, v) IN
         /\ m \in Lists
         /\ m.options = l.options /\ m.alive = l.alive /\ m.list = l.list
         /\ m.repeats = l.repeats /\ m.stack = l.stack
         /\ m.memory = (IF "memory" \in l.options THEN v ELSE None)
         /\ m.fired = TRUE /\ m.firing = TRUE /\ m.index = l.start /\ m.start = 1
         /\ m.length = Len(l.list) /\ m.data = v
<1> DEFINE e == IF "memory" \in l.options THEN v ELSE None
           k == [l EXCEPT !.memory = e, !.fired = TRUE, !.index = l.start]
           m == [k EXCEPT !.start = 1, !.length = Len(l.list), !.firing = TRUE, !.data = v]
<1>1. e \in Nat /\ l.start \in Nat /\ Len(l.list) \in Nat
  BY DEF None, Lists
<1>2. Fire(l, v) = m
  BY Zenon DEF Fire
<1> HIDE DEF e
<1>3. /\ k \in Lists
      /\ k.options = l.options /\ k.alive = l.alive /\ k.list = l.list
      /\ k.repeats = l.repeats /\ k.stack = l.stack
      /\ k.memory = e /\ k.fired = TRUE /\ k.index = l.start
  BY <1>1 DEF Lists
<1> HIDE DEF k
<1>4. /\ m \in Lists
      /\ m.options = k.options /\ m.alive = k.alive /\ m.list = k.list
      /\ m.repeats = k.repeats /\ m.stack = k.stack
      /\ m.memory = k.memory /\ m.fired = k.fired /\ m.index = k.index
      /\ m.start = 1 /\ m.length = Len(l.list) /\ m.firing = TRUE /\ m.data = v
  BY <1>1, <1>3 DEF Lists
<1> HIDE DEF m
<1> QED
  BY <1>2, <1>3, <1>4 DEF e

\* A function is added: ahead of the loop, if the list is still of use.
LEMMA AddFits ==
  ASSUME NEW l \in Lists, NEW d \in Deferreds, NEW t \in Finals, NEW f,
         OutcomeFits(l, d, t), ~Setting(l, d, t), InBody(f, d, t),
         f \notin Waiting(l) \/ MayComeAgain(f)
  PROVE  LET m == Add(l, f) IN
         /\ m \in Lists /\ OutcomeFits(m, d, t) /\ ~Setting(m, d, t)
         /\ m.alive = l.alive /\ m.fired = l.fired
         /\ m.firing = (l.firing \/ (l.alive /\ l.fired))
         /\ Waiting(m) = IF l.alive THEN Waiting(l) \cup {f} ELSE Waiting(l)
<1> DEFINE m == Add(l, f)
           n == Len(l.list)
           q == Append(l.list, f)
<1>0. f \in Things /\ t \in Tuples /\ f.do \notin Headers
  BY BodyIsThings DEF Finals, Tuples
<1>q. /\ n \in Nat /\ q \in Seq(Things) /\ Len(q) = n + 1 /\ q[n + 1] = f /\ q # <<>>
      /\ \A i \in DOMAIN l.list : i \in DOMAIN q /\ q[i] = l.list[i] /\ i \in 1 .. n
      /\ \A i \in DOMAIN q : i \in DOMAIN l.list \/ i = n + 1
      /\ n + 1 \in DOMAIN q
  <2>1. l.list \in Seq(Things)
    BY DEF Lists
  <2>2. q \in Seq(Things) /\ Len(q) = n + 1 /\ n \in Nat
    BY <2>1, <1>0
  <2>3. \A i \in 1 .. n : q[i] = l.list[i]
    BY <2>1, <1>0
  <2>4. q[n + 1] = f
    BY <2>1, <1>0
  <2>5. DOMAIN q = 1 .. n + 1 /\ DOMAIN l.list = 1 .. n
    BY <2>1, <2>2
  <2> HIDE DEF q, n
  <2> QED
    BY <2>2, <2>3, <2>4, <2>5
<1>u. "unique" \notin l.options /\ "memory" \in l.options
  BY DEF OutcomeFits
<1>1. CASE Dead(l)
  <2>1. m = l
    BY <1>1 DEF Add, Dead
  <2> QED
      <3>1. l.alive = FALSE /\ l.fired = FALSE /\ l.firing = FALSE
      BY <1>1 DEF Dead, Lists
    <3>2. ~Setting(l, d, t)
      BY <3>1 DEF Setting, Loops
    <3> HIDE DEF m
    <3> QED
      BY <2>1, <3>1, <3>2 DEF m
<1>2. CASE Virgin(l, d, t)
  <2>1. m = [l EXCEPT !.list = q]
    BY <1>2, <1>u DEF Add, Virgin
  <2>2. m \in Lists
    BY <2>1, <1>q DEF Lists
  <2>3. /\ m.list = q /\ m.firing = FALSE /\ m.fired = FALSE /\ m.alive = TRUE /\ m.memory = None
        /\ m.options = l.options /\ m.repeats = l.repeats /\ m.stack = l.stack /\ m.start = l.start
    BY <2>1, <1>2 DEF Lists, Virgin
  <2> HIDE DEF m, q
  <2>4. Headed(m, d, t)
    BY <2>3, <1>2, <1>q DEF Virgin, Headed
  <2>5. Waits(m) = DOMAIN q /\ Waits(l) = DOMAIN l.list
    BY <2>3, <1>2 DEF Waits, Virgin
  <2>6. Waiting(m) = Waiting(l) \cup {f}
    BY <2>3, <2>5, <1>q DEF Waiting
  <2>7. Distinct(m)
    <3>1. ASSUME NEW i \in DOMAIN q, NEW j \in DOMAIN q, q[i] = q[j]
          PROVE i = j \/ MayComeAgain(q[i])
      <4>1. CASE i \in DOMAIN l.list /\ j \in DOMAIN l.list
        BY <4>1, <3>1, <2>5, <1>q DEF OutcomeFits, Distinct
      <4>2. CASE i = n + 1 /\ j # n + 1
        BY <4>2, <3>1, <2>5, <1>q DEF Waiting
      <4>3. CASE j = n + 1 /\ i # n + 1
        BY <4>3, <3>1, <2>5, <1>q DEF Waiting
      <4> QED
        BY <1>q, <4>1, <4>2, <4>3
    <3> QED
      BY <3>1, <2>3, <2>5 DEF Distinct
  <2>8. Virgin(m, d, t) /\ ~Setting(m, d, t)
    BY <2>3, <2>4 DEF Virgin, Setting, Loops
  <2>9. OutcomeFits(m, d, t)
    BY <2>3, <2>7, <2>8 DEF OutcomeFits
  <2>10. l.alive = TRUE /\ l.fired = FALSE /\ l.firing = FALSE
    BY <1>2 DEF Virgin, Lists
  <2> QED
    BY <2>2, <2>3, <2>6, <2>8, <2>9, <2>10 DEF m
<1>3. CASE Running(l, d, t)
  <2>0. l.alive = TRUE /\ l.fired = TRUE /\ l.firing = TRUE /\ l.memory = 1 /\ l.length = n
           /\ l.index \in Nat /\ l.index >= 1
    BY <1>3 DEF Running, Loops, Lists
  <2>1. m = [l EXCEPT !.list = q, !.length = n + 1]
    <3>1. [l EXCEPT !.list = q].list = q
      BY DEF Lists
    <3> QED
      BY <2>0, <3>1, <1>u, <1>q DEF Add
  <2>2. m \in Lists
    <3>1. n + 1 \in Nat
      BY <1>q
    <3> HIDE DEF m, q, n
    <3> QED
      BY <2>1, <3>1, <1>q DEF Lists
  <2>3. /\ m.list = q /\ m.firing = TRUE /\ m.fired = TRUE /\ m.alive = TRUE /\ m.memory = 1
        /\ m.length = n + 1 /\ m.index = l.index
        /\ m.options = l.options /\ m.repeats = l.repeats /\ m.stack = l.stack /\ m.start = l.start
    BY <2>1, <2>0 DEF Lists
  <2> HIDE DEF m, q, n
  <2>5. /\ \A i \in Waits(m) : i = n + 1 \/ i \in Waits(l)
        /\ \A i \in Waits(l) : i \in Waits(m) /\ q[i] = l.list[i] /\ i # n + 1
    BY <2>0, <2>3, <1>q DEF Waits
  <2>6. n + 1 >= l.index
    BY <1>3, <2>0, <1>q DEF Running, Loops
  <2>11. n + 1 \in Waits(m)
    BY <2>6, <2>3, <1>q DEF Waits
  <2>12. Waiting(m) = Waiting(l) \cup {f}
    BY <2>3, <2>5, <2>11, <1>q DEF Waiting
  <2>13. Distinct(m)
    <3>1. ASSUME NEW i \in Waits(m), NEW j \in Waits(m), q[i] = q[j]
          PROVE i = j \/ MayComeAgain(q[i])
      <4>1. CASE i \in Waits(l) /\ j \in Waits(l)
        BY <3>1, <4>1, <2>5 DEF OutcomeFits, Distinct
      <4>2. CASE i = n + 1 /\ j \in Waits(l)
        BY <3>1, <4>2, <2>5, <1>q DEF Waiting
      <4>3. CASE j = n + 1 /\ i \in Waits(l)
        BY <3>1, <4>3, <2>5, <1>q DEF Waiting
      <4> QED
        BY <2>5, <4>1, <4>2, <4>3
    <3> QED
      BY <3>1, <2>3 DEF Distinct
  <2>14. Running(m, d, t)
    BY <1>3, <2>0, <2>3, <2>12, <1>q DEF Running, Loops
  <2>15. ~Setting(m, d, t)
    BY <2>2, <2>14, SettingIsNotRunning
  <2>16. OutcomeFits(m, d, t)
    BY <2>3, <2>13, <2>14 DEF OutcomeFits
  <2> QED
    BY <2>0, <2>2, <2>3, <2>12, <2>15, <2>16 DEF m
<1>4. CASE Done(l)
  <2>0. l.alive = TRUE /\ l.fired = TRUE /\ l.firing = FALSE /\ l.memory = 1 /\ l.list = <<>>
           /\ n = 0
    BY <1>4 DEF Done, Lists
  <2> DEFINE k == [[l EXCEPT !.list = q] EXCEPT !.start = 1]
  <2>1. m = Fire(k, 1)
    BY <2>0, <1>u DEF Add, None
  <2>2. /\ k.list = q /\ k.start = 1 /\ k.options = l.options /\ Len(q) = 1 /\ k.alive = l.alive
        /\ k.repeats = l.repeats /\ k.stack = l.stack
    BY <2>0, <1>q DEF Lists
  <2>4. k \in Lists
    BY <1>q DEF Lists
  <2> HIDE DEF k, m, q
  <2>5. m \in Lists
    BY <2>1, <2>4, FireResult
  <2>6. /\ m.list = q /\ m.firing = TRUE /\ m.fired = TRUE /\ m.alive = TRUE /\ m.memory = 1
        /\ m.length = 1 /\ m.index = 1
        /\ m.options = l.options /\ m.repeats = l.repeats /\ m.stack = l.stack /\ m.start = 1
    <3>1. 1 \in Nat
      OBVIOUS
    <3>2. /\ m.options = k.options /\ m.alive = k.alive /\ m.list = k.list
          /\ m.repeats = k.repeats /\ m.stack = k.stack
          /\ m.memory = (IF "memory" \in k.options THEN 1 ELSE None)
          /\ m.fired = TRUE /\ m.firing = TRUE /\ m.index = k.start /\ m.start = 1
          /\ m.length = Len(k.list)
      BY <2>1, <2>4, <3>1, FireResult, Zenon
    <3> QED
      BY <2>0, <2>2, <3>2, <1>u
  <2>7. DOMAIN q = {1} /\ q[1] = f
    BY <1>q, <2>0
  <2> HIDE DEF m, k, q, n
  <2>8. Waits(m) = {1} /\ Waits(l) = {}
    BY <2>0, <2>6, <2>7 DEF Waits
  <2>9. Waiting(m) = {f} /\ Waiting(l) = {}
    BY <2>6, <2>7, <2>8 DEF Waiting
  <2>10. Distinct(m)
    BY <2>8 DEF Distinct
  <2>11. Running(m, d, t)
    BY <2>6, <2>9, <1>q, <2>0 DEF Running, Loops
  <2>12. ~Setting(m, d, t)
    BY <2>5, <2>11, SettingIsNotRunning
  <2>13. OutcomeFits(m, d, t)
    BY <2>6, <2>10, <2>11 DEF OutcomeFits
  <2> QED
    BY <2>0, <2>5, <2>6, <2>9, <2>12, <2>13 DEF m
<1> QED
  BY <1>1, <1>2, <1>3, <1>4 DEF OutcomeFits

\* A deferred is settled: its loop begins with the functions that settle it.
LEMMA SettleFits ==
  ASSUME NEW l \in Lists, NEW d \in Deferreds, NEW t \in Finals,
         OutcomeFits(l, d, t), ~Setting(l, d, t)
  PROVE  LET m == FireWith(l, 1) IN
         /\ m \in Lists /\ OutcomeFits(m, d, t)
         /\ ~Virgin(l, d, t) => m = l
         /\ Virgin(l, d, t) => Setting(m, d, t) /\ m.index = 1
         /\ m.alive = l.alive /\ m.fired = l.alive
         /\ l.firing => m.firing
         /\ Waiting(m) = Waiting(l)
<1> DEFINE m == FireWith(l, 1)
<1>1. CASE Virgin(l, d, t)
  <2>1. l.alive = TRUE /\ l.fired = FALSE /\ l.firing = FALSE /\ l.start = 1
    BY <1>1 DEF Virgin, OutcomeFits, Lists
  <2>2. m = Fire(l, 1)
    BY <2>1 DEF FireWith
  <2> HIDE DEF m
  <2>3. /\ m \in Lists /\ m.options = l.options /\ m.alive = l.alive /\ m.list = l.list
        /\ m.repeats = l.repeats /\ m.stack = l.stack
        /\ m.memory = (IF "memory" \in l.options THEN 1 ELSE None)
        /\ m.fired = TRUE /\ m.firing = TRUE /\ m.index = l.start /\ m.start = 1
        /\ m.length = Len(l.list)
    <3>1. 1 \in Nat
      OBVIOUS
    <3> QED
      BY <2>2, <3>1, FireResult, Zenon
  <2>4. "memory" \in l.options
    BY DEF OutcomeFits
  <2>5. Headed(l, d, t) /\ Headed(m, d, t)
    BY <1>1, <2>3 DEF Virgin, Headed
  <2>6. Setting(m, d, t) /\ m.index = 1
    BY <2>1, <2>3, <2>4, <2>5 DEF Setting, Loops, Headed
  <2>7. Waits(m) = Waits(l)
    BY <2>1, <2>3 DEF Waits, Lists
  <2>8. Waiting(m) = Waiting(l) /\ Distinct(m)
    BY <2>3, <2>7 DEF Waiting, Distinct, OutcomeFits
  <2>9. OutcomeFits(m, d, t)
    BY <2>3, <2>6, <2>8 DEF OutcomeFits
  <2> QED
    BY <1>1, <2>1, <2>3, <2>6, <2>8, <2>9 DEF m
<1>2. CASE ~Virgin(l, d, t)
  <2>1. l.fired = l.alive
    BY <1>2 DEF OutcomeFits, Running, Loops, Done, Dead, Lists
  <2>2. m = l
    BY <2>1 DEF FireWith, OutcomeFits
  <2> HIDE DEF m
  <2> QED
    BY <1>2, <2>1, <2>2 DEF m
<1> QED
  BY <1>1, <1>2

\* The function at the index is called.
LEMMA ReturnedFits ==
  ASSUME NEW l \in Lists, NEW d \in Deferreds, NEW t \in Finals,
         OutcomeFits(l, d, t), l.firing, Calls(l)
  PROVE  LET m == Returned(l, FALSE) IN
         /\ m \in Lists /\ m.alive = l.alive /\ m.fired = l.fired /\ m.firing = l.firing
         /\ OutcomeFits(m, d, t)
         /\ Called(l) \in Waiting(l)
         /\ Waiting(m) = Waiting(l) \ {Called(l)} \/
            (Waiting(m) = Waiting(l) /\ MayComeAgain(Called(l)))
         /\ m.index = l.index + 1
         /\ Setting(l, d, t) => Headed(m, d, t) /\ Loops(m)
         /\ ~Setting(l, d, t) => Running(l, d, t) /\ Running(m, d, t) /\ ~Setting(m, d, t)
<1> DEFINE m == Returned(l, FALSE)
           f == Called(l)
<1>1. m = [l EXCEPT !.index = @ + 1]
  BY DEF Returned
<1>2. Setting(l, d, t) \/ Running(l, d, t)
  BY DEF OutcomeFits, Virgin, Done, Dead
<1>3. /\ l.alive /\ l.index \in Nat /\ l.index >= 1 /\ l.index <= Len(l.list)
      /\ l.length = Len(l.list) /\ Len(l.list) \in Nat /\ l.index \in DOMAIN l.list
      /\ Loops(l) /\ l.firing = TRUE
  BY <1>2 DEF Calls, Setting, Running, Loops, Lists
<1>4. m \in Lists
  <2>1. l.index + 1 \in Nat
    BY DEF Lists
  <2> HIDE DEF m
  <2> QED
    BY <1>1, <2>1 DEF Lists
<1>5. /\ m.list = l.list /\ m.index = l.index + 1 /\ m.firing = l.firing /\ m.alive = l.alive
      /\ m.fired = l.fired /\ m.memory = l.memory /\ m.length = l.length
      /\ m.options = l.options /\ m.repeats = l.repeats /\ m.stack = l.stack /\ m.start = l.start
  BY <1>1 DEF Lists
<1> HIDE DEF m
<1>6. Loops(m)
  BY <1>3, <1>5 DEF Loops
<1>7. Waits(l) = Waits(m) \cup {l.index} /\ l.index \notin Waits(m)
         /\ Waits(m) \subseteq DOMAIN l.list
  BY <1>3, <1>5, <1>6 DEF Waits, Lists
<1>8. f = l.list[l.index] /\ f \in Waiting(l)
  BY <1>7 DEF Called, Waiting
<1>9. Waiting(m) \subseteq Waiting(l) /\ \A g \in Waiting(l) : g # f => g \in Waiting(m)
  BY <1>5, <1>7, <1>8 DEF Waiting
<1>10. Distinct(m)
  BY <1>5, <1>7 DEF Distinct, OutcomeFits
<1>11. ASSUME f \in Waiting(m) PROVE MayComeAgain(f)
  <2>1. PICK i \in Waits(m) : l.list[i] = f
    BY <1>5, <1>11 DEF Waiting
  <2> QED
    BY <2>1, <1>7, <1>8 DEF Distinct, OutcomeFits
<1>12. Waiting(m) = Waiting(l) \ {f} \/ (Waiting(m) = Waiting(l) /\ MayComeAgain(f))
  BY <1>8, <1>9, <1>11
<1>13. CASE Setting(l, d, t)
  <2>1. Headed(m, d, t)
    BY <1>13, <1>5 DEF Setting, Headed
  <2>2. ASSUME m.index > 3, NEW g \in Waiting(m) PROVE InBody(g, d, t)
    <3>1. PICK i \in Waits(m) : g = m.list[i]
      BY <2>2 DEF Waiting
    <3>2. i \in DOMAIN m.list /\ i \in Nat /\ i > 3
      BY <2>2, <3>1, <1>3, <1>5 DEF Waits, Lists
    <3> QED
      BY <3>1, <3>2, <2>1 DEF Headed
  <2>3. Setting(m, d, t) \/ Running(m, d, t)
    BY <1>3, <1>5, <1>6, <2>1, <2>2 DEF Setting, Running
  <2>4. OutcomeFits(m, d, t)
    BY <1>5, <1>10, <2>3 DEF OutcomeFits
  <2> QED
    BY <1>4, <1>5, <1>6, <1>8, <1>12, <1>13, <2>1, <2>4 DEF m
<1>14. CASE ~Setting(l, d, t)
  <2>1. Running(l, d, t) /\ Running(m, d, t)
    BY <1>2, <1>14, <1>6, <1>9 DEF Running
  <2>2. ~Setting(m, d, t)
    BY <1>4, <2>1, SettingIsNotRunning
  <2>3. OutcomeFits(m, d, t)
    BY <1>5, <1>10, <2>1 DEF OutcomeFits
  <2> QED
    BY <1>4, <1>5, <1>8, <1>12, <1>14, <2>1, <2>2, <2>3 DEF m
<1> QED
  BY <1>13, <1>14

\* The loop ends: nobody has been left out.
LEMMA EndFits ==
  ASSUME NEW l \in Lists, NEW d \in Deferreds, NEW t \in Finals,
         OutcomeFits(l, d, t), l.firing, ~Calls(l)
  PROVE  LET m == AfterLoop(l) IN
         /\ m \in Lists /\ OutcomeFits(m, d, t) /\ Done(m)
         /\ m.alive = l.alive /\ m.fired = l.fired
         /\ Waiting(m) = {} /\ Waiting(l) = {} /\ Running(l, d, t)
<1> DEFINE m == AfterLoop(l)
<1>1. Running(l, d, t)
  <2>1. ~Setting(l, d, t)
    BY SettingIsNotRunning
  <2> QED
    BY <2>1 DEF OutcomeFits, Virgin, Done, Dead
<1>2. /\ l.alive = TRUE /\ l.fired = TRUE /\ l.memory = 1 /\ l.length = Len(l.list)
      /\ l.repeats = FALSE /\ l.index \in Nat /\ Len(l.list) \in Nat /\ l.firing = TRUE
      /\ l.index > Len(l.list)
  BY <1>1 DEF Running, Loops, OutcomeFits, Calls, Lists
<1>3. m = [[l EXCEPT !.firing = FALSE] EXCEPT !.list = <<>>]
  <2>1. [l EXCEPT !.firing = FALSE].memory = 1
    BY <1>2 DEF Lists
  <2> QED
    BY <1>2, <2>1 DEF AfterLoop, None
<1>4. m \in Lists
  <2>1. <<>> \in Seq(Things)
    OBVIOUS
  <2> HIDE DEF m
  <2> QED
    BY <1>3, <2>1 DEF Lists
<1>5. /\ m.list = <<>> /\ m.firing = FALSE /\ m.alive = TRUE /\ m.fired = TRUE /\ m.memory = 1
      /\ m.options = l.options /\ m.repeats = l.repeats /\ m.stack = l.stack /\ m.start = l.start
  BY <1>2, <1>3 DEF Lists
<1> HIDE DEF m
<1>6. Waits(m) = {} /\ Waits(l) = {}
  BY <1>2, <1>5 DEF Waits, Lists
<1>7. Waiting(m) = {} /\ Waiting(l) = {} /\ Distinct(m)
  BY <1>6 DEF Waiting, Distinct
<1>8. Done(m)
  BY <1>5 DEF Done
<1>9. OutcomeFits(m, d, t)
  BY <1>5, <1>7, <1>8 DEF OutcomeFits
<1> QED
  BY <1>1, <1>2, <1>4, <1>5, <1>7, <1>8, <1>9 DEF m

\* The other outcome is ruled out.
LEMMA DisableFits ==
  ASSUME NEW l \in Lists, NEW d \in Deferreds, NEW t \in Finals,
         OutcomeFits(l, d, t), Virgin(l, d, t)
  PROVE  LET m == Disable(l) IN
         /\ m \in Lists /\ OutcomeFits(m, d, t) /\ Dead(m) /\ m.fired = l.fired
         /\ m.firing = FALSE /\ l.firing = FALSE /\ Waiting(m) = {}
<1> DEFINE m == Disable(l)
<1>1. m \in Lists
  <2>1. <<>> \in Seq(Things) /\ <<>> \in Seq(Nat) /\ 0 \in Nat
    OBVIOUS
  <2> DEFINE k == [l EXCEPT !.alive = FALSE, !.list = <<>>, !.repeats = FALSE]
  <2>2. m = [k EXCEPT !.stack = <<>>, !.memory = 0]
    BY Zenon DEF Disable, None
  <2>3. k \in Lists
    BY <2>1 DEF Lists
  <2> HIDE DEF m, k
  <2> QED
    BY <2>1, <2>2, <2>3 DEF Lists
<1>2. /\ m.list = <<>> /\ m.firing = l.firing /\ m.alive = FALSE /\ m.fired = l.fired
      /\ m.options = l.options /\ m.repeats = FALSE /\ m.stack = <<>> /\ m.start = l.start
  BY DEF Disable, Lists
<1>3. l.firing = FALSE /\ l.fired = FALSE
  BY DEF Virgin, Lists
<1> HIDE DEF m
<1>4. Waits(m) = {}
  BY <1>2 DEF Waits
<1>5. Waiting(m) = {} /\ Distinct(m) /\ Dead(m)
  BY <1>2, <1>3, <1>4 DEF Waiting, Distinct, Dead
<1>6. OutcomeFits(m, d, t)
  BY <1>2, <1>5 DEF OutcomeFits
<1> QED
  BY <1>1, <1>2, <1>3, <1>5, <1>6 DEF m

-----------------------------------------------------------------------------
(* The list of notes.                                                        *)

LEMMA AddNote ==
  ASSUME NEW l \in Lists, NEW d \in Deferreds, NEW f,
         NotesFit(l, d), InBody(f, d, "notify")
  PROVE  LET m == Add(l, f) IN
         m \in Lists /\ NotesFit(m, d) /\ (l.firing => m.firing)
<1> DEFINE m == Add(l, f)
           n == Len(l.list)
           q == Append(l.list, f)
<1>0. f \in Things
  BY BodyIsThings DEF Tuples
<1>1. /\ n \in Nat /\ q \in Seq(Things) /\ Len(q) = n + 1
      /\ \A i \in DOMAIN q : InBody(q[i], d, "notify")
  <2>1. l.list \in Seq(Things)
    BY DEF Lists
  <2>2. q \in Seq(Things) /\ Len(q) = n + 1 /\ n \in Nat
    BY <2>1, <1>0
  <2>3. \A i \in 1 .. n : q[i] = l.list[i]
    BY <2>1, <1>0
  <2>4. q[n + 1] = f
    BY <2>1, <1>0
  <2>5. DOMAIN q = 1 .. n + 1 /\ DOMAIN l.list = 1 .. n
    BY <2>1, <2>2
  <2> HIDE DEF q, n
  <2> QED
    BY <2>2, <2>3, <2>4, <2>5 DEF NotesFit
<1>2. l.options = {"memory"} /\ l.start = 1
  BY DEF NotesFit
<1>3. CASE ~l.alive
  <2>1. m = l
    BY <1>3 DEF Add
  <2> QED
    BY <2>1
<1>4. CASE l.alive /\ l.firing
  <2>1. [l EXCEPT !.list = q].list = q
    BY DEF Lists
  <2>2. m = [[l EXCEPT !.list = q] EXCEPT !.length = n + 1]
    BY <1>1, <1>2, <1>4, <2>1 DEF Add
  <2>3. n + 1 \in Nat
    BY <1>1
  <2> HIDE DEF m, q, n
  <2>4. /\ m \in Lists /\ m.list = q /\ m.length = n + 1 /\ m.index = l.index
        /\ m.options = l.options /\ m.start = l.start /\ m.firing = l.firing
    BY <2>2, <2>3, <1>1 DEF Lists
  <2>5. NotesFit(m, d)
    BY <1>1, <1>2, <1>4, <2>4 DEF NotesFit
  <2> QED
    BY <2>4, <2>5 DEF m
<1>5. CASE l.alive /\ ~l.firing /\ l.memory = None
  <2>1. m = [l EXCEPT !.list = q]
    BY <1>2, <1>5 DEF Add
  <2> HIDE DEF m, q, n
  <2>2. /\ m \in Lists /\ m.list = q /\ m.firing = l.firing
        /\ m.options = l.options /\ m.start = l.start
    BY <2>1, <1>1 DEF Lists
  <2>3. NotesFit(m, d)
    BY <1>1, <1>2, <1>5, <2>2 DEF NotesFit
  <2> QED
    BY <2>2, <2>3 DEF m
<1>6. CASE l.alive /\ ~l.firing /\ l.memory # None
  <2> DEFINE k == [[l EXCEPT !.list = q] EXCEPT !.start = n + 1]
  <2>1. m = Fire(k, l.memory)
    BY <1>2, <1>6 DEF Add
  <2>2. n + 1 \in Nat /\ n + 1 >= 1 /\ l.memory \in Nat
    BY <1>1 DEF Lists
  <2> HIDE DEF m, q, n
  <2>3. k \in Lists /\ k.list = q /\ k.start = n + 1 /\ k.options = l.options
    BY <1>1, <2>2 DEF Lists
  <2> HIDE DEF k
  <2>4. /\ m \in Lists /\ m.options = k.options /\ m.list = k.list
        /\ m.firing = TRUE /\ m.index = k.start /\ m.start = 1 /\ m.length = Len(k.list)
    BY <2>1, <2>2, <2>3, FireResult, Zenon
  <2>5. NotesFit(m, d)
    BY <1>1, <1>2, <2>2, <2>3, <2>4 DEF NotesFit
  <2> QED
    BY <2>4, <2>5 DEF m
<1> QED
  BY <1>3, <1>4, <1>5, <1>6

LEMMA FireNotes ==
  ASSUME NEW l \in Lists, NEW d \in Deferreds, NEW v \in Nat, NotesFit(l, d)
  PROVE  Fire(l, v) \in Lists /\ NotesFit(Fire(l, v), d) /\ Fire(l, v).firing
<1> DEFINE m == Fire(l, v)
<1>1. /\ m \in Lists /\ m.options = l.options /\ m.list = l.list
      /\ m.firing = TRUE /\ m.index = l.start /\ m.start = 1 /\ m.length = Len(l.list)
  BY FireResult, Zenon
<1> HIDE DEF m
<1>2. NotesFit(m, d)
  BY <1>1 DEF NotesFit
<1> QED
  BY <1>1, <1>2 DEF m

LEMMA NotifyFits ==
  ASSUME NEW l \in Lists, NEW d \in Deferreds, NotesFit(l, d)
  PROVE  LET m == FireWith(l, 1) IN
         m \in Lists /\ NotesFit(m, d) /\ (l.firing => m.firing)
<1> DEFINE m == FireWith(l, 1)
<1>0. 1 \in Nat
  OBVIOUS
<1>1. CASE m = l
  BY <1>1
<1>2. CASE m = Fire(l, 1)
  BY <1>0, <1>2, FireNotes
<1>3. CASE m = [l EXCEPT !.stack = Append(@, 1)]
  <2>1. Append(l.stack, 1) \in Seq(Nat)
    BY DEF Lists
  <2> HIDE DEF m
  <2>2. /\ m \in Lists /\ m.list = l.list /\ m.length = l.length /\ m.index = l.index
        /\ m.options = l.options /\ m.start = l.start /\ m.firing = l.firing /\ m.alive = l.alive
    BY <1>3, <2>1 DEF Lists
  <2>3. NotesFit(m, d)
    BY <2>2 DEF NotesFit
  <2> QED
    BY <2>2, <2>3 DEF m
<1>4. m = l \/ m = Fire(l, 1) \/ m = [l EXCEPT !.stack = Append(@, 1)]
  BY DEF FireWith
<1> QED
  BY <1>1, <1>2, <1>3, <1>4

LEMMA ReturnedNotes ==
  ASSUME NEW l \in Lists, NEW d \in Deferreds, NotesFit(l, d), l.firing, Calls(l)
  PROVE  LET m == Returned(l, FALSE) IN
         /\ m \in Lists /\ NotesFit(m, d) /\ m.firing = l.firing
         /\ InBody(Called(l), d, "notify")
<1> DEFINE m == Returned(l, FALSE)
<1>1. m = [l EXCEPT !.index = @ + 1]
  BY DEF Returned
<1>2. l.alive /\ l.index \in DOMAIN l.list /\ l.index \in Nat /\ l.index >= 1
  BY DEF Calls, NotesFit, Lists
<1>3. InBody(Called(l), d, "notify")
  BY <1>2 DEF Called, NotesFit
<1>4. l.index + 1 \in Nat /\ l.index + 1 >= 1
  BY <1>2
<1> HIDE DEF m
<1>5. /\ m \in Lists /\ m.list = l.list /\ m.length = l.length /\ m.index = l.index + 1
      /\ m.options = l.options /\ m.start = l.start /\ m.firing = l.firing /\ m.alive = l.alive
  BY <1>1, <1>4 DEF Lists
<1>6. NotesFit(m, d)
  BY <1>4, <1>5 DEF NotesFit
<1> QED
  BY <1>3, <1>5, <1>6 DEF m

LEMMA DisableNotes ==
  ASSUME NEW l \in Lists, NEW d \in Deferreds, NotesFit(l, d)
  PROVE  Disable(l) \in Lists /\ NotesFit(Disable(l), d) /\ Disable(l).firing = l.firing
<1> DEFINE m == Disable(l)
           k == [l EXCEPT !.alive = FALSE, !.list = <<>>, !.repeats = FALSE]
<1>1. <<>> \in Seq(Things) /\ <<>> \in Seq(Nat) /\ 0 \in Nat
  OBVIOUS
<1>2. m = [k EXCEPT !.stack = <<>>, !.memory = 0]
  BY Zenon DEF Disable, None
<1> HIDE DEF m
<1>3. /\ k \in Lists /\ k.list = <<>> /\ k.alive = FALSE /\ k.options = l.options
      /\ k.start = l.start /\ k.firing = l.firing
  BY <1>1 DEF Lists
<1> HIDE DEF k
<1>4. /\ m \in Lists /\ m.list = <<>> /\ m.alive = FALSE /\ m.options = l.options
      /\ m.start = l.start /\ m.firing = l.firing
  BY <1>1, <1>2, <1>3 DEF Lists
<1>5. NotesFit(m, d)
  BY <1>4 DEF NotesFit
<1> QED
  BY <1>4, <1>5 DEF m

LEMMA EndNotes ==
  ASSUME NEW l \in Lists, NEW d \in Deferreds, NotesFit(l, d)
  PROVE  AfterLoop(l) \in Lists /\ NotesFit(AfterLoop(l), d)
<1> DEFINE m == [l EXCEPT !.firing = FALSE]
<1>1. /\ m \in Lists /\ m.list = l.list /\ m.options = l.options /\ m.start = l.start
      /\ m.firing = FALSE /\ m.memory = l.memory /\ m.alive = l.alive
  BY DEF Lists
<1> HIDE DEF m
<1>2. NotesFit(m, d)
  BY <1>1 DEF NotesFit
<1>3. CASE ~l.alive \/ (l.alive /\ l.repeats /\ l.stack = <<>>)
  <2>1. AfterLoop(l) = m
    BY <1>3 DEF AfterLoop, m
  <2> QED
    BY <1>1, <1>2, <2>1
<1>4. CASE l.alive /\ l.repeats /\ l.stack # <<>>
  <2> DEFINE k == [m EXCEPT !.stack = Tail(@)]
  <2>1. AfterLoop(l) = Fire(k, Head(l.stack))
    BY <1>4 DEF AfterLoop, m
  <2>2. Head(l.stack) \in Nat /\ l.stack \in Seq(Nat) /\ Tail(l.stack) \in Seq(Nat)
           /\ m.stack = l.stack
    BY <1>4 DEF Lists, m
  <2>3. /\ k \in Lists /\ k.list = m.list /\ k.options = m.options /\ k.start = m.start
        /\ k.firing = m.firing
    BY <1>1, <2>2 DEF Lists
  <2> HIDE DEF k
  <2>4. NotesFit(k, d)
    BY <1>1, <1>2, <2>3 DEF NotesFit
  <2> QED
    BY <2>1, <2>2, <2>3, <2>4, FireNotes
<1>5. CASE l.alive /\ ~l.repeats /\ l.memory # None
  <2> DEFINE k == [m EXCEPT !.list = <<>>]
  <2>1. AfterLoop(l) = k
    BY <1>5 DEF AfterLoop, m
  <2>2. <<>> \in Seq(Things)
    OBVIOUS
  <2>3. /\ k \in Lists /\ k.list = <<>> /\ k.options = m.options /\ k.start = m.start
        /\ k.firing = m.firing
    BY <1>1, <2>2 DEF Lists
  <2> HIDE DEF k
  <2>4. NotesFit(k, d)
    BY <1>1, <1>2, <2>3 DEF NotesFit
  <2> QED
    BY <2>1, <2>3, <2>4
<1>6. CASE l.alive /\ ~l.repeats /\ l.memory = None
  <2>1. AfterLoop(l) = Disable(m)
    BY <1>6 DEF AfterLoop, m
  <2> QED
    BY <1>1, <1>2, <2>1, DisableNotes
<1> QED
  BY <1>3, <1>4, <1>5, <1>6

LEMMA LockFits ==
  ASSUME NEW l \in Lists, NEW d \in Deferreds, NotesFit(l, d)
  PROVE  Lock(l) \in Lists /\ NotesFit(Lock(l), d) /\ Lock(l).firing = l.firing
<1> DEFINE m == [l EXCEPT !.repeats = FALSE, !.stack = <<>>]
<1>1. <<>> \in Seq(Nat)
  OBVIOUS
<1>2. /\ m \in Lists /\ m.list = l.list /\ m.options = l.options /\ m.start = l.start
      /\ m.firing = l.firing /\ m.alive = l.alive /\ m.length = l.length /\ m.index = l.index
  BY <1>1 DEF Lists
<1>3. Lock(l) = m \/ Lock(l) = Disable(m)
  BY DEF Lock
<1> HIDE DEF m
<1>4. NotesFit(m, d)
  BY <1>2 DEF NotesFit
<1> QED
  BY <1>2, <1>3, <1>4, DisableNotes

-----------------------------------------------------------------------------
(* Shape: the lists, the loops under way, and the states.                    *)

Frames == [d : Deferreds, t : Tuples, at : {"loop", "user", "pass"}]
States ==
  [lists : [Deferreds -> [Tuples -> Lists]],
   state : [Deferreds -> {"pending", "resolved", "rejected"}], remaining : Int,
   frames : Seq(Frames), notes : Nat, added : SUBSET Handlers, called : [Handlers -> Nat]]

ListsFit(x) == \A d \in Deferreds, t \in Tuples : ListFits(x.lists[d][t], d, t)

\* The loops under way are those of the lists that fire, one of each list.
IsLoopOf(frame, d, t) == frame.d = d /\ frame.t = t
FramesFit(x) ==
  /\ \A i \in DOMAIN x.frames : x.lists[x.frames[i].d][x.frames[i].t].firing
  /\ \A i, j \in DOMAIN x.frames : IsLoopOf(x.frames[i], x.frames[j].d, x.frames[j].t) => i = j
  /\ \A d \in Deferreds, t \in Tuples :
       x.lists[d][t].firing => \E i \in DOMAIN x.frames : IsLoopOf(x.frames[i], d, t)

\* The functions that settle a deferred run one after the other: the first
\* n of them have not all returned.
Early(x, d, t, n) == Setting(x.lists[d][t], d, t) /\ x.lists[d][t].index <= n
Calm(x) == \A d \in Deferreds, t \in Finals : ~Setting(x.lists[d][t], d, t)
TopFits(x) ==
  \A d \in Deferreds, t \in Finals : Setting(x.lists[d][t], d, t) =>
    x.frames # <<>> /\ x.frames[Len(x.frames)] = [d |-> d, t |-> t, at |-> "loop"]

Fired(x, d, t) == x.lists[d][t].fired
Alive(x, d, t) == x.lists[d][t].alive
Wait(x, d, t) == Waiting(x.lists[d][t])

\* The state tells which list has fired, and that the other is of no use.
StateFits(x, d, t) ==
  LET o == Opposite[t] IN
  /\ x.state[d] = Final[t] => Fired(x, d, t)
  /\ Early(x, d, t, 1) => x.state[d] = "pending"
  /\ Early(x, d, t, 2) => Alive(x, d, o) /\ ~Fired(x, d, o)
  /\ Fired(x, d, t) /\ ~Early(x, d, t, 1) => x.state[d] = Final[t]
  /\ Fired(x, d, t) /\ ~Early(x, d, t, 2) => ~Alive(x, d, o)
  /\ ~Alive(x, d, t) => x.state[d] = Final[o]
StatesFit(x) == \A d \in Deferreds, t \in Finals : StateFits(x, d, t)

Shape(x) == x \in States /\ ListsFit(x) /\ FramesFit(x) /\ TopFits(x) /\ StatesFit(x)

\* What calls among the lists leave alone.
Kept(x, y) ==
  /\ y.state = x.state /\ y.remaining = x.remaining /\ y.notes = x.notes
  /\ y.added = x.added /\ y.called = x.called

LEMMA Outcomes ==
  /\ Opposite["resolve"] = "reject" /\ Opposite["reject"] = "resolve"
  /\ Final["resolve"] = "resolved" /\ Final["reject"] = "rejected"
  /\ \A t \in Finals : /\ Opposite[t] \in Finals /\ t \in Tuples /\ Opposite[t] # t
                       /\ Opposite[Opposite[t]] = t /\ Final[t] # Final[Opposite[t]]
                       /\ Final[t] \in {"resolved", "rejected"}
  /\ Finals \subseteq Tuples /\ "notify" \in Tuples /\ "notify" \notin Finals
  /\ \A t \in Tuples : t \in Finals \/ t = "notify"
BY DEF Opposite, Final, Finals, Tuples

LEMMA ListTyped ==
  ASSUME NEW x \in States, NEW d \in Deferreds, NEW t \in Tuples
  PROVE  x.lists[d][t] \in Lists
BY DEF States

\* Whether a list has fired and whether it is of use tell its phase.
LEMMA Phases ==
  ASSUME NEW l \in Lists, NEW d \in Deferreds, NEW t \in Finals, OutcomeFits(l, d, t)
  PROVE  /\ Virgin(l, d, t) <=> l.alive /\ ~l.fired
         /\ Dead(l) <=> ~l.alive
         /\ l.fired => l.alive
         /\ l.firing => l.fired
BY DEF OutcomeFits, Virgin, Setting, Running, Loops, Done, Dead

\* A list and the loops are replaced.
Put(x, d, t, l, q) == [x EXCEPT !.lists[d][t] = l, !.frames = q]

LEMMA PutResult ==
  ASSUME NEW x \in States, NEW d \in Deferreds, NEW t \in Tuples, NEW l \in Lists,
         NEW q \in Seq(Frames)
  PROVE  LET y == Put(x, d, t, l, q) IN
         /\ y \in States /\ y.frames = q /\ Kept(x, y)
         /\ \A e \in Deferreds, u \in Tuples :
              y.lists[e][u] = IF e = d /\ u = t THEN l ELSE x.lists[e][u]
<1> DEFINE g == [x.lists EXCEPT ![d] = [x.lists[d] EXCEPT ![t] = l]]
           y == [x EXCEPT !.lists = g, !.frames = q]
<1>1. Put(x, d, t, l, q) = y
  BY DEF Put
<1>2. x.lists \in [Deferreds -> [Tuples -> Lists]] /\ x.lists[d] \in [Tuples -> Lists]
  BY DEF States
<1>3. g \in [Deferreds -> [Tuples -> Lists]]
  BY <1>2
<1>4. \A e \in Deferreds, u \in Tuples : g[e][u] = IF e = d /\ u = t THEN l ELSE x.lists[e][u]
  BY <1>2
<1> HIDE DEF g
<1>5. y \in States /\ y.frames = q /\ y.lists = g
  BY <1>3 DEF States
<1>6. Kept(x, y)
  BY DEF Kept, States
<1> HIDE DEF y
<1> QED
  BY <1>1, <1>4, <1>5, <1>6

\* A call puts a list in place; a loop that begins goes on top.
LEMMA WithListResult ==
  ASSUME NEW x, Shape(x), Calm(x), NEW d \in Deferreds, NEW t \in Tuples, NEW l \in Lists,
         ListFits(l, d, t), x.lists[d][t].firing => l.firing,
         t \in Finals /\ Setting(l, d, t) => ~x.lists[d][t].firing
  PROVE  LET y == WithList(x, d, t, l) IN
         /\ y \in States /\ Kept(x, y) /\ ListsFit(y) /\ FramesFit(y) /\ TopFits(y)
         /\ \A e \in Deferreds, u \in Tuples :
              y.lists[e][u] = IF e = d /\ u = t THEN l ELSE x.lists[e][u]
<1> DEFINE begins == l.firing /\ ~x.lists[d][t].firing
           frame == [d |-> d, t |-> t, at |-> "loop"]
           q == IF begins THEN Append(x.frames, frame) ELSE x.frames
           y == WithList(x, d, t, l)
<1>1. x \in States /\ x.frames \in Seq(Frames) /\ frame \in Frames /\ frame.d = d /\ frame.t = t
  BY DEF Shape, States, Frames
<1>2. q \in Seq(Frames)
  BY <1>1
<1>3. y = Put(x, d, t, l, q)
  BY Zenon DEF WithList, Put
<1> HIDE DEF y, q
<1>4. /\ y \in States /\ y.frames = q /\ Kept(x, y)
      /\ \A e \in Deferreds, u \in Tuples :
           y.lists[e][u] = IF e = d /\ u = t THEN l ELSE x.lists[e][u]
  BY <1>1, <1>2, <1>3, PutResult
<1>5. ListsFit(y)
  BY <1>4 DEF Shape, ListsFit
<1>6. FramesFit(y) /\ TopFits(y)
  <2>0. FramesFit(x) /\ TopFits(x)
    BY DEF Shape
  <2>a. \A i \in DOMAIN x.frames : x.frames[i].d \in Deferreds /\ x.frames[i].t \in Tuples
    <3>1. TAKE i \in DOMAIN x.frames
    <3>2. x.frames[i] \in Frames
      BY <1>1
    <3> QED
      BY <3>2 DEF Frames
  <2>1. CASE ~begins
    <3>1. q = x.frames
      BY <2>1 DEF q
    <3>2. \A e \in Deferreds, u \in Tuples : y.lists[e][u].firing <=> x.lists[e][u].firing
      BY <1>4, <2>1
    <3>3. FramesFit(y)
      BY <2>0, <2>a, <3>1, <3>2, <1>4 DEF FramesFit
    <3>4. \A e \in Deferreds, u \in Finals : ~Setting(y.lists[e][u], e, u)
      <4>1. TAKE e \in Deferreds, u \in Finals
      <4>2. u \in Tuples
        BY Outcomes
      <4>3. CASE e = d /\ u = t
        BY <4>2, <4>3, <2>1, <1>4, SettingIsNotRunning
      <4>4. CASE ~(e = d /\ u = t)
        BY <4>2, <4>4, <1>4 DEF Calm
      <4> QED
        BY <4>3, <4>4
    <3> QED
      BY <3>3, <3>4 DEF TopFits
  <2>2. CASE begins
    <3> DEFINE n == Len(x.frames)
    <3>1. /\ n \in Nat /\ Len(q) = n + 1 /\ q[n + 1] = frame /\ q # <<>>
          /\ DOMAIN q = 1 .. n + 1 /\ DOMAIN x.frames = 1 .. n
          /\ \A i \in DOMAIN x.frames : q[i] = x.frames[i]
      BY <1>1, <2>2 DEF q
    <3> HIDE DEF n
    <3>2. \A i \in DOMAIN q : i = n + 1 \/ i \in DOMAIN x.frames
      BY <3>1
    <3>3. \A i \in DOMAIN x.frames : i \in DOMAIN q /\ ~IsLoopOf(x.frames[i], d, t)
      BY <3>1, <2>0, <2>2 DEF FramesFit, IsLoopOf
    <3>4. \A i \in DOMAIN q : y.lists[q[i].d][q[i].t].firing
      <4>1. TAKE i \in DOMAIN q
      <4>2. CASE i = n + 1
        BY <4>2, <3>1, <1>1, <1>4, <2>2
      <4>3. CASE i \in DOMAIN x.frames
        <5>1. /\ x.lists[x.frames[i].d][x.frames[i].t].firing /\ q[i] = x.frames[i]
              /\ x.frames[i].d \in Deferreds /\ x.frames[i].t \in Tuples
          BY <4>3, <3>1, <2>0, <2>a DEF FramesFit
        <5>2. ~(x.frames[i].d = d /\ x.frames[i].t = t)
          BY <4>3, <3>3 DEF IsLoopOf
        <5> QED
          BY <5>1, <5>2, <1>4
      <4> QED
        BY <3>2, <4>2, <4>3
    <3>5. \A i, j \in DOMAIN q : IsLoopOf(q[i], q[j].d, q[j].t) => i = j
      <4>1. TAKE i, j \in DOMAIN q
      <4>2. CASE i \in DOMAIN x.frames /\ j \in DOMAIN x.frames
        BY <4>2, <3>1, <2>0 DEF FramesFit
      <4>3. CASE i = n + 1 /\ j \in DOMAIN x.frames
        BY <4>3, <3>1, <3>3, <1>1 DEF IsLoopOf
      <4>4. CASE j = n + 1 /\ i \in DOMAIN x.frames
        BY <4>4, <3>1, <3>3, <1>1
      <4> QED
        BY <3>2, <4>2, <4>3, <4>4
    <3>6. \A e \in Deferreds, u \in Tuples :
            y.lists[e][u].firing => \E i \in DOMAIN q : IsLoopOf(q[i], e, u)
      <4>1. TAKE e \in Deferreds, u \in Tuples
      <4>2. CASE e = d /\ u = t
        BY <4>2, <3>1, <1>1 DEF IsLoopOf
      <4>3. CASE ~(e = d /\ u = t)
        <5>1. HAVE y.lists[e][u].firing
        <5>2. PICK i \in DOMAIN x.frames : IsLoopOf(x.frames[i], e, u)
          BY <5>1, <4>3, <1>4, <2>0 DEF FramesFit
        <5> QED
          BY <5>2, <3>1, <3>3
      <4> QED
        BY <4>2, <4>3
    <3>7. FramesFit(y)
      BY <3>4, <3>5, <3>6, <1>4 DEF FramesFit
    <3>8. TopFits(y)
      <4>1. SUFFICES ASSUME NEW e \in Deferreds, NEW u \in Finals, Setting(y.lists[e][u], e, u)
                     PROVE  q # <<>> /\ q[Len(q)] = [d |-> e, t |-> u, at |-> "loop"]
        BY <1>4 DEF TopFits
      <4>2. e = d /\ u = t
        <5>1. u \in Tuples
          BY Outcomes
        <5> QED
          BY <5>1, <4>1, <1>4 DEF Calm
      <4> QED
        BY <4>2, <3>1
    <3> QED
      BY <3>7, <3>8
  <2> QED
    BY <2>1, <2>2
<1> QED
  BY <1>4, <1>5, <1>6 DEF y

\* A function is added to a list, while no deferred is being settled.
LEMMA ListenShape ==
  ASSUME NEW x, Shape(x), Calm(x), NEW d \in Deferreds, NEW t \in Tuples, NEW f,
         InBody(f, d, t), t \in Finals => f \notin Wait(x, d, t) \/ MayComeAgain(f)
  PROVE  LET y == Listen(x, d, t, f) IN
         /\ Shape(y) /\ Calm(y) /\ Kept(x, y)
         /\ \A e \in Deferreds, u \in Finals :
              /\ Alive(y, e, u) = Alive(x, e, u) /\ Fired(y, e, u) = Fired(x, e, u)
              /\ Wait(y, e, u) = IF e = d /\ u = t /\ Alive(x, d, t) THEN Wait(x, e, u) \cup {f}
                                 ELSE Wait(x, e, u)
<1> DEFINE l == x.lists[d][t]
           m == Add(l, f)
           y == Listen(x, d, t, f)
<1>1. x \in States /\ l \in Lists /\ ListFits(l, d, t)
  BY ListTyped DEF Shape, ListsFit
<1>2. /\ m \in Lists /\ ListFits(m, d, t) /\ (l.firing => m.firing)
      /\ t \in Finals =>
           /\ ~Setting(m, d, t) /\ m.alive = l.alive /\ m.fired = l.fired
           /\ Waiting(m) = IF l.alive THEN Waiting(l) \cup {f} ELSE Waiting(l)
  <2>1. CASE t \in Finals
    <3>1. ~Setting(l, d, t) /\ OutcomeFits(l, d, t) /\ (f \notin Waiting(l) \/ MayComeAgain(f))
      BY <2>1, <1>1 DEF Calm, ListFits, Wait
    <3>2. /\ m \in Lists /\ OutcomeFits(m, d, t) /\ ~Setting(m, d, t)
          /\ m.alive = l.alive /\ m.fired = l.fired
          /\ m.firing = (l.firing \/ (l.alive /\ l.fired))
          /\ Waiting(m) = IF l.alive THEN Waiting(l) \cup {f} ELSE Waiting(l)
      BY <2>1, <3>1, <1>1, AddFits
    <3> QED
      BY <2>1, <3>2 DEF ListFits
  <2>2. CASE t \notin Finals
    <3>1. t = "notify"
      BY <2>2, Outcomes
    <3>2. NotesFit(l, d)
      BY <2>2, <1>1 DEF ListFits
    <3> HIDE DEF l, m
    <3>3. m \in Lists /\ NotesFit(m, d) /\ (l.firing => m.firing)
      BY <3>1, <3>2, <1>1, AddNote DEF m
    <3> QED
      BY <2>2, <3>3 DEF ListFits
  <2> QED
    BY <2>1, <2>2
<1>3. y = WithList(x, d, t, m)
  BY DEF Listen
<1> HIDE DEF m, y
<1>4. /\ y \in States /\ Kept(x, y) /\ ListsFit(y) /\ FramesFit(y) /\ TopFits(y)
      /\ \A e \in Deferreds, u \in Tuples :
           y.lists[e][u] = IF e = d /\ u = t THEN m ELSE x.lists[e][u]
  BY <1>2, <1>3, WithListResult
<1>5. ASSUME NEW e \in Deferreds, NEW u \in Finals
      PROVE  /\ ~Setting(y.lists[e][u], e, u)
             /\ Alive(y, e, u) = Alive(x, e, u) /\ Fired(y, e, u) = Fired(x, e, u)
             /\ Wait(y, e, u) = IF e = d /\ u = t /\ Alive(x, d, t) THEN Wait(x, e, u) \cup {f}
                                ELSE Wait(x, e, u)
  <2>1. u \in Tuples
    BY Outcomes
  <2>2. CASE e = d /\ u = t
    BY <2>1, <2>2, <1>2, <1>4 DEF Alive, Fired, Wait
  <2>3. CASE ~(e = d /\ u = t)
    BY <2>1, <2>3, <1>4 DEF Alive, Fired, Wait, Calm
  <2> QED
    BY <2>2, <2>3
<1>6. Calm(y)
  BY <1>5 DEF Calm
<1>7. StatesFit(y)
  <2>1. SUFFICES ASSUME NEW e \in Deferreds, NEW u \in Finals PROVE StateFits(y, e, u)
    BY DEF StatesFit
  <2>2. StateFits(x, e, u) /\ Opposite[u] \in Finals
    BY Outcomes DEF Shape, StatesFit
  <2>3. ~Early(x, e, u, 1) /\ ~Early(x, e, u, 2) /\ ~Early(y, e, u, 1) /\ ~Early(y, e, u, 2)
    BY <1>6 DEF Calm, Early
  <2>4. y.state = x.state
    BY <1>4 DEF Kept
  <2> QED
    BY <2>2, <2>3, <2>4, <1>5 DEF StateFits
<1> QED
  BY <1>4, <1>5, <1>6, <1>7 DEF Shape, y

\* A list is fired, while no deferred is being settled.
LEMMA SettleShape ==
  ASSUME NEW x, Shape(x), Calm(x), NEW d \in Deferreds, NEW t \in Tuples
  PROVE  LET y == Settle(x, d, t) IN
         /\ Shape(y) /\ Kept(x, y)
         /\ \A e \in Deferreds, u \in Finals :
              /\ Alive(y, e, u) = Alive(x, e, u) /\ Wait(y, e, u) = Wait(x, e, u)
              /\ Fired(y, e, u) = IF e = d /\ u = t THEN Alive(x, d, t) ELSE Fired(x, e, u)
<1> DEFINE l == x.lists[d][t]
           m == FireWith(l, 1)
           y == Settle(x, d, t)
<1>1. x \in States /\ l \in Lists /\ ListFits(l, d, t)
  BY ListTyped DEF Shape, ListsFit
<1>2. /\ m \in Lists /\ ListFits(m, d, t) /\ (l.firing => m.firing)
      /\ t \in Finals =>
           /\ OutcomeFits(l, d, t)
           /\ ~Virgin(l, d, t) => m = l
           /\ Virgin(l, d, t) => Setting(m, d, t) /\ m.index = 1
           /\ m.alive = l.alive /\ m.fired = l.alive /\ Waiting(m) = Waiting(l)
  <2>1. CASE t \in Finals
    <3>1. ~Setting(l, d, t) /\ OutcomeFits(l, d, t)
      BY <2>1, <1>1 DEF Calm, ListFits
    <3>2. /\ m \in Lists /\ OutcomeFits(m, d, t)
          /\ ~Virgin(l, d, t) => m = l
          /\ Virgin(l, d, t) => Setting(m, d, t) /\ m.index = 1
          /\ m.alive = l.alive /\ m.fired = l.alive
          /\ l.firing => m.firing
          /\ Waiting(m) = Waiting(l)
      BY <2>1, <3>1, <1>1, SettleFits
    <3> QED
      BY <2>1, <3>1, <3>2 DEF ListFits
  <2>2. CASE t \notin Finals
    <3>1. t = "notify"
      BY <2>2, Outcomes
    <3>2. NotesFit(l, d)
      BY <2>2, <1>1 DEF ListFits
    <3> HIDE DEF l, m
    <3>3. m \in Lists /\ NotesFit(m, d) /\ (l.firing => m.firing)
      BY <3>1, <3>2, <1>1, NotifyFits DEF m
    <3> QED
      BY <2>2, <3>3 DEF ListFits
  <2> QED
    BY <2>1, <2>2
<1>3. y = WithList(x, d, t, m)
  BY DEF Settle
<1>4. t \in Finals /\ Setting(m, d, t) => ~l.firing
  <2>1. SUFFICES ASSUME t \in Finals, Setting(m, d, t) PROVE ~l.firing
    OBVIOUS
  <2>2. m # l
    BY <2>1 DEF Calm
  <2> QED
    BY <2>1, <2>2, <1>2 DEF Virgin
<1> HIDE DEF m, y
<1>5. /\ y \in States /\ Kept(x, y) /\ ListsFit(y) /\ FramesFit(y) /\ TopFits(y)
      /\ \A e \in Deferreds, u \in Tuples :
           y.lists[e][u] = IF e = d /\ u = t THEN m ELSE x.lists[e][u]
  BY <1>2, <1>3, <1>4, WithListResult
<1>6. ASSUME NEW e \in Deferreds, NEW u \in Finals
      PROVE  /\ Alive(y, e, u) = Alive(x, e, u) /\ Wait(y, e, u) = Wait(x, e, u)
             /\ Fired(y, e, u) = IF e = d /\ u = t THEN Alive(x, d, t) ELSE Fired(x, e, u)
  <2>1. u \in Tuples
    BY Outcomes
  <2>2. CASE e = d /\ u = t
    BY <2>1, <2>2, <1>2, <1>5 DEF Alive, Fired, Wait
  <2>3. CASE ~(e = d /\ u = t)
    BY <2>1, <2>3, <1>5 DEF Alive, Fired, Wait
  <2> QED
    BY <2>2, <2>3
<1>7. StatesFit(y)
  <2>1. SUFFICES ASSUME NEW e \in Deferreds, NEW u \in Finals PROVE StateFits(y, e, u)
    BY DEF StatesFit
  <2> DEFINE o == Opposite[u]
  <2>2. /\ StateFits(x, e, u) /\ StateFits(x, e, o) /\ o \in Finals /\ Opposite[o] = u /\ o # u
        /\ u \in Tuples /\ o \in Tuples
    BY Outcomes DEF Shape, StatesFit
  <2>3. ~Early(x, e, u, 1) /\ ~Early(x, e, u, 2) /\ ~Early(x, e, o, 1) /\ ~Early(x, e, o, 2)
    BY <2>2 DEF Calm, Early
  <2>4. y.state = x.state
    BY <1>5 DEF Kept
  <2>5. CASE y.lists[e][u] = x.lists[e][u]
    <3>1. ~Early(y, e, u, 1) /\ ~Early(y, e, u, 2)
      BY <2>5, <2>3 DEF Early
    <3>2. Fired(y, e, u) = Fired(x, e, u) /\ Alive(y, e, u) = Alive(x, e, u)
             /\ Alive(y, e, o) = Alive(x, e, o)
      BY <2>5, <1>6, <2>2 DEF Fired
    <3> QED
      BY <2>2, <2>3, <2>4, <3>1, <3>2 DEF StateFits
  <2>6. CASE y.lists[e][u] # x.lists[e][u]
    <3>1. e = d /\ u = t /\ m # l
      BY <2>2, <2>6, <1>5
    <3>2. Virgin(l, d, t) /\ Setting(m, d, t) /\ m.index = 1 /\ y.lists[e][u] = m
      BY <2>2, <3>1, <1>2, <1>5
    <3>3. Early(y, e, u, 1) /\ Early(y, e, u, 2)
      BY <3>1, <3>2 DEF Early
    <3>4. Alive(x, e, u) /\ ~Fired(x, e, u)
      BY <3>1, <3>2 DEF Virgin, Alive, Fired
    <3>5. x.state[e] # Final[u] /\ Alive(x, e, o)
      BY <2>2, <3>4 DEF StateFits
    <3>6. ~Fired(x, e, o)
      BY <2>2, <2>3, <3>4 DEF StateFits
    <3>7. x.state[e] # Final[o]
      BY <2>2, <3>6 DEF StateFits
    <3>8. x.state[e] = "pending"
      BY <1>1, <3>5, <3>7, Outcomes DEF States, Finals
    <3>9. Alive(y, e, u) = Alive(x, e, u) /\ Alive(y, e, o) = Alive(x, e, o)
             /\ Fired(y, e, o) = Fired(x, e, o)
      BY <1>6, <2>2, <3>1
    <3>10. Final[u] # "pending"
      BY Outcomes
    <3> QED
      BY <2>4, <3>3, <3>4, <3>5, <3>6, <3>8, <3>9, <3>10 DEF StateFits
  <2> QED
    BY <2>5, <2>6
<1> QED
  BY <1>5, <1>6, <1>7 DEF Shape, y

-----------------------------------------------------------------------------
(* Steps of the loop on top.                                                 *)

\* The loop on top is that of list t of deferred d.
OnTop(x, d, t) ==
  /\ x.frames # <<>> /\ d \in Deferreds /\ t \in Tuples
  /\ IsLoopOf(x.frames[Len(x.frames)], d, t)

LEMMA TopTyped ==
  ASSUME NEW x, Shape(x), x.frames # <<>>
  PROVE  LET p == x.frames[Len(x.frames)] IN
         /\ p \in Frames /\ OnTop(x, p.d, p.t) /\ Len(x.frames) \in DOMAIN x.frames
         /\ x.lists[p.d][p.t].firing
<1>1. x.frames \in Seq(Frames)
  BY DEF Shape, States
<1>2. Len(x.frames) \in DOMAIN x.frames
  BY <1>1
<1>3. x.frames[Len(x.frames)] \in Frames
  BY <1>1, <1>2
<1> QED
  BY <1>2, <1>3 DEF OnTop, IsLoopOf, Frames, Shape, FramesFit

\* Who settles a deferred is on top.
LEMMA SettingOnTop ==
  ASSUME NEW x, Shape(x), NEW d \in Deferreds, NEW t \in Tuples, OnTop(x, d, t),
         NEW e \in Deferreds, NEW u \in Finals, Setting(x.lists[e][u], e, u)
  PROVE  e = d /\ u = t /\ x.frames[Len(x.frames)].at = "loop"
<1>1. x.frames[Len(x.frames)] = [d |-> e, t |-> u, at |-> "loop"]
  BY DEF Shape, TopFits
<1> QED
  BY <1>1 DEF OnTop, IsLoopOf

LEMMA CalmUnlessOnTop ==
  ASSUME NEW x, Shape(x), x.frames = <<>> \/ x.frames[Len(x.frames)].at # "loop"
  PROVE  Calm(x)
<1>1. SUFFICES ASSUME NEW d \in Deferreds, NEW t \in Finals, Setting(x.lists[d][t], d, t)
               PROVE  FALSE
  BY DEF Calm
<1>2. x.frames # <<>> /\ x.frames[Len(x.frames)] = [d |-> d, t |-> t, at |-> "loop"]
  BY <1>1 DEF Shape, TopFits
<1> QED
  BY <1>2

\* Where a loop stands is of no account to the shape.
LEMMA AtShape ==
  ASSUME NEW x, Shape(x), Calm(x), x.frames # <<>>, NEW v \in {"loop", "user", "pass"}
  PROVE  LET y == [x EXCEPT !.frames[Len(x.frames)].at = v] IN
         /\ Shape(y) /\ Calm(y) /\ Kept(x, y) /\ y.lists = x.lists
<1> DEFINE n == Len(x.frames)
           q == [x.frames EXCEPT ![n] = [x.frames[n] EXCEPT !.at = v]]
           y == [x EXCEPT !.frames = q]
<1>1. [x EXCEPT !.frames[Len(x.frames)].at = v] = y
  OBVIOUS
<1>2. x \in States /\ x.frames \in Seq(Frames) /\ n \in DOMAIN x.frames /\ x.frames[n] \in Frames
  BY TopTyped DEF Shape, States
<1>3. [x.frames[n] EXCEPT !.at = v] \in Frames
  BY <1>2 DEF Frames
<1>4. /\ q \in Seq(Frames) /\ DOMAIN q = DOMAIN x.frames
      /\ \A i \in DOMAIN q : q[i].d = x.frames[i].d /\ q[i].t = x.frames[i].t
  BY <1>2, <1>3 DEF Frames
<1> HIDE DEF q
<1>5. y \in States /\ y.frames = q /\ y.lists = x.lists /\ Kept(x, y)
  BY <1>2, <1>4 DEF States, Kept
<1> HIDE DEF y
<1>6. ListsFit(y) /\ Calm(y) /\ StatesFit(y)
  BY <1>5 DEF Shape, ListsFit, Calm, StatesFit, StateFits, Fired, Alive, Early, Kept
<1>7. FramesFit(y)
  <2>1. FramesFit(x)
    BY DEF Shape
  <2> QED
    BY <2>1, <1>4, <1>5 DEF FramesFit, IsLoopOf
<1>8. TopFits(y)
  BY <1>6 DEF TopFits, Calm
<1> QED
  BY <1>1, <1>5, <1>6, <1>7, <1>8 DEF Shape

\* Nor what the handlers and when() count.
LEMMA CountsShape ==
  ASSUME NEW x, Shape(x), NEW y \in States,
         y.lists = x.lists, y.state = x.state, y.frames = x.frames
  PROVE  Shape(y) /\ (Calm(x) => Calm(y))
<1>1. ListsFit(y) /\ FramesFit(y)
  BY DEF Shape, ListsFit, FramesFit
<1>2. TopFits(y) /\ (Calm(x) => Calm(y))
  BY DEF Shape, TopFits, Calm
<1>3. \A d \in Deferreds, t \in Finals : StateFits(y, d, t)
  <2>1. SUFFICES ASSUME NEW d \in Deferreds, NEW t \in Finals PROVE StateFits(y, d, t)
    OBVIOUS
  <2>2. StateFits(x, d, t)
    BY DEF Shape, StatesFit
  <2> QED
    BY <2>2 DEF StateFits, Fired, Alive, Early
<1> QED
  BY <1>1, <1>2, <1>3 DEF Shape, StatesFit

\* The loops stay the same when the same lists fire.
LEMMA SameLoops ==
  ASSUME NEW x, Shape(x), NEW y, y.frames = x.frames,
         \A d \in Deferreds, t \in Tuples : y.lists[d][t].firing = x.lists[d][t].firing
  PROVE  FramesFit(y)
<1>1. FramesFit(x) /\ x.frames \in Seq(Frames)
  BY DEF Shape, States
<1>2. \A i \in DOMAIN x.frames : x.frames[i].d \in Deferreds /\ x.frames[i].t \in Tuples
  <2>1. TAKE i \in DOMAIN x.frames
  <2>2. x.frames[i] \in Frames
    BY <1>1
  <2> QED
    BY <2>2 DEF Frames
<1>3. \A i \in DOMAIN y.frames : y.lists[y.frames[i].d][y.frames[i].t].firing
  <2>1. \A i \in DOMAIN x.frames : x.lists[x.frames[i].d][x.frames[i].t].firing
    BY <1>1 DEF FramesFit
  <2> QED
    BY <2>1, <1>2
<1>4. \A d \in Deferreds, t \in Tuples :
        y.lists[d][t].firing => \E i \in DOMAIN y.frames : IsLoopOf(y.frames[i], d, t)
  BY <1>1 DEF FramesFit
<1>5. \A i, j \in DOMAIN y.frames : IsLoopOf(y.frames[i], y.frames[j].d, y.frames[j].t) => i = j
  BY <1>1 DEF FramesFit
<1> QED
  BY <1>3, <1>4, <1>5 DEF FramesFit

\* The function at the index has returned.
Back(x, d, t) == [x EXCEPT !.lists[d][t] = Returned(@, FALSE)]

LEMMA BackResult ==
  ASSUME NEW x, Shape(x), NEW d \in Deferreds, NEW t \in Tuples, OnTop(x, d, t),
         Calls(x.lists[d][t])
  PROVE  LET z == Back(x, d, t)
             m == Returned(x.lists[d][t], FALSE) IN
         /\ z \in States /\ z.frames = x.frames /\ Kept(x, z) /\ m \in Lists
         /\ \A e \in Deferreds, u \in Tuples :
              z.lists[e][u] = IF e = d /\ u = t THEN m ELSE x.lists[e][u]
         /\ ListsFit(z) /\ FramesFit(z)
<1> DEFINE l == x.lists[d][t]
           m == Returned(l, FALSE)
           z == Back(x, d, t)
<1>1. x \in States /\ l \in Lists /\ ListFits(l, d, t) /\ l.firing /\ x.frames \in Seq(Frames)
  BY ListTyped DEF Shape, ListsFit, OnTop, IsLoopOf, States, FramesFit
<1>a. l.firing
  BY TopTyped DEF OnTop, IsLoopOf
<1>2. m \in Lists /\ m.firing = l.firing /\ ListFits(m, d, t)
  <2>1. CASE t \in Finals
    <3>1. OutcomeFits(l, d, t)
      BY <2>1, <1>1 DEF ListFits
    <3>2. m \in Lists /\ m.firing = l.firing /\ OutcomeFits(m, d, t)
      BY <2>1, <3>1, <1>1, <1>a, ReturnedFits
    <3> QED
      BY <2>1, <3>2 DEF ListFits
  <2>2. CASE t \notin Finals
    <3>1. NotesFit(l, d)
      BY <2>2, <1>1 DEF ListFits
    <3>2. m \in Lists /\ m.firing = l.firing /\ NotesFit(m, d)
      BY <3>1, <1>1, <1>a, ReturnedNotes
    <3> QED
      BY <2>2, <3>2 DEF ListFits
  <2> QED
    BY <2>1, <2>2
<1>3. z = Put(x, d, t, m, x.frames)
  <2>1. x = [x EXCEPT !.frames = x.frames]
    BY <1>1 DEF States
  <2> QED
    BY <2>1, <1>1 DEF Back, Put, States
<1> HIDE DEF z, m
<1>4. /\ z \in States /\ z.frames = x.frames /\ Kept(x, z)
      /\ \A e \in Deferreds, u \in Tuples :
           z.lists[e][u] = IF e = d /\ u = t THEN m ELSE x.lists[e][u]
  BY <1>1, <1>2, <1>3, PutResult
<1>5. ListsFit(z)
  BY <1>2, <1>4 DEF Shape, ListsFit
<1>6. FramesFit(z)
  <2>1. \A e \in Deferreds, u \in Tuples : z.lists[e][u].firing = x.lists[e][u].firing
    BY <1>2, <1>4
  <2> QED
    BY <1>4, <2>1, SameLoops
<1> QED
  BY <1>2, <1>4, <1>5, <1>6 DEF z, m

\* A function is called that settles nothing at once.
LEMMA CalledShape ==
  ASSUME NEW x, Shape(x), NEW d \in Deferreds, NEW t \in Tuples, OnTop(x, d, t),
         Calls(x.lists[d][t]), ~(t \in Finals /\ Setting(x.lists[d][t], d, t))
  PROVE  LET z == Back(x, d, t)
             f == Called(x.lists[d][t]) IN
         /\ Calm(x) /\ Shape(z) /\ Calm(z) /\ Kept(x, z) /\ z.frames = x.frames
         /\ InBody(f, d, t)
         /\ t \in Finals => Fired(x, d, t) /\ Alive(x, d, t) /\ f \in Wait(x, d, t)
         /\ \A e \in Deferreds, u \in Finals :
              /\ Alive(z, e, u) = Alive(x, e, u) /\ Fired(z, e, u) = Fired(x, e, u)
              /\ \/ Wait(z, e, u) = Wait(x, e, u) /\ (e = d /\ u = t => MayComeAgain(f))
                 \/ e = d /\ u = t /\ Wait(z, e, u) = Wait(x, e, u) \ {f}
<1> DEFINE l == x.lists[d][t]
           m == Returned(l, FALSE)
           f == Called(l)
           z == Back(x, d, t)
<1>1. x \in States /\ l \in Lists /\ ListFits(l, d, t)
  BY ListTyped DEF Shape, ListsFit
<1>2. /\ z \in States /\ z.frames = x.frames /\ Kept(x, z) /\ m \in Lists
      /\ \A e \in Deferreds, u \in Tuples :
           z.lists[e][u] = IF e = d /\ u = t THEN m ELSE x.lists[e][u]
      /\ ListsFit(z) /\ FramesFit(z)
  BY BackResult, Zenon
<1>3. l.firing
  BY TopTyped DEF OnTop, IsLoopOf
<1>4. t \in Finals =>
        /\ m.alive = l.alive /\ m.fired = l.fired /\ f \in Waiting(l)
        /\ Waiting(m) = Waiting(l) \ {f} \/ (Waiting(m) = Waiting(l) /\ MayComeAgain(f))
        /\ Running(l, d, t) /\ ~Setting(m, d, t)
  <2>1. SUFFICES ASSUME t \in Finals
                 PROVE  /\ m.alive = l.alive /\ m.fired = l.fired /\ f \in Waiting(l)
                        /\ Waiting(m) = Waiting(l) \ {f}
                              \/ (Waiting(m) = Waiting(l) /\ MayComeAgain(f))
                        /\ Running(l, d, t) /\ ~Setting(m, d, t)
    OBVIOUS
  <2>2. OutcomeFits(l, d, t)
    BY <2>1, <1>1 DEF ListFits
  <2> QED
    BY <2>1, <2>2, <1>1, <1>3, ReturnedFits
<1>5. InBody(f, d, t)
  <2>1. CASE t \in Finals
    BY <2>1, <1>4 DEF Running
  <2>2. CASE t \notin Finals
    <3>1. t = "notify" /\ NotesFit(l, d)
      BY <2>2, <1>1, Outcomes DEF ListFits
    <3> QED
      BY <3>1, <1>1, <1>3, ReturnedNotes
  <2> QED
    BY <2>1, <2>2
<1>6. Calm(x)
  <2>1. SUFFICES ASSUME NEW e \in Deferreds, NEW u \in Finals, Setting(x.lists[e][u], e, u)
                 PROVE  FALSE
    BY DEF Calm
  <2>2. e = d /\ u = t
    BY <2>1, SettingOnTop
  <2> QED
    BY <2>1, <2>2
<1> HIDE DEF m, z, f
<1>7. \A e \in Deferreds, u \in Finals :
        /\ Alive(z, e, u) = Alive(x, e, u) /\ Fired(z, e, u) = Fired(x, e, u)
        /\ ~Setting(z.lists[e][u], e, u)
        /\ \/ Wait(z, e, u) = Wait(x, e, u) /\ (e = d /\ u = t => MayComeAgain(f))
           \/ e = d /\ u = t /\ Wait(z, e, u) = Wait(x, e, u) \ {f}
  <2>1. TAKE e \in Deferreds, u \in Finals
  <2>2. u \in Tuples
    BY Outcomes
  <2>3. CASE e = d /\ u = t
    BY <2>2, <2>3, <1>2, <1>4 DEF Alive, Fired, Wait
  <2>4. CASE ~(e = d /\ u = t)
    BY <2>2, <2>4, <1>2, <1>6 DEF Alive, Fired, Wait, Calm
  <2> QED
    BY <2>3, <2>4
<1>8. Calm(z) /\ TopFits(z)
  BY <1>7 DEF Calm, TopFits
<1>9. StatesFit(z)
  <2>1. SUFFICES ASSUME NEW e \in Deferreds, NEW u \in Finals PROVE StateFits(z, e, u)
    BY DEF StatesFit
  <2>2. StateFits(x, e, u) /\ Opposite[u] \in Finals
    BY Outcomes DEF Shape, StatesFit
  <2>3. ~Early(x, e, u, 1) /\ ~Early(x, e, u, 2) /\ ~Early(z, e, u, 1) /\ ~Early(z, e, u, 2)
    BY <1>6, <1>8 DEF Calm, Early
  <2>4. z.state = x.state
    BY <1>2 DEF Kept
  <2> QED
    BY <2>2, <2>3, <2>4, <1>7 DEF StateFits
<1>10. t \in Finals => Fired(x, d, t) /\ Alive(x, d, t) /\ f \in Wait(x, d, t)
  BY <1>4 DEF Fired, Alive, Wait, Running, Loops
<1> QED
  BY <1>2, <1>5, <1>6, <1>7, <1>8, <1>9, <1>10 DEF Shape, z, f

\* A loop on top ends.
Ended(x, d, t) ==
  LET l == AfterLoop(x.lists[d][t])
  IN  [x EXCEPT !.lists[d][t] = l,
                !.frames = IF l.firing THEN @ ELSE SubSeq(@, 1, Len(@) - 1)]

LEMMA EndedShape ==
  ASSUME NEW x, Shape(x), NEW d \in Deferreds, NEW t \in Tuples, OnTop(x, d, t),
         ~Calls(x.lists[d][t])
  PROVE  LET y == Ended(x, d, t) IN
         /\ Shape(y) /\ Kept(x, y)
         /\ \A e \in Deferreds, u \in Finals :
              Alive(y, e, u) = Alive(x, e, u) /\ Fired(y, e, u) = Fired(x, e, u)
                /\ Wait(y, e, u) = Wait(x, e, u)
<1> DEFINE l == x.lists[d][t]
           m == AfterLoop(l)
           n == Len(x.frames)
           q == IF m.firing THEN x.frames ELSE SubSeq(x.frames, 1, n - 1)
           y == Ended(x, d, t)
<1>1. x \in States /\ l \in Lists /\ ListFits(l, d, t) /\ x.frames \in Seq(Frames)
  BY ListTyped DEF Shape, ListsFit, States
<1>2. l.firing /\ FramesFit(x)
  BY TopTyped DEF OnTop, IsLoopOf, Shape
<1>3. /\ m \in Lists /\ ListFits(m, d, t)
      /\ t \in Finals =>
           /\ ~m.firing /\ m.alive = l.alive /\ m.fired = l.fired /\ Waiting(m) = Waiting(l)
           /\ ~Setting(l, d, t) /\ ~Setting(m, d, t)
  <2>1. CASE t \in Finals
    <3>1. OutcomeFits(l, d, t)
      BY <2>1, <1>1 DEF ListFits
    <3>2. /\ m \in Lists /\ OutcomeFits(m, d, t) /\ Done(m)
          /\ m.alive = l.alive /\ m.fired = l.fired
          /\ Waiting(m) = {} /\ Waiting(l) = {} /\ Running(l, d, t)
      BY <2>1, <3>1, <1>1, <1>2, EndFits
    <3>3. ~Setting(l, d, t)
      BY <2>1, <1>1, SettingIsNotRunning
    <3>4. ~m.firing /\ ~Setting(m, d, t)
      BY <3>2 DEF Done, Setting, Loops
    <3> QED
      BY <2>1, <3>2, <3>3, <3>4 DEF ListFits
  <2>2. CASE t \notin Finals
    <3>1. NotesFit(l, d)
      BY <2>2, <1>1 DEF ListFits
    <3>2. m \in Lists /\ NotesFit(m, d)
      BY <3>1, <1>1, EndNotes
    <3> QED
      BY <2>2, <3>2 DEF ListFits
  <2> QED
    BY <2>1, <2>2
<1> HIDE DEF m
<1>4. /\ n \in Nat /\ n >= 1 /\ DOMAIN x.frames = 1 .. n /\ q \in Seq(Frames)
      /\ ~m.firing => DOMAIN q = 1 .. n - 1 /\ \A i \in 1 .. n - 1 : q[i] = x.frames[i]
      /\ m.firing => q = x.frames
      /\ \A i \in 1 .. n : x.frames[i].d \in Deferreds /\ x.frames[i].t \in Tuples
  <2>1. n \in Nat /\ n >= 1 /\ DOMAIN x.frames = 1 .. n
    BY <1>1 DEF OnTop
  <2>2. ASSUME NEW i \in 1 .. n PROVE x.frames[i].d \in Deferreds /\ x.frames[i].t \in Tuples
    <3>1. x.frames[i] \in Frames
      BY <1>1, <2>1
    <3> QED
      BY <3>1 DEF Frames
  <2>3. CASE m.firing
    BY <1>1, <2>1, <2>2, <2>3
  <2>4. CASE ~m.firing
    <3>1. \A i \in 1 .. n - 1 : x.frames[i] \in Frames
      BY <1>1, <2>1
    <3>2. q = SubSeq(x.frames, 1, n - 1)
      BY <2>4
    <3>3. q = [i \in 1 .. n - 1 |-> x.frames[i]]
      BY <3>2, <2>1 DEF SubSeq
    <3> HIDE DEF q
    <3>4. q \in Seq(Frames)
      BY <3>1, <3>3, <2>1
    <3> QED
      BY <2>1, <2>2, <2>4, <3>3, <3>4
  <2> QED
    BY <2>3, <2>4
<1>5. y = Put(x, d, t, m, q)
  BY Zenon DEF Ended, Put, m, q, n
<1> HIDE DEF y, q
<1>6. /\ y \in States /\ y.frames = q /\ Kept(x, y)
      /\ \A e \in Deferreds, u \in Tuples :
           y.lists[e][u] = IF e = d /\ u = t THEN m ELSE x.lists[e][u]
  BY <1>1, <1>3, <1>4, <1>5, PutResult
<1>7. ListsFit(y)
  BY <1>3, <1>6 DEF Shape, ListsFit
<1>8. ASSUME NEW e \in Deferreds, NEW u \in Finals
      PROVE  /\ Alive(y, e, u) = Alive(x, e, u) /\ Fired(y, e, u) = Fired(x, e, u)
             /\ Wait(y, e, u) = Wait(x, e, u)
             /\ ~Setting(y.lists[e][u], e, u) /\ ~Setting(x.lists[e][u], e, u)
  <2>1. u \in Tuples
    BY Outcomes
  <2>2. CASE e = d /\ u = t
    BY <2>1, <2>2, <1>3, <1>6 DEF Alive, Fired, Wait
  <2>3. CASE ~(e = d /\ u = t)
    <3>1. ~Setting(x.lists[e][u], e, u)
      BY <2>3, SettingOnTop
    <3> QED
      BY <2>1, <2>3, <3>1, <1>6 DEF Alive, Fired, Wait
  <2> QED
    BY <2>2, <2>3
<1>9. TopFits(y)
  BY <1>8 DEF TopFits
<1>10. StatesFit(y)
  <2>1. SUFFICES ASSUME NEW e \in Deferreds, NEW u \in Finals PROVE StateFits(y, e, u)
    BY DEF StatesFit
  <2>2. StateFits(x, e, u) /\ Opposite[u] \in Finals
    BY Outcomes DEF Shape, StatesFit
  <2>3. ~Early(x, e, u, 1) /\ ~Early(x, e, u, 2) /\ ~Early(y, e, u, 1) /\ ~Early(y, e, u, 2)
    BY <1>8 DEF Early
  <2>4. y.state = x.state
    BY <1>6 DEF Kept
  <2> QED
    BY <2>2, <2>3, <2>4, <1>8 DEF StateFits
<1>11. FramesFit(y)
  <2>0. x.frames[n].d = d /\ x.frames[n].t = t
    BY DEF OnTop, IsLoopOf
  <2>1. CASE m.firing
    <3>1. \A e \in Deferreds, u \in Tuples : y.lists[e][u].firing = x.lists[e][u].firing
      <4>1. m.firing = TRUE /\ l.firing = TRUE
        BY <2>1, <1>1, <1>2, <1>3 DEF Lists
      <4> QED
        BY <4>1, <1>6
    <3> QED
      BY <2>1, <3>1, <1>4, <1>6, SameLoops
  <2>2. CASE ~m.firing
    <3>1. ASSUME NEW i \in 1 .. n - 1
          PROVE  i \in 1 .. n /\ i # n /\ ~IsLoopOf(x.frames[i], d, t)
      <4>1. i \in 1 .. n /\ i # n
        BY <1>4
      <4>2. IsLoopOf(x.frames[i], x.frames[n].d, x.frames[n].t) => i = n
        <5>1. \A j, k \in DOMAIN x.frames :
                IsLoopOf(x.frames[j], x.frames[k].d, x.frames[k].t) => j = k
          BY <1>2 DEF FramesFit
        <5>2. i \in DOMAIN x.frames /\ n \in DOMAIN x.frames
          BY <4>1, <1>4
        <5> QED
          BY <5>1, <5>2
      <4> QED
        BY <4>1, <4>2, <2>0
    <3>2. \A i \in DOMAIN q : y.lists[q[i].d][q[i].t].firing
      <4>1. TAKE i \in DOMAIN q
      <4>2. i \in 1 .. n - 1 /\ q[i] = x.frames[i]
        BY <2>2, <1>4
      <4>3. x.lists[x.frames[i].d][x.frames[i].t].firing /\ ~IsLoopOf(x.frames[i], d, t)
        BY <4>2, <3>1, <1>2, <1>4 DEF FramesFit
      <4> DEFINE e == x.frames[i].d
                 u == x.frames[i].t
      <4>4. e \in Deferreds /\ u \in Tuples /\ ~(e = d /\ u = t)
        BY <4>2, <4>3, <3>1, <1>4 DEF IsLoopOf
      <4> HIDE DEF e, u
      <4>5. y.lists[e][u] = x.lists[e][u]
        BY <4>4, <1>6
      <4> QED
        BY <4>2, <4>3, <4>5 DEF e, u
    <3>3. \A i, j \in DOMAIN q : IsLoopOf(q[i], q[j].d, q[j].t) => i = j
      <4>1. TAKE i, j \in DOMAIN q
      <4>2. i \in 1 .. n - 1 /\ j \in 1 .. n - 1 /\ q[i] = x.frames[i] /\ q[j] = x.frames[j]
        BY <2>2, <1>4
      <4>3. i \in DOMAIN x.frames /\ j \in DOMAIN x.frames
        BY <4>2, <3>1, <1>4
      <4> QED
        BY <4>2, <4>3, <1>2 DEF FramesFit
    <3>4. \A e \in Deferreds, u \in Tuples :
            y.lists[e][u].firing => \E i \in DOMAIN q : IsLoopOf(q[i], e, u)
      <4>1. SUFFICES ASSUME NEW e \in Deferreds, NEW u \in Tuples, y.lists[e][u].firing
                     PROVE  \E i \in DOMAIN q : IsLoopOf(q[i], e, u)
        OBVIOUS
      <4>2. ~(e = d /\ u = t) /\ x.lists[e][u].firing
        BY <4>1, <2>2, <1>6
      <4>3. PICK i \in DOMAIN x.frames : IsLoopOf(x.frames[i], e, u)
        BY <4>2, <1>2 DEF FramesFit
      <4>4. i # n
        BY <4>2, <4>3, <2>0 DEF IsLoopOf
      <4>5. i \in DOMAIN q /\ q[i] = x.frames[i]
        BY <4>3, <4>4, <2>2, <1>4
      <4> QED
        BY <4>3, <4>5
    <3> QED
      BY <3>2, <3>3, <3>4, <1>6 DEF FramesFit
  <2> QED
    BY <2>1, <2>2
<1> QED
  BY <1>6, <1>7, <1>8, <1>9, <1>10, <1>11 DEF Shape, y

-----------------------------------------------------------------------------
(* The functions that settle a deferred.                                     *)

\* What one of them does to what is to be called: another list may be of no use,
\* one that has not fired.
HeadViews(x, y) ==
  /\ y.remaining = x.remaining /\ y.added = x.added /\ y.called = x.called
  /\ \A d \in Deferreds : y.state[d] = x.state[d] \/ x.state[d] = "pending"
  /\ \A d \in Deferreds, t \in Finals :
       /\ Fired(y, d, t) = Fired(x, d, t)
       /\ Alive(y, d, t) => Alive(x, d, t)
       /\ Alive(x, d, t) /\ ~Alive(y, d, t) => ~Fired(x, d, t)
       /\ \A f : f.do \notin Headers /\ Alive(y, d, t)
             => (f \in Wait(y, d, t) <=> f \in Wait(x, d, t))
       /\ ~Alive(y, d, t) =>
             \A f : f.do \notin Headers => (f \in Wait(y, d, t) => f \in Wait(x, d, t))

\* What all three do, where the loop is at one of them.
IsAtHead(x, d, t) ==
  LET l == x.lists[d][t]
      m == Returned(l, FALSE)
      z == Back(x, d, t) IN
  /\ l.index \in {1, 2, 3} /\ Calls(l)
  /\ Called(l) = CASE l.index = 1 -> Setter(d, t)
                   [] l.index = 2 -> Disabler(d, t)
                   [] l.index = 3 -> Locker(d)
  /\ z \in States /\ z.frames = x.frames /\ Kept(x, z)
  /\ ListsFit(z) /\ FramesFit(z)
  /\ m \in Lists /\ m.index = l.index + 1 /\ (Setting(m, d, t) <=> m.index <= 3)
  /\ m.alive = l.alive /\ m.fired = l.fired /\ m.fired = TRUE
  /\ \A f : f.do \notin Headers => (f \in Waiting(m) <=> f \in Waiting(l))
  /\ \A e \in Deferreds, u \in Tuples :
       z.lists[e][u] = IF e = d /\ u = t THEN m ELSE x.lists[e][u]
  /\ \A e \in Deferreds, u \in Finals :
       ~(e = d /\ u = t) => ~Setting(x.lists[e][u], e, u)
  /\ x.frames # <<>> /\ x.frames[Len(x.frames)] = [d |-> d, t |-> t, at |-> "loop"]

LEMMA AtTheHead ==
  ASSUME NEW x, Shape(x), NEW d \in Deferreds, NEW t \in Finals, OnTop(x, d, t),
         Setting(x.lists[d][t], d, t)
  PROVE  IsAtHead(x, d, t)
<1> DEFINE l == x.lists[d][t]
           m == Returned(l, FALSE)
           z == Back(x, d, t)
<1>1. x \in States /\ t \in Tuples /\ l \in Lists /\ OutcomeFits(l, d, t)
  <2>1. t \in Tuples /\ x \in States
    BY Outcomes DEF Shape
  <2>2. ListFits(l, d, t)
    BY <2>1 DEF Shape, ListsFit
  <2> QED
    BY <2>1, <2>2, ListTyped DEF ListFits
<1>2. Calls(l) /\ l.firing /\ l.fired /\ Called(l).do \in Headers
  BY <1>1, SettingIsNotRunning
<1>3. l.index \in {1, 2, 3}
  <2>1. l.index \in Nat /\ 1 <= l.index /\ l.index <= 3
    BY <1>1 DEF Setting, Loops, Lists
  <2> HIDE DEF l
  <2> QED
    BY <2>1
<1>4. Called(l) = CASE l.index = 1 -> Setter(d, t)
                    [] l.index = 2 -> Disabler(d, t)
                    [] l.index = 3 -> Locker(d)
  BY <1>3 DEF Called, Setting, Headed
<1>5. /\ z \in States /\ z.frames = x.frames /\ Kept(x, z) /\ m \in Lists
      /\ \A e \in Deferreds, u \in Tuples :
           z.lists[e][u] = IF e = d /\ u = t THEN m ELSE x.lists[e][u]
      /\ ListsFit(z) /\ FramesFit(z)
  BY <1>1, <1>2, BackResult, Zenon
<1>6. /\ m.alive = l.alive /\ m.fired = l.fired /\ m.index = l.index + 1
      /\ Waiting(m) = Waiting(l) \ {Called(l)} \/
         (Waiting(m) = Waiting(l) /\ MayComeAgain(Called(l)))
      /\ Headed(m, d, t) /\ Loops(m)
  BY <1>1, <1>2, ReturnedFits
<1>7. \A f : f.do \notin Headers => (f \in Waiting(m) <=> f \in Waiting(l))
  BY <1>2, <1>6
<1>8. Setting(m, d, t) <=> m.index <= 3
  BY <1>6 DEF Setting
<1>9. \A e \in Deferreds, u \in Finals : ~(e = d /\ u = t) => ~Setting(x.lists[e][u], e, u)
  BY <1>1, SettingOnTop
<1>10. x.frames # <<>> /\ x.frames[Len(x.frames)] = [d |-> d, t |-> t, at |-> "loop"]
  BY DEF Shape, TopFits
<1>11. m.fired = TRUE
  BY <1>1, <1>2, <1>6 DEF Lists
<1> HIDE DEF l, m, z
<1> QED
  BY <1>2, <1>3, <1>4, <1>5, <1>6, <1>7, <1>8, <1>9, <1>10, <1>11 DEF IsAtHead, l, m, z

\* The state is set.
LEMMA SetterShape ==
  ASSUME NEW x, Shape(x), NEW d \in Deferreds, NEW t \in Finals, OnTop(x, d, t),
         Setting(x.lists[d][t], d, t), x.lists[d][t].index = 1
  PROVE  LET y == [Back(x, d, t) EXCEPT !.state[d] = Final[t]] IN
         Shape(y) /\ HeadViews(x, y)
<1> DEFINE l == x.lists[d][t]
           m == Returned(l, FALSE)
           z == Back(x, d, t)
           o == Opposite[t]
           y == [z EXCEPT !.state[d] = Final[t]]
<1> HIDE DEF l, m, z
<1>a. /\ z \in States /\ z.frames = x.frames /\ Kept(x, z)
      /\ ListsFit(z) /\ FramesFit(z)
      /\ m \in Lists /\ m.index = l.index + 1 /\ (Setting(m, d, t) <=> m.index <= 3)
      /\ m.alive = l.alive /\ m.fired = l.fired /\ m.fired = TRUE
      /\ \A f : f.do \notin Headers => (f \in Waiting(m) <=> f \in Waiting(l))
      /\ \A e \in Deferreds, u \in Tuples :
           z.lists[e][u] = IF e = d /\ u = t THEN m ELSE x.lists[e][u]
      /\ \A e \in Deferreds, u \in Finals : ~(e = d /\ u = t) => ~Setting(x.lists[e][u], e, u)
      /\ x.frames # <<>> /\ x.frames[Len(x.frames)] = [d |-> d, t |-> t, at |-> "loop"]
  <2>1. IsAtHead(x, d, t)
    BY AtTheHead
  <2> QED
    BY <2>1 DEF IsAtHead, l, m, z
<1>b. l.index = 1
  BY DEF l
<1>1. /\ z \in States /\ z.frames = x.frames /\ Kept(x, z)
      /\ ListsFit(z) /\ FramesFit(z)
      /\ m \in Lists /\ m.index = 2 /\ Setting(m, d, t) /\ l.index = 1
      /\ m.alive = l.alive /\ m.fired = l.fired /\ m.fired = TRUE
      /\ \A f : f.do \notin Headers => (f \in Waiting(m) <=> f \in Waiting(l))
      /\ \A e \in Deferreds, u \in Tuples :
           z.lists[e][u] = IF e = d /\ u = t THEN m ELSE x.lists[e][u]
      /\ \A e \in Deferreds, u \in Finals : ~(e = d /\ u = t) => ~Setting(x.lists[e][u], e, u)
      /\ x.frames # <<>> /\ x.frames[Len(x.frames)] = [d |-> d, t |-> t, at |-> "loop"]
  BY <1>a, <1>b
<1>2. /\ y \in States /\ y.lists = z.lists /\ y.frames = x.frames
      /\ y.remaining = x.remaining /\ y.added = x.added /\ y.called = x.called
      /\ \A e \in Deferreds : y.state[e] = IF e = d THEN Final[t] ELSE x.state[e]
  <2>1. Final[t] \in {"pending", "resolved", "rejected"}
    BY Outcomes
  <2>2. z.state = x.state
    BY <1>1 DEF Kept
  <2> QED
    BY <1>1, <2>1, <2>2 DEF States, Kept
<1> HIDE DEF y
<1>3. ListsFit(y) /\ FramesFit(y)
  BY <1>1, <1>2 DEF ListsFit, FramesFit
<1>4. ASSUME NEW e \in Deferreds, NEW u \in Finals
      PROVE  /\ Alive(y, e, u) = Alive(x, e, u) /\ Fired(y, e, u) = Fired(x, e, u)
             /\ \A f : f.do \notin Headers => (f \in Wait(y, e, u) <=> f \in Wait(x, e, u))
             /\ y.lists[e][u] = IF e = d /\ u = t THEN m ELSE x.lists[e][u]
  <2>1. u \in Tuples
    BY Outcomes
  <2>2. y.lists[e][u] = IF e = d /\ u = t THEN m ELSE x.lists[e][u]
    BY <2>1, <1>1, <1>2
  <2>3. CASE e = d /\ u = t
    BY <2>2, <2>3, <1>1 DEF Alive, Fired, Wait, l
  <2>4. CASE ~(e = d /\ u = t)
    BY <2>2, <2>4 DEF Alive, Fired, Wait
  <2> QED
    BY <2>2, <2>3, <2>4
<1>5. TopFits(y)
  BY <1>1, <1>2, <1>4 DEF TopFits
<1>6. /\ StateFits(x, d, t) /\ Early(x, d, t, 1) /\ Early(x, d, t, 2)
      /\ o \in Finals /\ o # t /\ Opposite[o] = t /\ Final[o] # Final[t]
  BY Outcomes, <1>1 DEF Shape, StatesFit, Early, l
<1>7. /\ x.state[d] = "pending" /\ Alive(x, d, o) /\ ~Fired(x, d, o)
  BY <1>6 DEF StateFits
<1>8. StatesFit(y)
  <2>1. SUFFICES ASSUME NEW e \in Deferreds, NEW u \in Finals PROVE StateFits(y, e, u)
    BY DEF StatesFit
  <2>2. CASE e # d
    <3>1. StateFits(x, e, u) /\ Opposite[u] \in Finals
      BY Outcomes DEF Shape, StatesFit
    <3>2. Early(y, e, u, 1) = Early(x, e, u, 1) /\ Early(y, e, u, 2) = Early(x, e, u, 2)
      BY <2>2, <1>4 DEF Early
    <3>3. y.state[e] = x.state[e]
      BY <2>2, <1>2
    <3> QED
      BY <3>1, <3>2, <3>3, <1>4 DEF StateFits
  <2>3. CASE e = d /\ u = t
    <3>1. ~Early(y, d, t, 1) /\ Early(y, d, t, 2)
      BY <2>3, <1>1, <1>4 DEF Early
    <3>2. Fired(y, d, t) /\ Alive(y, d, o) /\ ~Fired(y, d, o) /\ y.state[d] = Final[t]
      BY <2>3, <1>1, <1>2, <1>4, <1>6, <1>7 DEF Fired
    <3>3. Alive(y, d, t)
      BY <1>1, <1>4 DEF Alive, Setting, Loops
    <3> QED
      BY <2>3, <3>1, <3>2, <3>3, <1>6 DEF StateFits
  <2>4. CASE e = d /\ u = o
    <3>1. ~Early(y, d, o, 1) /\ ~Early(y, d, o, 2)
      BY <1>1, <1>4, <1>6 DEF Early
    <3>2. Alive(y, d, o) /\ ~Fired(y, d, o) /\ y.state[d] = Final[t]
      BY <1>2, <1>4, <1>6, <1>7
    <3> QED
      BY <2>4, <3>1, <3>2, <1>6 DEF StateFits
  <2>5. u = t \/ u = o
    BY Outcomes DEF Finals
  <2> QED
    BY <2>2, <2>3, <2>4, <2>5
<1>9. HeadViews(x, y)
  <2>1. \A e \in Deferreds : y.state[e] = x.state[e] \/ x.state[e] = "pending"
    BY <1>2, <1>7
  <2> QED
    BY <2>1, <1>2, <1>4 DEF HeadViews
<1> QED
  BY <1>2, <1>3, <1>5, <1>8, <1>9 DEF Shape, y, z

LEMMA PutList ==
  ASSUME NEW x \in States, NEW d \in Deferreds, NEW t \in Tuples, NEW l
  PROVE  [x EXCEPT !.lists[d][t] = l] = Put(x, d, t, l, x.frames)
<1>1. x = [x EXCEPT !.frames = x.frames]
  BY DEF States
<1> QED
  BY <1>1 DEF Put, States

\* The other outcome is ruled out.
LEMMA DisablerShape ==
  ASSUME NEW x, Shape(x), NEW d \in Deferreds, NEW t \in Finals, OnTop(x, d, t),
         Setting(x.lists[d][t], d, t), x.lists[d][t].index = 2
  PROVE  LET y == [Back(x, d, t) EXCEPT !.lists[d][Opposite[t]] = Disable(@)] IN
         Shape(y) /\ HeadViews(x, y)
<1> DEFINE l == x.lists[d][t]
           m == Returned(l, FALSE)
           z == Back(x, d, t)
           o == Opposite[t]
           k == Disable(x.lists[d][o])
           y == [z EXCEPT !.lists[d][o] = Disable(@)]
<1> HIDE DEF l, m, z
<1>a. /\ z \in States /\ z.frames = x.frames /\ Kept(x, z)
      /\ ListsFit(z) /\ FramesFit(z)
      /\ m \in Lists /\ m.index = l.index + 1 /\ (Setting(m, d, t) <=> m.index <= 3)
      /\ m.alive = l.alive /\ m.fired = l.fired /\ m.fired = TRUE
      /\ \A f : f.do \notin Headers => (f \in Waiting(m) <=> f \in Waiting(l))
      /\ \A e \in Deferreds, u \in Tuples :
           z.lists[e][u] = IF e = d /\ u = t THEN m ELSE x.lists[e][u]
      /\ \A e \in Deferreds, u \in Finals : ~(e = d /\ u = t) => ~Setting(x.lists[e][u], e, u)
      /\ x.frames # <<>> /\ x.frames[Len(x.frames)] = [d |-> d, t |-> t, at |-> "loop"]
  <2>1. IsAtHead(x, d, t)
    BY AtTheHead
  <2> QED
    BY <2>1 DEF IsAtHead, l, m, z
<1>b. l.index = 2 /\ Setting(l, d, t)
  BY DEF l
<1>c. m.index = 3 /\ Setting(m, d, t)
  BY <1>a, <1>b
<1>1. /\ o \in Finals /\ o # t /\ Opposite[o] = t /\ Final[o] # Final[t] /\ o \in Tuples
            /\ t \in Tuples
      /\ \A u \in Finals : u = t \/ u = o
  BY Outcomes DEF Finals
<1>2. /\ StateFits(x, d, t) /\ ~Early(x, d, t, 1) /\ Early(x, d, t, 2) /\ Fired(x, d, t)
  <2>1. l.fired
    BY <1>a
  <2> QED
    BY <1>b, <2>1 DEF Shape, StatesFit, Early, Fired, l
<1>3. Alive(x, d, o) /\ ~Fired(x, d, o) /\ x.state[d] = Final[t]
  BY <1>2 DEF StateFits
<1>4. /\ k \in Lists /\ OutcomeFits(k, d, o) /\ Dead(k) /\ k.fired = x.lists[d][o].fired
      /\ k.firing = x.lists[d][o].firing /\ Waiting(k) = {}
  <2>1. x.lists[d][o] \in Lists /\ OutcomeFits(x.lists[d][o], d, o)
    BY <1>1, ListTyped DEF Shape, ListsFit, ListFits
  <2>2. Virgin(x.lists[d][o], d, o)
    BY <1>1, <1>3, <2>1, Phases DEF Alive, Fired
  <2> QED
    BY <1>1, <2>1, <2>2, DisableFits
<1>5. y = Put(z, d, o, k, x.frames)
  <2>1. z.lists[d][o] = x.lists[d][o]
    BY <1>a, <1>1
  <2>2. y = [z EXCEPT !.lists[d][o] = k]
    BY <2>1, <1>a DEF States
  <2> HIDE DEF y, k
  <2>3. z \in States /\ z.frames = x.frames
    BY <1>a
  <2>4. [z EXCEPT !.lists[d][o] = k] = Put(z, d, o, k, z.frames)
    BY <2>3, <1>1, PutList
  <2> QED
    BY <2>2, <2>3, <2>4
<1>6. x.frames \in Seq(Frames)
  BY DEF Shape, States
<1> HIDE DEF y, k
<1>7. /\ y \in States /\ y.frames = x.frames /\ Kept(x, y)
      /\ \A e \in Deferreds, u \in Tuples :
           y.lists[e][u] = IF e = d /\ u = t THEN m ELSE IF e = d /\ u = o THEN k ELSE x.lists[e][u]
  <2>1. /\ y \in States /\ y.frames = x.frames /\ Kept(z, y)
        /\ \A e \in Deferreds, u \in Tuples :
             y.lists[e][u] = IF e = d /\ u = o THEN k ELSE z.lists[e][u]
    BY <1>1, <1>4, <1>5, <1>6, <1>a, PutResult
  <2>2. Kept(x, y)
    BY <2>1, <1>a DEF Kept
  <2> QED
    BY <2>1, <2>2, <1>a, <1>1
<1>8. ListsFit(y)
  <2>1. SUFFICES ASSUME NEW e \in Deferreds, NEW u \in Tuples PROVE ListFits(y.lists[e][u], e, u)
    BY DEF ListsFit
  <2>2. CASE e = d /\ u = o
    BY <2>2, <1>1, <1>4, <1>7 DEF ListFits
  <2>3. CASE ~(e = d /\ u = o)
    <3>1. y.lists[e][u] = z.lists[e][u]
      BY <2>3, <1>7, <1>a
    <3> QED
      BY <3>1, <1>a DEF ListsFit
  <2> QED
    BY <2>2, <2>3
<1>9. FramesFit(y)
  <2>1. m.firing = x.lists[d][t].firing
    <3>1. Setting(l, d, t) /\ Setting(m, d, t) /\ l \in Lists
      BY <1>1, <1>b, <1>c, ListTyped DEF Shape, l
    <3> QED
      BY <3>1, <1>a DEF Setting, Loops, Lists, l
  <2>2. \A e \in Deferreds, u \in Tuples : y.lists[e][u].firing = x.lists[e][u].firing
    BY <2>1, <1>4, <1>7
  <2> QED
    BY <2>2, <1>7, SameLoops
<1>10. ASSUME NEW e \in Deferreds, NEW u \in Finals
       PROVE  /\ Fired(y, e, u) = Fired(x, e, u)
              /\ y.lists[e][u]
                    = IF e = d /\ u = t THEN m ELSE IF e = d /\ u = o THEN k ELSE x.lists[e][u]
              /\ ~(e = d /\ u = o) => Alive(y, e, u) = Alive(x, e, u)
              /\ e = d /\ u = o => ~Alive(y, e, u) /\ Wait(y, e, u) = {}
              /\ ~(e = d /\ u = o) => \A f : f.do \notin Headers
                    => (f \in Wait(y, e, u) <=> f \in Wait(x, e, u))
  <2>1. y.lists[e][u] = IF e = d /\ u = t THEN m ELSE IF e = d /\ u = o THEN k ELSE x.lists[e][u]
    BY <1>7, Outcomes
  <2>2. CASE e = d /\ u = t
    BY <2>1, <2>2, <1>1, <1>a DEF Alive, Fired, Wait, l
  <2>3. CASE e = d /\ u = o
    BY <2>1, <2>3, <1>1, <1>4 DEF Alive, Fired, Wait, Dead
  <2>4. CASE ~(e = d /\ u = t) /\ ~(e = d /\ u = o)
    BY <2>1, <2>4 DEF Alive, Fired, Wait
  <2> QED
    BY <2>1, <2>2, <2>3, <2>4
<1>11. TopFits(y)
  <2>1. SUFFICES ASSUME NEW e \in Deferreds, NEW u \in Finals, Setting(y.lists[e][u], e, u)
                 PROVE  e = d /\ u = t
    BY <1>a, <1>7 DEF TopFits
  <2>2. ~(e = d /\ u = o)
    BY <2>1, <1>4, <1>10, <1>1 DEF Dead, Setting, Loops
  <2> QED
    BY <2>1, <2>2, <1>10, <1>a
<1>12. StatesFit(y)
  <2>1. SUFFICES ASSUME NEW e \in Deferreds, NEW u \in Finals PROVE StateFits(y, e, u)
    BY DEF StatesFit
  <2>0. y.state = x.state
    BY <1>7 DEF Kept
  <2>2. CASE e # d
    <3>1. StateFits(x, e, u) /\ Opposite[u] \in Finals
      BY Outcomes DEF Shape, StatesFit
    <3>2. Early(y, e, u, 1) = Early(x, e, u, 1) /\ Early(y, e, u, 2) = Early(x, e, u, 2)
      BY <2>2, <1>10 DEF Early
    <3> QED
      BY <2>0, <2>2, <3>1, <3>2, <1>10 DEF StateFits
  <2>3. CASE e = d /\ u = t
    <3>1. ~Early(y, d, t, 1) /\ ~Early(y, d, t, 2)
      BY <2>3, <1>c, <1>10 DEF Early
    <3>2. Fired(y, d, t) /\ ~Alive(y, d, o) /\ y.state[d] = Final[t]
      BY <2>0, <1>1, <1>2, <1>3, <1>10
    <3>3. Alive(y, d, t)
      BY <1>c, <1>1, <1>10 DEF Alive, Setting, Loops
    <3> QED
      BY <2>3, <3>1, <3>2, <3>3, <1>1 DEF StateFits
  <2>4. CASE e = d /\ u = o
    <3>1. ~Early(y, d, o, 1) /\ ~Early(y, d, o, 2)
      BY <1>4, <1>10, <1>1 DEF Early, Dead, Setting, Loops
    <3>2. ~Alive(y, d, o) /\ ~Fired(y, d, o) /\ y.state[d] = Final[t]
      BY <2>0, <1>1, <1>3, <1>10
    <3> QED
      BY <2>4, <3>1, <3>2, <1>1 DEF StateFits
  <2> QED
    BY <2>2, <2>3, <2>4, <1>1
<1>13. HeadViews(x, y)
  <2>1. ASSUME NEW e \in Deferreds, NEW u \in Finals
        PROVE  /\ Fired(y, e, u) = Fired(x, e, u)
               /\ Alive(y, e, u) => Alive(x, e, u)
               /\ Alive(x, e, u) /\ ~Alive(y, e, u) => ~Fired(x, e, u)
               /\ \A f : f.do \notin Headers /\ Alive(y, e, u)
                     => (f \in Wait(y, e, u) <=> f \in Wait(x, e, u))
               /\ ~Alive(y, e, u) =>
                     \A f : f.do \notin Headers => (f \in Wait(y, e, u) => f \in Wait(x, e, u))
    <3>1. CASE e = d /\ u = o
      BY <3>1, <1>3, <1>10
    <3>2. CASE ~(e = d /\ u = o)
      BY <3>2, <1>10
    <3> QED
      BY <3>1, <3>2
  <2> QED
    BY <2>1, <1>7 DEF HeadViews, Kept
<1> QED
  BY <1>7, <1>8, <1>9, <1>11, <1>12, <1>13 DEF Shape, y, z

\* The notes end.
LEMMA LockerShape ==
  ASSUME NEW x, Shape(x), NEW d \in Deferreds, NEW t \in Finals, OnTop(x, d, t),
         Setting(x.lists[d][t], d, t), x.lists[d][t].index = 3
  PROVE  LET y == [Back(x, d, t) EXCEPT !.lists[d]["notify"] = Lock(@)] IN
         Shape(y) /\ HeadViews(x, y)
<1> DEFINE l == x.lists[d][t]
           m == Returned(l, FALSE)
           z == Back(x, d, t)
           o == Opposite[t]
           k == Lock(x.lists[d]["notify"])
           y == [z EXCEPT !.lists[d]["notify"] = Lock(@)]
<1> HIDE DEF l, m, z
<1>a. /\ z \in States /\ z.frames = x.frames /\ Kept(x, z)
      /\ ListsFit(z) /\ FramesFit(z)
      /\ m \in Lists /\ m.index = l.index + 1 /\ (Setting(m, d, t) <=> m.index <= 3)
      /\ m.alive = l.alive /\ m.fired = l.fired /\ m.fired = TRUE
      /\ \A f : f.do \notin Headers => (f \in Waiting(m) <=> f \in Waiting(l))
      /\ \A e \in Deferreds, u \in Tuples :
           z.lists[e][u] = IF e = d /\ u = t THEN m ELSE x.lists[e][u]
      /\ \A e \in Deferreds, u \in Finals : ~(e = d /\ u = t) => ~Setting(x.lists[e][u], e, u)
  <2>1. IsAtHead(x, d, t)
    BY AtTheHead
  <2> QED
    BY <2>1 DEF IsAtHead, l, m, z
<1>b. l.index = 3 /\ Setting(l, d, t)
  BY DEF l
<1>c. m.index = 4 /\ ~Setting(m, d, t)
  BY <1>a, <1>b
<1>1. /\ o \in Finals /\ o # t /\ Opposite[o] = t /\ Final[o] # Final[t] /\ t \in Tuples
      /\ "notify" \in Tuples /\ "notify" \notin Finals
      /\ \A u \in Finals : u = t \/ u = o
  BY Outcomes DEF Finals
<1>2. /\ StateFits(x, d, t) /\ ~Early(x, d, t, 1) /\ ~Early(x, d, t, 2)
  BY <1>b DEF Shape, StatesFit, Early, l
<1>4. k \in Lists /\ NotesFit(k, d) /\ k.firing = x.lists[d]["notify"].firing
  <2>1. x.lists[d]["notify"] \in Lists /\ NotesFit(x.lists[d]["notify"], d)
    BY <1>1, ListTyped DEF Shape, ListsFit, ListFits
  <2> QED
    BY <2>1, LockFits
<1>5. y = Put(z, d, "notify", k, x.frames)
  <2>1. z.lists[d]["notify"] = x.lists[d]["notify"]
    BY <1>a, <1>1
  <2>2. y = [z EXCEPT !.lists[d]["notify"] = k]
    BY <2>1, <1>a DEF States
  <2> HIDE DEF y, k
  <2>3. z \in States /\ z.frames = x.frames
    BY <1>a
  <2>4. [z EXCEPT !.lists[d]["notify"] = k] = Put(z, d, "notify", k, z.frames)
    BY <2>3, <1>1, PutList
  <2> QED
    BY <2>2, <2>3, <2>4
<1>6. x.frames \in Seq(Frames)
  BY DEF Shape, States
<1> HIDE DEF y, k
<1>7. /\ y \in States /\ y.frames = x.frames /\ Kept(x, y)
      /\ \A e \in Deferreds, u \in Tuples :
           y.lists[e][u]
              = IF e = d /\ u = t THEN m ELSE IF e = d /\ u = "notify" THEN k ELSE x.lists[e][u]
  <2>1. /\ y \in States /\ y.frames = x.frames /\ Kept(z, y)
        /\ \A e \in Deferreds, u \in Tuples :
             y.lists[e][u] = IF e = d /\ u = "notify" THEN k ELSE z.lists[e][u]
    BY <1>1, <1>4, <1>5, <1>6, <1>a, PutResult
  <2>2. Kept(x, y)
    BY <2>1, <1>a DEF Kept
  <2> QED
    BY <2>1, <2>2, <1>a, <1>1
<1>8. ListsFit(y)
  <2>1. SUFFICES ASSUME NEW e \in Deferreds, NEW u \in Tuples PROVE ListFits(y.lists[e][u], e, u)
    BY DEF ListsFit
  <2>2. CASE e = d /\ u = "notify"
    BY <2>2, <1>1, <1>4, <1>7 DEF ListFits
  <2>3. CASE ~(e = d /\ u = "notify")
    <3>1. y.lists[e][u] = z.lists[e][u]
      BY <2>3, <1>7, <1>a
    <3> QED
      BY <3>1, <1>a DEF ListsFit
  <2> QED
    BY <2>2, <2>3
<1>9. FramesFit(y)
  <2>1. m.firing = x.lists[d][t].firing
    <3>1. Setting(l, d, t) /\ l \in Lists /\ l.index <= l.length
      <4>1. l \in Lists
        BY <1>1, ListTyped DEF Shape, l
      <4> QED
        BY <4>1, <1>b DEF Setting, Loops, Headed, Lists
    <3>2. l.firing /\ Calls(l)
      BY <3>1 DEF Setting, Loops, Calls
    <3>3. OutcomeFits(l, d, t)
      BY <1>1 DEF Shape, ListsFit, ListFits, l
    <3> QED
      BY <3>1, <3>2, <3>3, ReturnedFits DEF l, m
  <2>2. \A e \in Deferreds, u \in Tuples : y.lists[e][u].firing = x.lists[e][u].firing
    BY <2>1, <1>4, <1>7
  <2> QED
    BY <2>2, <1>7, SameLoops
<1>10. ASSUME NEW e \in Deferreds, NEW u \in Finals
       PROVE  /\ Fired(y, e, u) = Fired(x, e, u) /\ Alive(y, e, u) = Alive(x, e, u)
              /\ y.lists[e][u] = IF e = d /\ u = t THEN m ELSE x.lists[e][u]
              /\ \A f : f.do \notin Headers => (f \in Wait(y, e, u) <=> f \in Wait(x, e, u))
  <2>1. y.lists[e][u] = IF e = d /\ u = t THEN m ELSE x.lists[e][u]
    BY <1>7, <1>1, Outcomes
  <2>2. CASE e = d /\ u = t
    BY <2>1, <2>2, <1>1, <1>a DEF Alive, Fired, Wait, l
  <2>3. CASE ~(e = d /\ u = t)
    BY <2>1, <2>3 DEF Alive, Fired, Wait
  <2> QED
    BY <2>1, <2>2, <2>3
<1>11. \A e \in Deferreds, u \in Finals : ~Setting(y.lists[e][u], e, u)
  BY <1>10, <1>a, <1>c
<1>12. TopFits(y)
  BY <1>11 DEF TopFits
<1>13. StatesFit(y)
  <2>1. SUFFICES ASSUME NEW e \in Deferreds, NEW u \in Finals PROVE StateFits(y, e, u)
    BY DEF StatesFit
  <2>2. StateFits(x, e, u) /\ Opposite[u] \in Finals
    BY Outcomes DEF Shape, StatesFit
  <2>3. ~Early(y, e, u, 1) /\ ~Early(y, e, u, 2)
    BY <1>11 DEF Early
  <2>4. ~Early(x, e, u, 1) /\ ~Early(x, e, u, 2)
    <3>1. CASE e = d /\ u = t
      BY <3>1, <1>2
    <3>2. CASE ~(e = d /\ u = t)
      BY <3>2, <1>a DEF Early
    <3> QED
      BY <3>1, <3>2
  <2>5. y.state = x.state
    BY <1>7 DEF Kept
  <2> QED
    BY <2>2, <2>3, <2>4, <2>5, <1>10 DEF StateFits
<1>14. HeadViews(x, y)
  BY <1>10, <1>7 DEF HeadViews, Kept
<1> QED
  BY <1>7, <1>8, <1>9, <1>12, <1>13, <1>14 DEF Shape, y, z

-----------------------------------------------------------------------------
(* Duty: what is still to be called, and what follows from what has been.    *)

\* A function of the page waits in its lists until it is called.
Heard(x, h, t) ==
  /\ x.called[h] <= 1
  /\ x.called[h] = 1 => h \in x.added /\ Expects(h, x.state[h.d])
  /\ Alive(x, h.d, t) => (User(h) \in Wait(x, h.d, t) <=> h \in x.added /\ x.called[h] = 0)
HandlersHeard(x) == \A h \in Handlers, t \in Finals : Listens(h, h.d, t) => Heard(x, h, t)

\* when() counts the subordinates whose function has not been called.
Reported(x) ==
  {d \in Subs : Fired(x, d, "resolve") /\ Reporter("resolve") \notin Wait(x, d, "resolve")}
Refused(x) ==
  \E d \in Subs : Fired(x, d, "reject") /\ Reporter("reject") \notin Wait(x, d, "reject")
Reports(x) ==
  /\ \A d \in Subs, t \in Finals :
       Alive(x, d, t) /\ ~Fired(x, d, t) => Reporter(t) \in Wait(x, d, t)
  /\ x.remaining = Subordinates - Cardinality(Reported(x))
  /\ Fired(x, Master, "resolve") <=> x.remaining = 0
  /\ Fired(x, Master, "reject") <=> Refused(x)

\* then(): the outcome has been passed on, or Inner has been asked for its own.
Asks(t) == SettleFunction(Follower, t)
Passed(x, t) == Fired(x, Master, t) /\ Passer(t) \notin Wait(x, Master, t)
PassedOn(x) == \E t \in Chained \cap Finals : Passed(x, t)
Follows(x, t) ==
  \/ Passed(x, t) /\ t \notin Chained
  \/ PassedOn(x) /\ Fired(x, Inner, t) /\ Asks(t) \notin Wait(x, Inner, t)
Passes(x) ==
  \A t \in Finals :
    /\ Alive(x, Master, t) /\ ~Fired(x, Master, t) => Passer(t) \in Wait(x, Master, t)
    /\ Asks(t) \in Wait(x, Inner, t) => PassedOn(x)
    /\ PassedOn(x) /\ Alive(x, Inner, t) /\ ~Fired(x, Inner, t) => Asks(t) \in Wait(x, Inner, t)
    /\ Fired(x, Follower, t) <=> Follows(x, t)

Duty(x) ==
  /\ HandlersHeard(x)
  /\ Master \notin Subs => Reports(x)
  /\ "notify" \notin Chained => Passes(x)

-----------------------------------------------------------------------------
(* Views: what each part of the duty depends on.                             *)

SameUsers(x, y) ==
  /\ y.added = x.added /\ y.called = x.called /\ y.state = x.state
  /\ \A d \in Deferreds, t \in Finals :
       /\ Alive(y, d, t) = Alive(x, d, t)
       /\ \A h \in Handlers : User(h) \in Wait(y, d, t) <=> User(h) \in Wait(x, d, t)
SameReports(x, y) ==
  /\ y.remaining = x.remaining
  /\ \A d \in Subs \cup {Master}, t \in Finals :
       /\ Alive(y, d, t) = Alive(x, d, t) /\ Fired(y, d, t) = Fired(x, d, t)
       /\ d \in Subs => (Reporter(t) \in Wait(y, d, t) <=> Reporter(t) \in Wait(x, d, t))
SamePasses(x, y) ==
  /\ \A d \in {Master, Inner, Follower}, t \in Finals :
       Alive(y, d, t) = Alive(x, d, t) /\ Fired(y, d, t) = Fired(x, d, t)
  /\ \A t \in Finals : /\ Passer(t) \in Wait(y, Master, t) <=> Passer(t) \in Wait(x, Master, t)
                       /\ Asks(t) \in Wait(y, Inner, t) <=> Asks(t) \in Wait(x, Inner, t)

LEMMA UsersSame ==
  ASSUME HandlersFit, NEW x, NEW y, SameUsers(x, y), HandlersHeard(x)
  PROVE  HandlersHeard(y)
<1>1. \A h \in Handlers : h.d \in Deferreds
  BY DEF HandlersFit
<1> QED
  BY <1>1 DEF SameUsers, HandlersHeard, Heard

LEMMA ReportsSame ==
  ASSUME NEW x, NEW y, SameReports(x, y), Reports(x)
  PROVE  Reports(y)
<1>1. "resolve" \in Finals /\ "reject" \in Finals
  BY DEF Finals
<1>2. Reported(y) = Reported(x)
  BY <1>1 DEF SameReports, Reported
<1>3. Refused(y) <=> Refused(x)
  BY <1>1 DEF SameReports, Refused
<1>4. /\ Fired(y, Master, "resolve") = Fired(x, Master, "resolve")
      /\ Fired(y, Master, "reject") = Fired(x, Master, "reject")
  BY <1>1 DEF SameReports
<1>5. \A d \in Subs, t \in Finals :
        Alive(y, d, t) /\ ~Fired(y, d, t) => Reporter(t) \in Wait(y, d, t)
  BY DEF SameReports, Reports
<1> QED
  BY <1>2, <1>3, <1>4, <1>5 DEF Reports, SameReports

LEMMA PassesSame ==
  ASSUME NEW x, NEW y, SamePasses(x, y), Passes(x)
  PROVE  Passes(y)
<1>1. \A t \in Finals : Passed(y, t) <=> Passed(x, t)
  BY DEF Passed, SamePasses
<1>2. PassedOn(y) <=> PassedOn(x)
  BY <1>1 DEF PassedOn
<1>3. \A t \in Finals : Follows(y, t) <=> Follows(x, t)
  BY <1>1, <1>2 DEF Follows, SamePasses
<1> QED
  BY <1>2, <1>3 DEF Passes, SamePasses

LEMMA DistinctFunctions ==
  ASSUME Subordinates \in Nat
  PROVE  /\ \A h, k : User(h) = User(k) => h = k
         /\ \A h, t : User(h) # Passer(t) /\ User(h) # Reporter(t) /\ User(h) # Asks(t)
         /\ \A t, u : Passer(t) # Reporter(u) /\ Passer(t) # Asks(u)
         /\ \A h, t : /\ User(h).do = "user" /\ Passer(t).do = "pass" /\ Asks(t).do = "settle"
                      /\ Reporter(t).do \in {"update", "settle"}
         /\ \A h : User(h).h = h
         /\ \A t : ~MayComeAgain(Passer(t)) /\ ~MayComeAgain(User(t))
         /\ \A t : ~MayComeAgain(Reporter(t)) /\ Reporter(t).do \notin Headers
         /\ \A h, t : User(h).do \notin Headers /\ Passer(t).do \notin Headers
               /\ Asks(t).do \notin Headers
<1>1. \A h, k : User(h) = User(k) => h = k
  <2>1. \A h : User(h).h = h
    BY DEF User
  <2> QED
    BY <2>1
<1>2. \A h, t : /\ User(h).do = "user" /\ Passer(t).do = "pass" /\ Asks(t).do = "settle"
                /\ Reporter(t).do \in {"update", "settle"} /\ User(h).h = h
  BY DEF User, Passer, Asks, Reporter, SettleFunction
<1>3. \A t : Asks(t).d = Follower
  BY DEF Asks, SettleFunction
<1>4. \A t : t = "reject" => Reporter(t).d = Master
  BY DEF Reporter, SettleFunction
<1>5. \A t : t # "reject" => Reporter(t).do = "update"
  BY DEF Reporter
<1>6. Follower # Master
  BY Numbers
<1>7. \A t, u : Reporter(t) # Asks(u)
  BY <1>2, <1>3, <1>4, <1>5, <1>6
<1>8. \A f : MayComeAgain(f) => \E u : f = Asks(u)
  BY DEF MayComeAgain, Asks
<1>9. \A h, t : /\ User(h) # Passer(t) /\ User(h) # Reporter(t) /\ User(h) # Asks(t)
                /\ Passer(t) # Reporter(h) /\ Passer(t) # Asks(h)
  BY <1>2
<1>10. \A h, t : /\ User(h).do \notin Headers /\ Passer(t).do \notin Headers
                 /\ Asks(t).do \notin Headers
                 /\ Reporter(t).do \notin Headers
  BY <1>2 DEF Headers
<1>11. \A t : ~MayComeAgain(Passer(t)) /\ ~MayComeAgain(User(t)) /\ ~MayComeAgain(Reporter(t))
  BY <1>7, <1>8, <1>9
<1> QED
  BY <1>1, <1>2, <1>9, <1>10, <1>11

\* One outcome rules out the other.
LEMMA OneOutcome ==
  ASSUME NEW x, Shape(x), NEW d \in Deferreds, NEW t \in Finals
  PROVE  /\ Fired(x, d, t) => ~Fired(x, d, Opposite[t]) /\ Alive(x, d, t)
         /\ ~Alive(x, d, t) => Fired(x, d, Opposite[t]) /\ Wait(x, d, t) = {}
         /\ Calm(x) /\ Fired(x, d, t) => x.state[d] = Final[t] /\ ~Alive(x, d, Opposite[t])
<1> DEFINE o == Opposite[t]
<1>1. o \in Finals /\ Opposite[o] = t /\ t \in Tuples /\ o \in Tuples
  BY Outcomes
<1>2. /\ StateFits(x, d, t) /\ StateFits(x, d, o)
      /\ OutcomeFits(x.lists[d][t], d, t) /\ OutcomeFits(x.lists[d][o], d, o)
      /\ x.lists[d][t] \in Lists /\ x.lists[d][o] \in Lists
  BY <1>1, ListTyped DEF Shape, StatesFit, ListsFit, ListFits
<1>3. /\ Fired(x, d, t) => Alive(x, d, t)
      /\ Fired(x, d, o) => Alive(x, d, o)
      /\ ~Alive(x, d, t) => Dead(x.lists[d][t])
  BY <1>1, <1>2, Phases DEF Fired, Alive
<1>4. Fired(x, d, t) => ~Fired(x, d, o)
  BY <1>2, <1>3 DEF StateFits
<1>5. ~Alive(x, d, t) => Fired(x, d, o)
  BY <1>1, <1>2 DEF StateFits
<1>6. Dead(x.lists[d][t]) => Wait(x, d, t) = {}
  BY DEF Dead, Wait, Waiting, Waits
<1>7. Calm(x) => ~Early(x, d, t, 1) /\ ~Early(x, d, t, 2)
  BY DEF Calm, Early
<1>8. Calm(x) /\ Fired(x, d, t) => x.state[d] = Final[t] /\ ~Alive(x, d, o)
  BY <1>2, <1>7 DEF StateFits
<1> QED
  BY <1>3, <1>4, <1>5, <1>6, <1>8

-----------------------------------------------------------------------------
(* The duty and the functions that settle a deferred.                        *)

LEMMA HeadDuty ==
  ASSUME Subordinates \in Nat, HandlersFit,
         NEW x, Shape(x), Duty(x), NEW y, Shape(y), HeadViews(x, y)
  PROVE  Duty(y)
<1>1. /\ Master \in Deferreds /\ Inner \in Deferreds /\ Follower \in Deferreds
            /\ Subs \subseteq Deferreds
      /\ "resolve" \in Finals /\ "reject" \in Finals
  BY Numbers DEF Finals
<1>2. ASSUME NEW d \in Deferreds, NEW t \in Finals
      PROVE  /\ Fired(y, d, t) = Fired(x, d, t)
             /\ Fired(x, d, t) => Alive(y, d, t) /\ Alive(x, d, t)
             /\ Alive(y, d, t) => Alive(x, d, t)
             /\ \A f : f.do \notin Headers /\ Alive(y, d, t)
                   => (f \in Wait(y, d, t) <=> f \in Wait(x, d, t))
             /\ \A f : f.do \notin Headers => (f \in Wait(y, d, t) => f \in Wait(x, d, t))
  BY OneOutcome DEF HeadViews
<1>3. HandlersHeard(y)
  <2>1. SUFFICES ASSUME NEW h \in Handlers, NEW t \in Finals, Listens(h, h.d, t)
                 PROVE Heard(y, h, t)
    BY DEF HandlersHeard
  <2>2. Heard(x, h, t) /\ h.d \in Deferreds
    BY <2>1 DEF Duty, HandlersHeard, HandlersFit
  <2>3. User(h).do \notin Headers
    BY DistinctFunctions
  <2>4. y.called[h] = 1 => y.state[h.d] = x.state[h.d]
    <3>1. y.called = x.called /\ (y.state[h.d] = x.state[h.d] \/ x.state[h.d] = "pending")
      BY <2>2 DEF HeadViews
    <3>2. ~Expects(h, "pending")
      BY DEF Expects, Final
    <3> QED
      BY <2>2, <3>1, <3>2 DEF Heard
  <2> QED
    BY <2>2, <2>3, <2>4, <1>2 DEF Heard, HeadViews
<1>4. ASSUME Master \notin Subs PROVE Reports(y)
  <2>1. Reports(x)
    BY <1>4 DEF Duty
  <2>2. \A t : Reporter(t).do \notin Headers
    BY DistinctFunctions
  <2>3. Reported(y) = Reported(x)
    <3>1. \A d \in Subs : /\ Fired(y, d, "resolve") = Fired(x, d, "resolve")
                          /\ Fired(x, d, "resolve") =>
                               (Reporter("resolve") \in Wait(y, d, "resolve")
                                  <=> Reporter("resolve") \in Wait(x, d, "resolve"))
      BY <1>1, <1>2, <2>2
    <3> QED
      BY <3>1 DEF Reported
  <2>4. Refused(y) <=> Refused(x)
    <3>1. \A d \in Subs : /\ Fired(y, d, "reject") = Fired(x, d, "reject")
                          /\ Fired(x, d, "reject") =>
                               (Reporter("reject") \in Wait(y, d, "reject")
                                  <=> Reporter("reject") \in Wait(x, d, "reject"))
      BY <1>1, <1>2, <2>2
    <3> QED
      BY <3>1 DEF Refused
  <2>5. \A d \in Subs, t \in Finals :
          Alive(y, d, t) /\ ~Fired(y, d, t) => Reporter(t) \in Wait(y, d, t)
    BY <1>1, <1>2, <2>1, <2>2 DEF Reports
  <2>6. /\ Fired(y, Master, "resolve") = Fired(x, Master, "resolve")
        /\ Fired(y, Master, "reject") = Fired(x, Master, "reject")
        /\ y.remaining = x.remaining
    BY <1>1, <1>2 DEF HeadViews
  <2> QED
    BY <2>1, <2>3, <2>4, <2>5, <2>6 DEF Reports
<1>5. ASSUME "notify" \notin Chained PROVE Passes(y)
  <2>1. Passes(x)
    BY <1>5 DEF Duty
  <2>2. \A t : Passer(t).do \notin Headers /\ Asks(t).do \notin Headers
    BY DistinctFunctions
  <2>3. \A t \in Finals : Passed(y, t) <=> Passed(x, t)
    BY <1>1, <1>2, <2>2 DEF Passed
  <2>4. PassedOn(y) <=> PassedOn(x)
    BY <2>3 DEF PassedOn
  <2>5. \A t \in Finals : Follows(y, t) <=> Follows(x, t)
    BY <1>1, <1>2, <2>2, <2>3, <2>4 DEF Follows
  <2> QED
    BY <1>1, <1>2, <2>1, <2>2, <2>4, <2>5 DEF Passes
<1> QED
  BY <1>3, <1>4, <1>5 DEF Duty

-----------------------------------------------------------------------------
(* The duty when a list is fired.                                            *)

SettledIn(x, y, d, t) ==
  /\ Kept(x, y)
  /\ \A e \in Deferreds, u \in Finals :
       /\ Alive(y, e, u) = Alive(x, e, u) /\ Wait(y, e, u) = Wait(x, e, u)
       /\ Fired(y, e, u) = IF e = d /\ u = t THEN Alive(x, d, t) ELSE Fired(x, e, u)

LEMMA UsersWhenSettled ==
  ASSUME HandlersFit, NEW x, NEW y, NEW d, NEW t, SettledIn(x, y, d, t), HandlersHeard(x)
  PROVE  HandlersHeard(y)
<1>1. SameUsers(x, y)
  BY DEF SameUsers, SettledIn, Kept
<1> QED
  BY <1>1, UsersSame

LEMMA ReportsWhenSettled ==
  ASSUME Subordinates \in Nat, NEW x, Shape(x), Reports(x), NEW y, NEW d \in Deferreds, NEW t,
         SettledIn(x, y, d, t), d # Master
  PROVE  Reports(y)
<1>1. Master \in Deferreds /\ Subs \subseteq Deferreds /\ "resolve" \in Finals
         /\ "reject" \in Finals
  BY Numbers DEF Finals
<1>2. \A e \in Subs, u \in Finals : /\ Alive(y, e, u) = Alive(x, e, u)
                                    /\ Wait(y, e, u) = Wait(x, e, u)
                                    /\ Fired(x, e, u) => Fired(y, e, u)
                                    /\ Fired(y, e, u) /\ ~Fired(x, e, u) => Alive(x, e, u)
  BY <1>1, OneOutcome DEF SettledIn
<1>3. \A e \in Subs, u \in Finals :
        Fired(y, e, u) /\ Reporter(u) \notin Wait(y, e, u) <=>
        Fired(x, e, u) /\ Reporter(u) \notin Wait(x, e, u)
  BY <1>2 DEF Reports
<1>4. Reported(y) = Reported(x)
  BY <1>1, <1>3 DEF Reported
<1>5. Refused(y) <=> Refused(x)
  BY <1>1, <1>3 DEF Refused
<1>6. /\ Fired(y, Master, "resolve") = Fired(x, Master, "resolve")
      /\ Fired(y, Master, "reject") = Fired(x, Master, "reject")
      /\ y.remaining = x.remaining
  BY <1>1 DEF SettledIn, Kept
<1>7. \A e \in Subs, u \in Finals :
        Alive(y, e, u) /\ ~Fired(y, e, u) => Reporter(u) \in Wait(y, e, u)
  BY <1>2 DEF Reports
<1> QED
  BY <1>4, <1>5, <1>6, <1>7 DEF Reports

LEMMA PassesWhenSettled ==
  ASSUME Subordinates \in Nat, NEW x, Shape(x), Passes(x), NEW y, NEW d \in Deferreds, NEW t,
         SettledIn(x, y, d, t), d # Follower \/ t = "notify"
  PROVE  Passes(y)
<1>1. Master \in Deferreds /\ Inner \in Deferreds /\ Follower \in Deferreds
         /\ "notify" \notin Finals
  BY Numbers DEF Finals
<1>2. \A e \in Deferreds, u \in Finals : /\ Alive(y, e, u) = Alive(x, e, u)
                                         /\ Wait(y, e, u) = Wait(x, e, u)
                                         /\ Fired(x, e, u) => Fired(y, e, u)
                                         /\ Fired(y, e, u) /\ ~Fired(x, e, u) => Alive(x, e, u)
  BY OneOutcome DEF SettledIn
<1>3. \A u \in Finals : Fired(y, Follower, u) = Fired(x, Follower, u)
  BY <1>1 DEF SettledIn
<1>4. \A u \in Finals : Passed(y, u) <=> Passed(x, u)
  BY <1>1, <1>2 DEF Passed, Passes
<1>5. PassedOn(y) <=> PassedOn(x)
  BY <1>4 DEF PassedOn
<1>6. \A u \in Finals : Follows(y, u) <=> Follows(x, u)
  BY <1>1, <1>2, <1>4, <1>5 DEF Follows, Passes
<1> QED
  BY <1>1, <1>2, <1>3, <1>5, <1>6 DEF Passes

\* The page settles a deferred; Follower and the deferred of when() are settled
\* by functions of the library.
LEMMA DutyWhenSettled ==
  ASSUME Subordinates \in Nat, HandlersFit, NEW x, Shape(x), Duty(x), NEW y,
         NEW d \in Subs \cup {Inner}, NEW t, SettledIn(x, y, d, t)
  PROVE  Duty(y)
<1>1. d \in Deferreds /\ d # Follower /\ (Master \notin Subs => d # Master)
  BY Numbers
<1> QED
  BY <1>1, UsersWhenSettled, ReportsWhenSettled, PassesWhenSettled DEF Duty

-----------------------------------------------------------------------------
(* The duty when a function is called.                                       *)

TakenIn(x, z, d, t, f) ==
  /\ Kept(x, z)
  /\ \A e \in Deferreds, u \in Finals :
       /\ Alive(z, e, u) = Alive(x, e, u) /\ Fired(z, e, u) = Fired(x, e, u)
       /\ \/ Wait(z, e, u) = Wait(x, e, u) /\ (e = d /\ u = t => MayComeAgain(f))
          \/ e = d /\ u = t /\ Wait(z, e, u) = Wait(x, e, u) \ {f}

LEMMA UsersWhenTaken ==
  ASSUME HandlersFit, NEW x, NEW z, NEW d, NEW t, NEW f, TakenIn(x, z, d, t, f),
         \A h : f # User(h), HandlersHeard(x)
  PROVE  HandlersHeard(z)
<1>1. SameUsers(x, z)
  BY DEF SameUsers, TakenIn, Kept
<1> QED
  BY <1>1, UsersSame

LEMMA ReportsWhenTaken ==
  ASSUME Subordinates \in Nat, NEW x, NEW z, NEW d, NEW t, NEW f, TakenIn(x, z, d, t, f),
         d \notin Subs \/ t \notin Finals \/ f # Reporter(t), Reports(x)
  PROVE  Reports(z)
<1>1. Master \in Deferreds /\ Subs \subseteq Deferreds
  BY Numbers
<1>2. SameReports(x, z)
  BY <1>1 DEF SameReports, TakenIn, Kept
<1> QED
  BY <1>2, ReportsSame

LEMMA PassesWhenTaken ==
  ASSUME Subordinates \in Nat, NEW x, NEW z, NEW d, NEW t, NEW f, TakenIn(x, z, d, t, f),
         d # Master \/ t \notin Finals \/ f # Passer(t),
         d # Inner \/ t \notin Finals \/ f # Asks(t),
         Passes(x)
  PROVE  Passes(z)
<1>1. Master \in Deferreds /\ Inner \in Deferreds /\ Follower \in Deferreds
  BY Numbers
<1>2. SamePasses(x, z)
  BY <1>1 DEF SamePasses, TakenIn
<1> QED
  BY <1>2, PassesSame

\* What a step may rely on when it calls f, and what it has to show.
MayCall(x, z, d, t, f) ==
  /\ Shape(x) /\ Calm(x) /\ Shape(z) /\ Calm(z) /\ TakenIn(x, z, d, t, f)
  /\ d \in Deferreds /\ t \in Tuples /\ z.frames # <<>> /\ Duty(x)
  /\ t \in Finals => Fired(x, d, t) /\ Alive(x, d, t) /\ f \in Wait(x, d, t)

\* A function of the page.
LEMMA UserDuty ==
  ASSUME Subordinates \in Nat, HandlersFit, NEW x, NEW z, NEW d, NEW t,
         NEW h \in Handlers, MayCall(x, z, d, t, User(h)), Listens(h, d, t)
  PROVE  LET y == Effect(z, User(h)) IN Shape(y) /\ Duty(y) /\ y.state = x.state
<1> DEFINE f == User(h)
           w == [z EXCEPT !.frames[Len(z.frames)].at = "user"]
           y == [w EXCEPT !.called[h] = @ + 1]
<1>1. f.do = "user" /\ f.h = h /\ d = h.d /\ d \in Deferreds
  BY DEF User, MayCall, Listens
<1>2. Shape(w) /\ Calm(w) /\ Kept(z, w) /\ w.lists = z.lists
  BY AtShape DEF MayCall
<1>3. Effect(z, f) = [z EXCEPT !.called[h] = @ + 1, !.frames[Len(z.frames)].at = "user"]
  BY <1>1 DEF Effect
<1>4. Effect(z, f) = y
  <2>1. z \in States
    BY DEF MayCall, Shape
  <2> QED
    BY <1>3, <2>1 DEF States
<1> HIDE DEF w
<1>5. /\ y \in States /\ y.lists = w.lists /\ y.state = w.state /\ y.frames = w.frames
      /\ y.added = w.added /\ y.remaining = w.remaining
      /\ \A k \in Handlers : y.called[k] = IF k = h THEN w.called[k] + 1 ELSE w.called[k]
  <2>1. w \in States
    BY <1>2 DEF Shape
  <2>2. w.called[h] + 1 \in Nat
    BY <2>1 DEF States
  <2> QED
    BY <2>1, <2>2 DEF States
<1> HIDE DEF y, f
<1>6. Shape(y)
  BY <1>2, <1>5, CountsShape
<1>7. \A e \in Deferreds, u \in Finals :
        Alive(y, e, u) = Alive(z, e, u) /\ Fired(y, e, u) = Fired(z, e, u)
           /\ Wait(y, e, u) = Wait(z, e, u)
  BY <1>2, <1>5 DEF Alive, Fired, Wait
<1>8. HandlersHeard(y)
  <2>1. SUFFICES ASSUME NEW k \in Handlers, NEW u \in Finals, Listens(k, k.d, u)
                 PROVE  Heard(y, k, u)
    BY DEF HandlersHeard
  <2>2. Heard(x, k, u) /\ k.d \in Deferreds /\ u \in Tuples
    BY <2>1, Outcomes DEF MayCall, Duty, HandlersHeard, HandlersFit
  <2>3. /\ Alive(y, k.d, u) = Alive(x, k.d, u) /\ y.state = x.state /\ y.added = x.added
        /\ y.called[k] = IF k = h THEN x.called[k] + 1 ELSE x.called[k]
    BY <2>2, <1>2, <1>5, <1>7 DEF MayCall, TakenIn, Kept
  <2>4. ~MayComeAgain(f) /\ (User(k) = f => k = h)
    BY DistinctFunctions DEF f
  <2>5. CASE k # h
    <3>1. User(k) \in Wait(y, k.d, u) <=> User(k) \in Wait(x, k.d, u)
      BY <2>2, <2>4, <2>5, <1>7 DEF MayCall, TakenIn, f
    <3> QED
      BY <2>2, <2>3, <2>5, <3>1 DEF Heard
  <2>6. CASE k = h /\ u = t
    <3>1. /\ Fired(x, d, t) /\ Alive(x, d, t) /\ f \in Wait(x, d, t)
          /\ Wait(y, d, t) = Wait(x, d, t) \ {f}
      BY <2>2, <2>4, <2>6, <1>1, <1>7 DEF MayCall, TakenIn, f
    <3>2. h \in x.added /\ x.called[h] = 0
      BY <3>1, <2>2, <2>6, <1>1 DEF Heard, f
    <3>3. x.state[d] = Final[t]
      BY <3>1, <2>6, <1>1, OneOutcome DEF MayCall
    <3>4. Expects(h, x.state[h.d])
      <4>1. Final[t] # "pending" /\ t \in DOMAIN Final
        BY <2>6, Outcomes DEF Final, Finals
      <4> QED
        BY <3>3, <4>1, <1>1 DEF Expects, Listens
    <3> QED
      BY <2>3, <2>6, <3>1, <3>2, <3>4, <1>1 DEF Heard, f
  <2>7. CASE k = h /\ u # t
    <3>1. h.t = "always" /\ t \in Finals
      <4>1. h.t = t \/ (h.t = "always" /\ t \in Finals)
        BY DEF Listens
      <4>2. h.t = u \/ h.t = "always"
        BY <2>1, <2>7 DEF Listens
      <4>3. t # "always"
        BY DEF MayCall, Tuples
      <4> QED
        BY <4>1, <4>2, <4>3, <2>7
    <3>2. t = Opposite[u] /\ u = Opposite[t]
      BY <3>1, <2>7, Outcomes DEF Finals
    <3>3. Fired(x, d, t) /\ Alive(x, d, t) /\ f \in Wait(x, d, t)
      BY <3>1 DEF MayCall, f
    <3>4. x.state[d] = Final[t] /\ ~Alive(x, d, u)
      BY <3>1, <3>2, <3>3, <1>1, OneOutcome DEF MayCall
    <3>5. Heard(x, h, t)
      BY <3>1, <1>1 DEF MayCall, Duty, HandlersHeard, Listens
    <3>6. h \in x.added /\ x.called[h] = 0
      BY <3>3, <3>5, <1>1 DEF Heard, f
    <3>7. Expects(h, x.state[h.d])
      <4>1. Final[t] # "pending"
        BY <3>1, Outcomes
      <4> QED
        BY <3>1, <3>4, <4>1, <1>1 DEF Expects
    <3> QED
      BY <2>3, <2>7, <3>4, <3>6, <3>7, <1>1 DEF Heard
  <2> QED
    BY <2>5, <2>6, <2>7
<1>9. ASSUME Master \notin Subs PROVE Reports(y)
  <2>1. Reports(z)
    <3>1. f # Reporter(t)
      BY DistinctFunctions DEF f
    <3> QED
      BY <3>1, <1>9, ReportsWhenTaken DEF MayCall, Duty, f
  <2>2. Master \in Deferreds /\ Subs \subseteq Deferreds
    BY Numbers
  <2>3. SameReports(z, y)
    BY <2>2, <1>2, <1>5, <1>7 DEF SameReports, Kept
  <2> QED
    BY <2>1, <2>3, ReportsSame
<1>10. ASSUME "notify" \notin Chained PROVE Passes(y)
  <2>1. Passes(z)
    <3>1. f # Passer(t) /\ f # Asks(t)
      BY DistinctFunctions DEF f
    <3> QED
      BY <3>1, <1>10, PassesWhenTaken DEF MayCall, Duty, f
  <2>2. Master \in Deferreds /\ Inner \in Deferreds /\ Follower \in Deferreds
    BY Numbers
  <2>3. SamePasses(z, y)
    BY <2>2, <1>7 DEF SamePasses
  <2> QED
    BY <2>1, <2>3, PassesSame
<1>11. y.state = x.state
  BY <1>2, <1>5 DEF MayCall, TakenIn, Kept
<1> QED
  BY <1>4, <1>6, <1>8, <1>9, <1>10, <1>11 DEF Duty, f

\* Settle, as the duty sees it.
LEMMA FireView ==
  ASSUME NEW x, Shape(x), Calm(x), NEW d \in Deferreds, NEW t \in Tuples
  PROVE  Shape(Settle(x, d, t)) /\ SettledIn(x, Settle(x, d, t), d, t)
BY SettleShape DEF SettledIn

\* A subordinate is rejected: so is the deferred of when().
LEMMA RefuseReports ==
  ASSUME Subordinates \in Nat, NEW x, NEW z, NEW d \in Subs, Master \notin Subs,
         MayCall(x, z, d, "reject", Reporter("reject")),
         NEW y, SettledIn(z, y, Master, "reject")
  PROVE  Reports(y)
<1>1. /\ Master \in Deferreds /\ Subs \subseteq Deferreds /\ d \in Deferreds
      /\ "resolve" \in Finals /\ "reject" \in Finals
      /\ Opposite["resolve"] = "reject" /\ Opposite["reject"] = "resolve"
  BY Numbers, Outcomes DEF Finals
<1>2. Reports(x) /\ Shape(x) /\ TakenIn(x, z, d, "reject", Reporter("reject"))
  BY DEF MayCall, Duty
<1>3. ~MayComeAgain(Reporter("reject"))
  BY DistinctFunctions
<1>4. /\ Fired(x, d, "reject") /\ Fired(y, d, "reject")
            /\ Reporter("reject") \notin Wait(y, d, "reject")
  BY <1>1, <1>2, <1>3 DEF MayCall, TakenIn, SettledIn
<1>5. Refused(y)
  BY <1>4 DEF Refused
<1>6. Reported(y) = Reported(x)
  BY <1>1, <1>2 DEF Reported, TakenIn, SettledIn
<1>7. Alive(x, Master, "reject")
  <2>1. SUFFICES ASSUME ~Alive(x, Master, "reject") PROVE FALSE
    OBVIOUS
  <2>2. Fired(x, Master, "resolve")
    BY <2>1, <1>1, <1>2, OneOutcome
  <2>3. Cardinality(Reported(x)) = Subordinates
    <3>1. IsFiniteSet(Reported(x)) /\ Cardinality(Reported(x)) \in Nat
      <4>1. IsFiniteSet(Subs)
        BY FS_Interval DEF Subs
      <4>2. Reported(x) \subseteq Subs
        BY DEF Reported
      <4> QED
        BY <4>1, <4>2, FS_Subset, FS_CardinalityType
    <3>2. x.remaining = 0 /\ x.remaining = Subordinates - Cardinality(Reported(x))
      BY <2>2, <1>2 DEF Reports
    <3> QED
      BY <3>1, <3>2
  <2>4. Reported(x) = Subs
    <3>1. IsFiniteSet(Subs) /\ Cardinality(Subs) = Subordinates
      BY FS_Interval DEF Subs
    <3>2. Reported(x) \subseteq Subs
      BY DEF Reported
    <3> QED
      BY <2>3, <3>1, <3>2, FS_Subset
  <2>5. Fired(x, d, "resolve")
    BY <2>4 DEF Reported
  <2> QED
    BY <2>5, <1>1, <1>2, <1>4, OneOutcome
<1>8. Fired(y, Master, "reject")
  BY <1>1, <1>2, <1>7 DEF TakenIn, SettledIn
<1>9. Fired(y, Master, "resolve") = Fired(x, Master, "resolve") /\ y.remaining = x.remaining
  BY <1>1, <1>2 DEF TakenIn, SettledIn, Kept
<1>10. \A e \in Subs, u \in Finals :
         Alive(y, e, u) /\ ~Fired(y, e, u) => Reporter(u) \in Wait(y, e, u)
  <2>1. TAKE e \in Subs, u \in Finals
  <2>2. e \in Deferreds /\ e # Master
    BY <1>1
  <2>3. /\ Alive(y, e, u) = Alive(x, e, u) /\ Fired(y, e, u) = Fired(x, e, u)
        /\ Wait(y, e, u) = Wait(x, e, u) \/ (e = d /\ u = "reject")
    BY <2>2, <1>2 DEF TakenIn, SettledIn
  <2> QED
    BY <2>3, <1>2, <1>4 DEF Reports
<1> QED
  BY <1>2, <1>5, <1>6, <1>8, <1>9, <1>10 DEF Reports

\* How many subordinates have been counted.
LEMMA Counted ==
  ASSUME Subordinates \in Nat, NEW x
  PROVE  /\ IsFiniteSet(Reported(x)) /\ Cardinality(Reported(x)) \in Nat
         /\ Cardinality(Reported(x)) <= Subordinates
         /\ Cardinality(Reported(x)) = Subordinates => Reported(x) = Subs
<1>1. IsFiniteSet(Subs) /\ Cardinality(Subs) = Subordinates
  <2>1. IsFiniteSet(1 .. Subordinates) /\ Cardinality(1 .. Subordinates) = Subordinates
    BY FS_Interval
  <2> QED
    BY <2>1 DEF Subs
<1>2. Reported(x) \subseteq Subs
  BY DEF Reported
<1> QED
  BY <1>1, <1>2, FS_Subset, FS_CardinalityType

\* A subordinate is resolved: the last one resolves the deferred of when().
LEMMA CountReports ==
  ASSUME Subordinates \in Nat, NEW x, NEW z, NEW d \in Subs, Master \notin Subs,
         MayCall(x, z, d, "resolve", Reporter("resolve")),
         NEW w, w.lists = z.lists, w.remaining = z.remaining - 1,
         NEW y, y.remaining = w.remaining,
         w.remaining = 0 => SettledIn(w, y, Master, "resolve"), w.remaining # 0 => y = w
  PROVE  Reports(y)
<1>1. /\ Master \in Deferreds /\ Subs \subseteq Deferreds /\ d \in Deferreds
      /\ "resolve" \in Finals /\ "reject" \in Finals
      /\ Opposite["resolve"] = "reject" /\ Opposite["reject"] = "resolve"
  BY Numbers, Outcomes DEF Finals
<1>2. Reports(x) /\ Shape(x) /\ TakenIn(x, z, d, "resolve", Reporter("resolve"))
  BY DEF MayCall, Duty
<1>3. ~MayComeAgain(Reporter("resolve"))
  BY DistinctFunctions
<1>4. ASSUME NEW e \in Deferreds, NEW u \in Finals
      PROVE  /\ Alive(y, e, u) = Alive(x, e, u)
             /\ ~(e = Master /\ u = "resolve") => Fired(y, e, u) = Fired(x, e, u)
             /\ e = Master /\ u = "resolve" =>
                  Fired(y, e, u) = IF w.remaining = 0 THEN Alive(x, e, u) ELSE Fired(x, e, u)
             /\ ~(e = d /\ u = "resolve") => Wait(y, e, u) = Wait(x, e, u)
             /\ e = d /\ u = "resolve" => Wait(y, e, u) = Wait(x, e, u) \ {Reporter("resolve")}
  <2>1. Alive(w, e, u) = Alive(z, e, u) /\ Fired(w, e, u) = Fired(z, e, u)
           /\ Wait(w, e, u) = Wait(z, e, u)
    BY DEF Alive, Fired, Wait
  <2>2. /\ Alive(z, e, u) = Alive(x, e, u) /\ Fired(z, e, u) = Fired(x, e, u)
        /\ ~(e = d /\ u = "resolve") => Wait(z, e, u) = Wait(x, e, u)
        /\ e = d /\ u = "resolve" => Wait(z, e, u) = Wait(x, e, u) \ {Reporter("resolve")}
    BY <1>2, <1>3 DEF TakenIn
  <2>3. CASE w.remaining = 0
    <3>1. /\ Alive(y, e, u) = Alive(w, e, u) /\ Wait(y, e, u) = Wait(w, e, u)
          /\ Fired(y, e, u)
                = IF e = Master /\ u = "resolve" THEN Alive(w, Master, "resolve") ELSE Fired(w, e, u)
      BY <2>3 DEF SettledIn
    <3> QED
      BY <2>1, <2>2, <2>3, <3>1
  <2>4. CASE w.remaining # 0
    BY <2>1, <2>2, <2>4
  <2> QED
    BY <2>3, <2>4
<1>5. Reporter("resolve") \in Wait(x, d, "resolve") /\ Fired(x, d, "resolve")
  BY <1>1 DEF MayCall
<1>6. d # Master
  OBVIOUS
<1>7. Reported(y) = Reported(x) \cup {d} /\ d \notin Reported(x)
  <2>1. \A e \in Subs : /\ Fired(y, e, "resolve") = Fired(x, e, "resolve")
                        /\ e # d => Wait(y, e, "resolve") = Wait(x, e, "resolve")
    BY <1>1, <1>4
  <2>2. Wait(y, d, "resolve") = Wait(x, d, "resolve") \ {Reporter("resolve")}
    BY <1>1, <1>4
  <2> QED
    BY <2>1, <2>2, <1>5 DEF Reported
<1>8. Cardinality(Reported(y)) = Cardinality(Reported(x)) + 1
  BY <1>7, Counted, FS_AddElement
<1>9. /\ Cardinality(Reported(x)) \in Nat /\ Cardinality(Reported(y)) <= Subordinates
      /\ x.remaining = Subordinates - Cardinality(Reported(x)) /\ z.remaining = x.remaining
  BY Counted, <1>2 DEF Reports, TakenIn, Kept
<1>10. /\ y.remaining = Subordinates - Cardinality(Reported(y)) /\ x.remaining # 0
       /\ y.remaining = 0 => Cardinality(Reported(y)) = Subordinates
  BY <1>8, <1>9
<1>11. Refused(y) <=> Refused(x)
  <2>1. \A e \in Subs : /\ Fired(y, e, "reject") = Fired(x, e, "reject")
                        /\ Wait(y, e, "reject") = Wait(x, e, "reject")
    BY <1>1, <1>4
  <2> QED
    BY <2>1 DEF Refused
<1>12. Fired(y, Master, "reject") = Fired(x, Master, "reject")
  BY <1>1, <1>4
<1>13. Fired(y, Master, "resolve") <=> y.remaining = 0
  <2>1. CASE y.remaining = 0
    <3>1. Reported(y) = Subs
      BY <2>1, <1>10, Counted
    <3>2. ~Refused(x)
      <4>1. SUFFICES ASSUME NEW e \in Subs, Fired(x, e, "reject") PROVE FALSE
        BY DEF Refused
      <4>2. Fired(y, e, "resolve")
        BY <3>1 DEF Reported
      <4>3. Fired(x, e, "resolve") /\ e \in Deferreds
        BY <4>2, <1>1, <1>4
      <4> QED
        BY <4>1, <4>3, <1>1, <1>2, OneOutcome
    <3>3. ~Fired(x, Master, "reject")
      BY <3>2, <1>2 DEF Reports
    <3>4. Alive(x, Master, "resolve")
      BY <3>3, <1>1, <1>2, OneOutcome
    <3> QED
      BY <2>1, <3>4, <1>1, <1>4
  <2>2. CASE y.remaining # 0
    <3>1. Fired(y, Master, "resolve") = Fired(x, Master, "resolve")
      BY <2>2, <1>1, <1>4
    <3> QED
      BY <2>2, <3>1, <1>2, <1>10 DEF Reports
  <2> QED
    BY <2>1, <2>2
<1>14. \A e \in Subs, u \in Finals :
         Alive(y, e, u) /\ ~Fired(y, e, u) => Reporter(u) \in Wait(y, e, u)
  <2>1. TAKE e \in Subs, u \in Finals
  <2>2. e \in Deferreds /\ e # Master
    BY <1>1
  <2>3. /\ Alive(y, e, u) = Alive(x, e, u) /\ Fired(y, e, u) = Fired(x, e, u)
        /\ Wait(y, e, u) = Wait(x, e, u) \/ (e = d /\ u = "resolve")
    BY <2>2, <1>4
  <2> QED
    BY <2>3, <1>2, <1>5 DEF Reports
<1> QED
  BY <1>2, <1>10, <1>11, <1>12, <1>13, <1>14 DEF Reports

\* A note changes nothing that is to be called.
LEMMA DutyWhenNotified ==
  ASSUME Subordinates \in Nat, HandlersFit, NEW x, NEW y, NEW d, SettledIn(x, y, d, "notify"), Duty(x)
  PROVE  Duty(y)
<1>1. \A u \in Finals : u # "notify"
  BY DEF Finals
<1>2. \A e \in Deferreds, u \in Finals :
        Alive(y, e, u) = Alive(x, e, u) /\ Wait(y, e, u) = Wait(x, e, u)
          /\ Fired(y, e, u) = Fired(x, e, u)
  BY <1>1 DEF SettledIn
<1>3. SameUsers(x, y)
  BY <1>2 DEF SameUsers, SettledIn, Kept
<1>4. SameReports(x, y)
  BY <1>2, Numbers DEF SameReports, SettledIn, Kept
<1>5. SamePasses(x, y)
  BY <1>2, Numbers DEF SamePasses
<1> QED
  BY <1>3, <1>4, <1>5, UsersSame, ReportsSame, PassesSame DEF Duty

\* A function of when().
LEMMA ReporterDuty ==
  ASSUME Subordinates \in Nat, HandlersFit, NEW x, NEW z, NEW d \in Subs, NEW t, Master \notin Subs,
         MayCall(x, z, d, t, Reporter(t))
  PROVE  LET y == Effect(z, Reporter(t)) IN Shape(y) /\ Duty(y) /\ y.state = x.state
<1> DEFINE y == Effect(z, Reporter(t))
<1>1. /\ Shape(x) /\ Shape(z) /\ Calm(z) /\ TakenIn(x, z, d, t, Reporter(t)) /\ Duty(x)
      /\ d \in Deferreds /\ t \in Tuples /\ z.state = x.state
  BY DEF MayCall, TakenIn, Kept
<1>2. /\ Master \in Deferreds /\ d # Master /\ d # Inner /\ Master # Follower
  BY Numbers
<1>3. HandlersHeard(z)
  <2>1. \A h : Reporter(t) # User(h)
    BY DistinctFunctions
  <2> QED
    BY <1>1, <2>1, UsersWhenTaken DEF Duty
<1>4. "notify" \notin Chained => Passes(z)
  BY <1>1, <1>2, PassesWhenTaken DEF Duty
<1>5. CASE t = "reject"
  <2>1. y = Settle(z, Master, "reject")
    BY <1>5 DEF Effect, Reporter, SettleFunction
  <2> HIDE DEF y
  <2>2. Shape(y) /\ SettledIn(z, y, Master, "reject")
    BY <2>1, <1>1, <1>2, FireView DEF Tuples
  <2>3. HandlersHeard(y)
    BY <1>3, <2>2, UsersWhenSettled
  <2>4. Reports(y)
    BY <1>5, <2>2, RefuseReports
  <2>5. "notify" \notin Chained => Passes(y)
    BY <1>1, <1>2, <1>4, <2>2, PassesWhenSettled
  <2> QED
    BY <2>2, <2>3, <2>4, <2>5, <1>1 DEF y, Duty, SettledIn, Kept
<1>6. CASE t = "resolve"
  <2> DEFINE w == [z EXCEPT !.remaining = @ - 1]
  <2>1. y = IF w.remaining = 0 THEN Settle(w, Master, "resolve") ELSE w
    BY <1>6 DEF Effect, Reporter, Update
  <2>2. /\ w \in States /\ w.lists = z.lists /\ w.state = z.state /\ w.frames = z.frames
        /\ w.remaining = z.remaining - 1 /\ w.added = z.added /\ w.called = z.called
    <3>1. z \in States
      BY <1>1 DEF Shape
    <3>2. z.remaining - 1 \in Int
      BY <3>1 DEF States
    <3> QED
      BY <3>1, <3>2 DEF States
  <2> HIDE DEF y, w
  <2>3. Shape(w) /\ Calm(w)
    BY <1>1, <2>2, CountsShape
  <2>4. SameUsers(z, w) /\ SamePasses(z, w)
    BY <2>2 DEF SameUsers, SamePasses, Alive, Fired, Wait
  <2>5. HandlersHeard(w) /\ ("notify" \notin Chained => Passes(w))
    BY <1>3, <1>4, <2>4, UsersSame, PassesSame
  <2>6. CASE w.remaining = 0
    <3>1. Shape(y) /\ SettledIn(w, y, Master, "resolve")
      BY <2>1, <2>3, <2>6, <1>2, FireView DEF Tuples
    <3>2. y.remaining = w.remaining
      BY <3>1 DEF SettledIn, Kept
    <3>3. Reports(y)
      BY <1>6, <2>2, <2>6, <3>1, <3>2, CountReports
    <3>4. HandlersHeard(y) /\ ("notify" \notin Chained => Passes(y))
      BY <1>2, <2>3, <2>5, <3>1, UsersWhenSettled, PassesWhenSettled
    <3> QED
      BY <3>1, <3>3, <3>4, <2>2, <1>1 DEF y, Duty, SettledIn, Kept
  <2>7. CASE w.remaining # 0
    <3>1. y = w
      BY <2>1, <2>7
    <3>2. Reports(y)
      BY <1>6, <2>2, <2>7, <3>1, CountReports
    <3> QED
      BY <2>2, <2>3, <2>5, <3>1, <3>2, <1>1 DEF y, Duty
  <2> QED
    BY <2>6, <2>7
<1>7. CASE t = "notify"
  <2>1. y = Settle(z, Master, "notify")
    BY <1>7 DEF Effect, Reporter, Update
  <2> HIDE DEF y
  <2>2. Shape(y) /\ SettledIn(z, y, Master, "notify")
    BY <2>1, <1>1, <1>2, FireView DEF Tuples
  <2>3. Reports(z)
    BY <1>1, <1>7, ReportsWhenTaken DEF Duty, Finals
  <2>4. Duty(z)
    BY <1>3, <1>4, <2>3 DEF Duty
  <2> QED
    BY <2>2, <2>4, <1>1, DutyWhenNotified DEF y, SettledIn, Kept
<1> QED
  BY <1>1, <1>5, <1>6, <1>7 DEF Tuples

\* Until the function of then() is called, nothing has been passed on.
LEMMA NothingPassed ==
  ASSUME Subordinates \in Nat, NEW x, Shape(x), NEW t \in Finals,
         Fired(x, Master, t), Passer(t) \in Wait(x, Master, t)
  PROVE  (\A u \in Finals : ~Passed(x, u)) /\ ~PassedOn(x) /\ ~Fired(x, Master, Opposite[t])
<1>1. ~Fired(x, Master, Opposite[t])
  BY OneOutcome, Numbers
<1>2. ASSUME NEW u \in Finals PROVE ~Passed(x, u)
  <2>1. u = t \/ u = Opposite[t]
    BY Outcomes DEF Finals
  <2> QED
    BY <1>1, <2>1 DEF Passed
<1> QED
  BY <1>1, <1>2 DEF PassedOn

\* The function then() gives to a master whose outcome Inner decides.
LEMMA ChainedShape ==
  ASSUME Subordinates \in Nat, NEW x, NEW z, NEW t \in Chained, Duty(x),
         MayCall(x, z, Master, t, Passer(t))
  PROVE  LET y == Effect(z, Passer(t)) IN
         /\ Shape(y) /\ Kept(z, y)
         /\ \A e \in Deferreds, u \in Finals :
              /\ Alive(y, e, u) = Alive(x, e, u) /\ Fired(y, e, u) = Fired(x, e, u)
              /\ Wait(y, e, u) = IF e = Inner /\ Alive(x, e, u) THEN Wait(z, e, u) \cup {Asks(u)}
                                 ELSE Wait(z, e, u)
<1> DEFINE w == [z EXCEPT !.frames[Len(z.frames)].at = "pass"]
           v == Listen(w, Inner, "resolve", Asks("resolve"))
           y == Listen(v, Inner, "reject", Asks("reject"))
<1>1. Effect(z, Passer(t)) = y
  BY DEF Effect, Passer, Pass, Asks
<1>2. Shape(w) /\ Calm(w) /\ Kept(z, w) /\ w.lists = z.lists
  BY AtShape DEF MayCall
<1>3. Inner \in Deferreds /\ Master \in Deferreds /\ Inner # Master
  BY Numbers
<1>4. /\ "resolve" \in Finals /\ "reject" \in Finals /\ "resolve" \in Tuples /\ "reject" \in Tuples
      /\ \A u \in Finals : u = "resolve" \/ u = "reject"
  BY DEF Finals, Tuples
<1>5. \A e \in Deferreds, u \in Finals :
        /\ Alive(w, e, u) = Alive(x, e, u) /\ Fired(w, e, u) = Fired(x, e, u)
        /\ Wait(w, e, u) = Wait(z, e, u)
        /\ e # Master => Wait(z, e, u) = Wait(x, e, u)
  BY <1>2 DEF MayCall, TakenIn, Alive, Fired, Wait
<1>6. ASSUME NEW u \in Finals
      PROVE  /\ Asks(u) \notin Wait(w, Inner, u) \/ MayComeAgain(Asks(u))
             /\ InBody(Asks(u), Inner, u)
  <2>1. u \in Tuples
    BY Outcomes
  <2>2. CASE "notify" \in Chained
    BY <2>1, <2>2 DEF MayComeAgain, Asks, InBody
  <2>3. CASE "notify" \notin Chained
    <3>1. t \in Finals
      BY <2>3, Outcomes DEF MayCall
    <3>2. Fired(x, Master, t) /\ Passer(t) \in Wait(x, Master, t) /\ Shape(x)
      BY <3>1 DEF MayCall
    <3>3. ~PassedOn(x)
      BY <3>1, <3>2, NothingPassed
    <3>4. Asks(u) \notin Wait(x, Inner, u)
      BY <2>3, <3>3 DEF Duty, Passes
    <3> QED
      BY <3>4, <1>3, <1>5 DEF InBody, Asks
  <2> QED
    BY <2>2, <2>3
<1> HIDE DEF w, v, y
<1>7. /\ Shape(v) /\ Calm(v) /\ Kept(w, v)
      /\ \A e \in Deferreds, u \in Finals :
           /\ Alive(v, e, u) = Alive(w, e, u) /\ Fired(v, e, u) = Fired(w, e, u)
           /\ Wait(v, e, u) = IF e = Inner /\ u = "resolve" /\ Alive(w, Inner, "resolve")
                              THEN Wait(w, e, u) \cup {Asks("resolve")} ELSE Wait(w, e, u)
  BY <1>2, <1>3, <1>4, <1>6, ListenShape DEF v
<1>8. Asks("reject") \notin Wait(v, Inner, "reject") \/ MayComeAgain(Asks("reject"))
  BY <1>3, <1>4, <1>6, <1>7
<1>9. /\ Shape(y) /\ Calm(y) /\ Kept(v, y)
      /\ \A e \in Deferreds, u \in Finals :
           /\ Alive(y, e, u) = Alive(v, e, u) /\ Fired(y, e, u) = Fired(v, e, u)
           /\ Wait(y, e, u) = IF e = Inner /\ u = "reject" /\ Alive(v, Inner, "reject")
                              THEN Wait(v, e, u) \cup {Asks("reject")} ELSE Wait(v, e, u)
  BY <1>3, <1>4, <1>6, <1>7, <1>8, ListenShape DEF y
<1>10. Kept(z, y)
  BY <1>2, <1>7, <1>9 DEF Kept
<1>11. ASSUME NEW e \in Deferreds, NEW u \in Finals
       PROVE  /\ Alive(y, e, u) = Alive(x, e, u) /\ Fired(y, e, u) = Fired(x, e, u)
              /\ Wait(y, e, u) = IF e = Inner /\ Alive(x, e, u) THEN Wait(z, e, u) \cup {Asks(u)}
                                 ELSE Wait(z, e, u)
  <2>1. Alive(y, e, u) = Alive(x, e, u) /\ Fired(y, e, u) = Fired(x, e, u)
    BY <1>5, <1>7, <1>9
  <2>2. CASE u = "resolve"
    BY <2>2, <1>4, <1>5, <1>7, <1>9
  <2>3. CASE u = "reject"
    BY <2>3, <1>4, <1>5, <1>7, <1>9
  <2> QED
    BY <1>4, <2>1, <2>2, <2>3
<1> QED
  BY <1>1, <1>9, <1>10, <1>11

\* A function of then().
LEMMA PasserDuty ==
  ASSUME Subordinates \in Nat, HandlersFit, NEW x, NEW z, NEW t,
         MayCall(x, z, Master, t, Passer(t))
  PROVE  LET y == Effect(z, Passer(t)) IN Shape(y) /\ Duty(y) /\ y.state = x.state
<1> DEFINE y == Effect(z, Passer(t))
<1>1. /\ Shape(x) /\ Shape(z) /\ Calm(z) /\ TakenIn(x, z, Master, t, Passer(t)) /\ Duty(x)
      /\ t \in Tuples /\ z.state = x.state
      /\ t \in Finals
            => Fired(x, Master, t) /\ Alive(x, Master, t) /\ Passer(t) \in Wait(x, Master, t)
  BY DEF MayCall, TakenIn, Kept
<1>2. /\ Master \in Deferreds /\ Inner \in Deferreds /\ Follower \in Deferreds /\ Master # Inner
      /\ Master # Follower /\ Inner # Follower /\ Inner \notin Subs /\ Subs \subseteq Deferreds
  BY Numbers
<1>3. HandlersHeard(z)
  <2>1. \A h : Passer(t) # User(h)
    BY DistinctFunctions
  <2> QED
    BY <1>1, <2>1, UsersWhenTaken DEF Duty
<1>4. Master \notin Subs => Reports(z)
  BY <1>1, ReportsWhenTaken DEF Duty
<1>5. \A e \in Deferreds, u \in Finals :
        /\ Alive(z, e, u) = Alive(x, e, u) /\ Fired(z, e, u) = Fired(x, e, u)
        /\ Wait(z, e, u)
              = IF e = Master /\ u = t THEN Wait(x, e, u) \ {Passer(t)} ELSE Wait(x, e, u)
  BY <1>1, DistinctFunctions DEF TakenIn
<1>6. CASE t \in Chained
  <2>1. /\ Shape(y) /\ Kept(z, y)
        /\ \A e \in Deferreds, u \in Finals :
             /\ Alive(y, e, u) = Alive(x, e, u) /\ Fired(y, e, u) = Fired(x, e, u)
             /\ Wait(y, e, u) = IF e = Inner /\ Alive(x, e, u) THEN Wait(z, e, u) \cup {Asks(u)}
                                ELSE Wait(z, e, u)
    BY <1>1, <1>6, ChainedShape
  <2> HIDE DEF y
  <2>2. HandlersHeard(y)
    <3>1. SameUsers(z, y)
      BY <2>1, <1>5, DistinctFunctions DEF SameUsers, Kept
    <3> QED
      BY <3>1, <1>3, UsersSame
  <2>3. Master \notin Subs => Reports(y)
    <3>1. SameReports(z, y)
      BY <2>1, <1>2, <1>5 DEF SameReports, Kept
    <3> QED
      BY <3>1, <1>4, ReportsSame
  <2>4. ASSUME "notify" \notin Chained PROVE Passes(y)
    <3>1. t \in Finals
      BY <2>4, <1>1, <1>6, Outcomes
    <3>2. (\A u \in Finals : ~Passed(x, u)) /\ ~PassedOn(x) /\ ~Fired(x, Master, Opposite[t])
      BY <3>1, <1>1, NothingPassed
    <3>3. Passes(x)
      BY <2>4, <1>1 DEF Duty
    <3>4. Passed(y, t) /\ PassedOn(y)
      BY <3>1, <2>1, <1>1, <1>2, <1>5, <1>6 DEF Passed, PassedOn
    <3>5. SUFFICES ASSUME NEW u \in Finals
                   PROVE  /\ Alive(y, Master, u) /\ ~Fired(y, Master, u)
                                => Passer(u) \in Wait(y, Master, u)
                          /\ Asks(u) \in Wait(y, Inner, u) => PassedOn(y)
                          /\ PassedOn(y) /\ Alive(y, Inner, u) /\ ~Fired(y, Inner, u)
                               => Asks(u) \in Wait(y, Inner, u)
                          /\ Fired(y, Follower, u) <=> Follows(y, u)
      BY DEF Passes
    <3>6. u = t \/ u = Opposite[t]
      BY <3>1, Outcomes DEF Finals
    <3>7. Alive(y, Master, u) /\ ~Fired(y, Master, u) => Passer(u) \in Wait(y, Master, u)
      BY <3>1, <3>3, <3>6, <2>1, <1>1, <1>2, <1>5 DEF Passes
    <3>8. Alive(y, Inner, u) => Asks(u) \in Wait(y, Inner, u)
      BY <2>1, <1>2
    <3>9. Fired(y, Inner, u) => Alive(y, Inner, u)
      BY <2>1, <1>2, OneOutcome
    <3>10. ~Fired(y, Follower, u)
      <4>1. ~Follows(x, u)
        BY <3>2 DEF Follows
      <4> QED
        BY <4>1, <3>3, <2>1, <1>2 DEF Passes
    <3>11. ~Follows(y, u)
      <4>1. ~(Passed(y, u) /\ u \notin Chained)
        BY <3>1, <3>2, <3>6, <2>1, <1>2, <1>6 DEF Passed
      <4> QED
        BY <4>1, <3>8, <3>9 DEF Follows
    <3> QED
      BY <3>4, <3>7, <3>8, <3>10, <3>11
  <2> QED
    BY <2>1, <2>2, <2>3, <2>4, <1>1 DEF y, Duty, Kept
<1>7. CASE t \notin Chained
  <2>1. y = Settle(z, Follower, t)
    BY <1>7 DEF Effect, Passer, Pass
  <2> HIDE DEF y
  <2>2. Shape(y) /\ SettledIn(z, y, Follower, t)
    BY <2>1, <1>1, <1>2, FireView
  <2>3. HandlersHeard(y)
    BY <1>3, <2>2, UsersWhenSettled
  <2>4. Master \notin Subs => Reports(y)
    BY <1>1, <1>2, <1>4, <2>2, ReportsWhenSettled
  <2>5. ASSUME "notify" \notin Chained, t = "notify" PROVE Passes(y)
    <3>1. Passes(z)
      BY <2>5, <1>1, PassesWhenTaken DEF Duty, Finals
    <3> QED
      BY <2>2, <2>5, <3>1, <1>1, <1>2, PassesWhenSettled
  <2>6. ASSUME "notify" \notin Chained, t \in Finals PROVE Passes(y)
    <3>2. (\A u \in Finals : ~Passed(x, u)) /\ ~PassedOn(x) /\ ~Fired(x, Master, Opposite[t])
      BY <2>6, <1>1, NothingPassed
    <3>3. Passes(x)
      BY <2>6, <1>1 DEF Duty
    <3>4. \A u \in Finals : ~Fired(x, Follower, u)
      BY <3>2, <3>3 DEF Passes, Follows
    <3>5. Alive(x, Follower, t)
      BY <2>6, <3>4, <1>1, <1>2, OneOutcome, Outcomes
    <3>6. \A e \in Deferreds, u \in Finals :
            /\ Alive(y, e, u) = Alive(x, e, u)
            /\ Fired(y, e, u) = IF e = Follower /\ u = t THEN TRUE ELSE Fired(x, e, u)
            /\ Wait(y, e, u) = Wait(z, e, u)
      BY <2>2, <2>6, <3>5, <1>2, <1>5 DEF SettledIn
    <3>7. Passed(y, t)
      BY <2>6, <3>6, <1>1, <1>2, <1>5 DEF Passed
    <3>8. ASSUME NEW u \in Finals, u # t PROVE ~Passed(y, u)
      <4>1. u = Opposite[t]
        BY <3>8, <2>6, Outcomes DEF Finals
      <4> QED
        BY <4>1, <3>2, <3>6, <3>8, <1>2 DEF Passed
    <3>9. ~PassedOn(y)
      BY <3>8, <1>7 DEF PassedOn
    <3>10. SUFFICES ASSUME NEW u \in Finals
                    PROVE  /\ Alive(y, Master, u) /\ ~Fired(y, Master, u)
                                 => Passer(u) \in Wait(y, Master, u)
                           /\ Asks(u) \in Wait(y, Inner, u) => PassedOn(y)
                           /\ Fired(y, Follower, u) <=> Follows(y, u)
      BY <3>9 DEF Passes
    <3>11. Alive(y, Master, u) /\ ~Fired(y, Master, u) => Passer(u) \in Wait(y, Master, u)
      BY <3>3, <3>6, <1>1, <1>2, <1>5 DEF Passes
    <3>12. Asks(u) \notin Wait(y, Inner, u)
      BY <3>2, <3>3, <3>6, <1>2, <1>5 DEF Passes
    <3>13. Fired(y, Follower, u) <=> u = t
      BY <3>4, <3>6, <1>2
    <3>14. Follows(y, u) <=> u = t
      BY <3>7, <3>8, <3>9, <1>7 DEF Follows
    <3> QED
      BY <3>11, <3>12, <3>13, <3>14
  <2> QED
    BY <2>2, <2>3, <2>4, <2>5, <2>6, <1>1, Outcomes DEF y, Duty, SettledIn, Kept
<1> QED
  BY <1>6, <1>7

\* A function that then() has given to Inner.
LEMMA AskedDuty ==
  ASSUME Subordinates \in Nat, HandlersFit, NEW x, NEW z, NEW t,
         MayCall(x, z, Inner, t, Asks(t))
  PROVE  LET y == Effect(z, Asks(t)) IN Shape(y) /\ Duty(y) /\ y.state = x.state
<1> DEFINE y == Effect(z, Asks(t))
<1>1. /\ Shape(x) /\ Shape(z) /\ Calm(z) /\ TakenIn(x, z, Inner, t, Asks(t)) /\ Duty(x)
      /\ t \in Tuples /\ z.state = x.state
      /\ t \in Finals => Fired(x, Inner, t) /\ Alive(x, Inner, t) /\ Asks(t) \in Wait(x, Inner, t)
  BY DEF MayCall, TakenIn, Kept
<1>2. /\ Master \in Deferreds /\ Inner \in Deferreds /\ Follower \in Deferreds /\ Master # Inner
      /\ Master # Follower /\ Inner # Follower /\ Inner \notin Subs /\ Subs \subseteq Deferreds
  BY Numbers
<1>3. HandlersHeard(z)
  <2>1. \A h : Asks(t) # User(h)
    BY DistinctFunctions
  <2> QED
    BY <1>1, <2>1, UsersWhenTaken DEF Duty
<1>4. Master \notin Subs => Reports(z)
  BY <1>1, <1>2, ReportsWhenTaken DEF Duty
<1>5. y = Settle(z, Follower, t)
  BY DEF Effect, Asks, SettleFunction
<1> HIDE DEF y
<1>6. Shape(y) /\ SettledIn(z, y, Follower, t)
  BY <1>1, <1>2, <1>5, FireView
<1>7. HandlersHeard(y)
  BY <1>3, <1>6, UsersWhenSettled
<1>8. Master \notin Subs => Reports(y)
  BY <1>1, <1>2, <1>4, <1>6, ReportsWhenSettled
<1>9. ASSUME "notify" \notin Chained, t = "notify" PROVE Passes(y)
  <2>1. Passes(z)
    BY <1>9, <1>1, PassesWhenTaken DEF Duty, Finals
  <2> QED
    BY <1>9, <2>1, <1>1, <1>2, <1>6, PassesWhenSettled
<1>10. ASSUME "notify" \notin Chained, t \in Finals PROVE Passes(y)
  <2>1. Passes(x)
    BY <1>1, <1>10 DEF Duty
  <2>2. PassedOn(x)
    BY <2>1, <1>1, <1>10 DEF Passes
  <2>3. PICK p \in Chained \cap Finals : Passed(x, p)
    BY <2>2 DEF PassedOn
  <2>4. ASSUME NEW u \in Finals, Passed(x, u) PROVE u = p
    <3>1. ~Fired(x, Master, Opposite[p]) /\ (u = p \/ u = Opposite[p])
      BY <2>3, <1>1, <1>2, OneOutcome, Outcomes DEF Passed, Finals
    <3> QED
      BY <2>4, <3>1 DEF Passed
  <2>5. \A e \in Deferreds, u \in Finals :
          /\ Alive(z, e, u) = Alive(x, e, u) /\ Fired(z, e, u) = Fired(x, e, u)
          /\ Wait(z, e, u) = IF e = Inner /\ u = t THEN Wait(x, e, u) \ {Asks(t)} ELSE Wait(x, e, u)
    <3>1. ~MayComeAgain(Asks(t))
      BY <1>10 DEF MayComeAgain
    <3> QED
      BY <3>1, <1>1 DEF TakenIn
  <2>6. \A u \in Finals : ~Fired(x, Follower, u)
    <3>1. SUFFICES ASSUME NEW u \in Finals PROVE ~Follows(x, u)
      BY <2>1 DEF Passes
    <3>2. ~(Passed(x, u) /\ u \notin Chained)
      BY <2>3, <2>4
    <3>3. u = t \/ u = Opposite[t]
      BY <1>10, Outcomes DEF Finals
    <3>4. ~Fired(x, Inner, Opposite[t])
      BY <1>1, <1>2, <1>10, OneOutcome
    <3> QED
      BY <3>2, <3>3, <3>4, <1>1, <1>10 DEF Follows
  <2>7. Alive(x, Follower, t)
    BY <2>6, <1>1, <1>2, <1>10, OneOutcome, Outcomes
  <2>8. \A e \in Deferreds, u \in Finals :
          /\ Alive(y, e, u) = Alive(x, e, u)
          /\ Fired(y, e, u) = IF e = Follower /\ u = t THEN TRUE ELSE Fired(x, e, u)
          /\ Wait(y, e, u) = Wait(z, e, u)
    <3>1. Alive(z, Follower, t) /\ \A e \in Deferreds, u \in Finals :
            Alive(z, e, u) = Alive(x, e, u) /\ Fired(z, e, u) = Fired(x, e, u)
      BY <2>5, <2>7, <1>2, <1>10
    <3>2. \A e \in Deferreds, u \in Finals :
            /\ Alive(y, e, u) = Alive(z, e, u) /\ Wait(y, e, u) = Wait(z, e, u)
            /\ Fired(y, e, u)
                  = IF e = Follower /\ u = t THEN Alive(z, Follower, t) ELSE Fired(z, e, u)
      BY <1>6 DEF SettledIn
    <3> QED
      BY <3>1, <3>2
  <2>9. \A u \in Finals : Passed(y, u) <=> Passed(x, u)
    BY <2>5, <2>8, <1>2 DEF Passed
  <2>10. PassedOn(y)
    BY <2>3, <2>9 DEF PassedOn
  <2>11. SUFFICES ASSUME NEW u \in Finals
                  PROVE  /\ Alive(y, Master, u) /\ ~Fired(y, Master, u)
                               => Passer(u) \in Wait(y, Master, u)
                         /\ Alive(y, Inner, u) /\ ~Fired(y, Inner, u)
                               => Asks(u) \in Wait(y, Inner, u)
                         /\ Fired(y, Follower, u) <=> Follows(y, u)
    BY <2>10 DEF Passes
  <2>12. Alive(y, Master, u) /\ ~Fired(y, Master, u) => Passer(u) \in Wait(y, Master, u)
    <3>1. Alive(x, Master, u) /\ ~Fired(x, Master, u) => Passer(u) \in Wait(x, Master, u)
      BY <2>1 DEF Passes
    <3>2. Wait(y, Master, u) = Wait(x, Master, u)
      BY <2>5, <2>8, <1>2
    <3> QED
      BY <3>1, <3>2, <2>8, <1>2
  <2>13. Alive(y, Inner, u) /\ ~Fired(y, Inner, u) => Asks(u) \in Wait(y, Inner, u)
    <3>1. Alive(x, Inner, u) /\ ~Fired(x, Inner, u) => Asks(u) \in Wait(x, Inner, u)
      BY <2>1, <2>2 DEF Passes
    <3>2. ~Fired(x, Inner, u) => u # t
      BY <1>1
    <3>3. u # t => Wait(y, Inner, u) = Wait(x, Inner, u)
      BY <2>5, <2>8, <1>2
    <3>4. Alive(y, Inner, u) = Alive(x, Inner, u) /\ Fired(y, Inner, u) = Fired(x, Inner, u)
      BY <2>8, <1>2
    <3> QED
      BY <3>1, <3>2, <3>3, <3>4
  <2>14. Fired(y, Follower, u) <=> u = t
    BY <2>6, <2>8, <1>2
  <2>15. Follows(y, u) <=> u = t
    <3>1. ~(Passed(y, u) /\ u \notin Chained)
      BY <2>3, <2>4, <2>9
    <3>2. CASE u = t
      BY <3>2, <2>5, <2>8, <2>10, <1>1, <1>2, <1>10 DEF Follows
    <3>3. CASE u # t
      <4>1. u = Opposite[t]
        BY <3>3, <1>10, Outcomes DEF Finals
      <4>2. ~Fired(x, Inner, Opposite[t])
        BY <1>1, <1>2, <1>10, OneOutcome
      <4>3. ~Fired(y, Inner, u)
        BY <4>1, <4>2, <2>8, <1>2
      <4> QED
        BY <3>1, <3>3, <4>3 DEF Follows
    <3> QED
      BY <3>2, <3>3
  <2> QED
    BY <2>12, <2>13, <2>14, <2>15
<1> QED
  BY <1>1, <1>6, <1>7, <1>8, <1>9, <1>10, Outcomes DEF y, Duty, SettledIn, Kept

-----------------------------------------------------------------------------
(* Every step keeps both halves.                                             *)

\* A function of the loop is called.
LEMMA CallKeeps ==
  ASSUME Subordinates \in Nat, HandlersFit, NEW x, Shape(x), Duty(x),
         NEW d \in Deferreds, NEW t \in Tuples, OnTop(x, d, t), Calls(x.lists[d][t])
  PROVE  LET y == Effect(Back(x, d, t), Called(x.lists[d][t])) IN
         /\ Shape(y) /\ Duty(y)
         /\ \A e \in Deferreds : y.state[e] = x.state[e] \/ x.state[e] = "pending"
<1> DEFINE z == Back(x, d, t)
           l == x.lists[d][t]
           f == Called(l)
           y == Effect(z, f)
<1>1. CASE t \in Finals /\ Setting(l, d, t)
  <2>1. IsAtHead(x, d, t)
    BY <1>1, AtTheHead
  <2>2. /\ l.index = 1 \/ l.index = 2 \/ l.index = 3
        /\ f = CASE l.index = 1 -> Setter(d, t)
                 [] l.index = 2 -> Disabler(d, t)
                 [] l.index = 3 -> Locker(d)
    BY <2>1 DEF IsAtHead
  <2>3. SUFFICES Shape(y) /\ HeadViews(x, y)
    BY HeadDuty DEF HeadViews
  <2>4. CASE l.index = 1
    <3>1. f = Setter(d, t)
      BY <2>2, <2>4
    <3>2. y = [z EXCEPT !.state[d] = Final[t]]
      BY <3>1 DEF Effect, Setter
    <3> QED
      BY <3>2, <2>4, <1>1, SetterShape
  <2>5. CASE l.index = 2
    <3>1. f = Disabler(d, t)
      BY <2>2, <2>5
    <3>2. y = [z EXCEPT !.lists[d][Opposite[t]] = Disable(@)]
      BY <3>1 DEF Effect, Disabler
    <3> QED
      BY <3>2, <2>5, <1>1, DisablerShape
  <2>6. CASE l.index = 3
    <3>1. f = Locker(d)
      BY <2>2, <2>6
    <3>2. y = [z EXCEPT !.lists[d]["notify"] = Lock(@)]
      BY <3>1 DEF Effect, Locker
    <3> QED
      BY <3>2, <2>6, <1>1, LockerShape
  <2> QED
    BY <2>2, <2>4, <2>5, <2>6
<1>2. CASE ~(t \in Finals /\ Setting(l, d, t))
  <2>1. /\ Calm(x) /\ Shape(z) /\ Calm(z) /\ Kept(x, z) /\ z.frames = x.frames
        /\ InBody(f, d, t)
        /\ t \in Finals => Fired(x, d, t) /\ Alive(x, d, t) /\ f \in Wait(x, d, t)
        /\ \A e \in Deferreds, u \in Finals :
             /\ Alive(z, e, u) = Alive(x, e, u) /\ Fired(z, e, u) = Fired(x, e, u)
             /\ \/ Wait(z, e, u) = Wait(x, e, u) /\ (e = d /\ u = t => MayComeAgain(f))
                \/ e = d /\ u = t /\ Wait(z, e, u) = Wait(x, e, u) \ {f}
    BY <1>2, CalledShape
  <2> HIDE DEF z, f, l
  <2>2. TakenIn(x, z, d, t, f)
    BY <2>1 DEF TakenIn
  <2>3. MayCall(x, z, d, t, f)
    BY <2>1, <2>2 DEF MayCall, OnTop
  <2>4. SUFFICES Shape(y) /\ Duty(y) /\ y.state = x.state
    BY DEF y, z, f, l
  <2>5. CASE \E h \in Handlers : Listens(h, d, t) /\ f = User(h)
    BY <2>3, <2>5, UserDuty
  <2>6. CASE d \in Subs /\ Master \notin Subs /\ f = Reporter(t)
    BY <2>3, <2>6, ReporterDuty
  <2>7. CASE d = Master /\ f = Passer(t)
    BY <2>3, <2>7, PasserDuty
  <2>8. CASE d = Inner /\ f = SettleFunction(Follower, t)
    BY <2>3, <2>8, AskedDuty DEF Asks
  <2> QED
    BY <2>1, <2>5, <2>6, <2>7, <2>8 DEF InBody
<1> QED
  BY <1>1, <1>2

\* Nothing changes that is to be called.
LEMMA DutyWhenSame ==
  ASSUME Subordinates \in Nat, HandlersFit, NEW x, NEW y, Duty(x),
         y.state = x.state, y.remaining = x.remaining, y.added = x.added, y.called = x.called,
         \A e \in Deferreds, u \in Finals :
           Alive(y, e, u) = Alive(x, e, u) /\ Fired(y, e, u) = Fired(x, e, u)
             /\ Wait(y, e, u) = Wait(x, e, u)
  PROVE  Duty(y)
<1>1. SameUsers(x, y)
  BY DEF SameUsers
<1>2. SameReports(x, y)
  BY Numbers DEF SameReports
<1>3. SamePasses(x, y)
  BY Numbers DEF SamePasses
<1> QED
  BY <1>1, <1>2, <1>3, UsersSame, ReportsSame, PassesSame DEF Duty

\* A function is added by the library where notes are passed on.
LEMMA PassNotesKeeps ==
  ASSUME Subordinates \in Nat, HandlersFit, NEW x, Shape(x), Duty(x), x.frames # <<>>,
         x.frames[Len(x.frames)].at = "pass"
  PROVE  LET y == Listen([x EXCEPT !.frames[Len(x.frames)].at = "loop"],
                         Inner, "notify", SettleFunction(Follower, "notify"))
         IN  Shape(y) /\ Duty(y) /\ y.state = x.state
<1> DEFINE w == [x EXCEPT !.frames[Len(x.frames)].at = "loop"]
           y == Listen(w, Inner, "notify", SettleFunction(Follower, "notify"))
<1>1. Calm(x)
  BY CalmUnlessOnTop
<1>2. Shape(w) /\ Calm(w) /\ Kept(x, w) /\ w.lists = x.lists
  BY <1>1, AtShape
<1> HIDE DEF w
<1>3. /\ Inner \in Deferreds /\ "notify" \in Tuples /\ "notify" \notin Finals
      /\ InBody(SettleFunction(Follower, "notify"), Inner, "notify")
  BY Numbers, Outcomes DEF InBody
<1>4. /\ Shape(y) /\ Kept(w, y)
      /\ \A e \in Deferreds, u \in Finals :
           /\ Alive(y, e, u) = Alive(w, e, u) /\ Fired(y, e, u) = Fired(w, e, u)
           /\ Wait(y, e, u) = Wait(w, e, u)
  BY <1>2, <1>3, ListenShape
<1> HIDE DEF y
<1>5. \A e \in Deferreds, u \in Finals :
        Alive(y, e, u) = Alive(x, e, u) /\ Fired(y, e, u) = Fired(x, e, u)
          /\ Wait(y, e, u) = Wait(x, e, u)
  BY <1>2, <1>4 DEF Alive, Fired, Wait
<1>6. Kept(x, y)
  BY <1>2, <1>4 DEF Kept
<1>7. Duty(y)
  BY <1>5, <1>6, DutyWhenSame DEF Kept
<1> QED
  BY <1>4, <1>6, <1>7 DEF Kept, y, w

\* A function of the page returns.
LEMMA ReturnKeeps ==
  ASSUME Subordinates \in Nat, HandlersFit, NEW x, Shape(x), Duty(x), x.frames # <<>>,
         x.frames[Len(x.frames)].at = "user"
  PROVE  LET y == [x EXCEPT !.frames[Len(x.frames)].at = "loop"]
         IN  Shape(y) /\ Duty(y) /\ y.state = x.state
<1> DEFINE y == [x EXCEPT !.frames[Len(x.frames)].at = "loop"]
<1>1. Calm(x)
  BY CalmUnlessOnTop
<1>2. Shape(y) /\ Kept(x, y) /\ y.lists = x.lists
  BY <1>1, AtShape
<1> HIDE DEF y
<1>3. Duty(y)
  BY <1>2, DutyWhenSame DEF Alive, Fired, Wait, Kept
<1> QED
  BY <1>2, <1>3 DEF Kept, y

\* A loop ends, or a list of notes begins with the next.
LEMMA EndKeeps ==
  ASSUME Subordinates \in Nat, HandlersFit, NEW x, Shape(x), Duty(x),
         NEW d \in Deferreds, NEW t \in Tuples, OnTop(x, d, t), ~Calls(x.lists[d][t])
  PROVE  LET y == Ended(x, d, t) IN Shape(y) /\ Duty(y) /\ y.state = x.state
<1> DEFINE y == Ended(x, d, t)
<1>1. /\ Shape(y) /\ Kept(x, y)
      /\ \A e \in Deferreds, u \in Finals :
           Alive(y, e, u) = Alive(x, e, u) /\ Fired(y, e, u) = Fired(x, e, u)
             /\ Wait(y, e, u) = Wait(x, e, u)
  BY EndedShape
<1> HIDE DEF y
<1>2. Duty(y)
  BY <1>1, DutyWhenSame DEF Kept
<1> QED
  BY <1>1, <1>2 DEF Kept, y

\* The page settles a deferred.
LEMMA SettleOneKeeps ==
  ASSUME Subordinates \in Nat, HandlersFit, NEW x, Shape(x), Duty(x), Calm(x),
         NEW d \in Subs \cup {Inner}, NEW t \in Tuples
  PROVE  LET y == [Settle(x, d, t) EXCEPT !.notes = IF t = "notify" THEN @ + 1 ELSE @]
         IN  Shape(y) /\ Duty(y) /\ y.state = x.state
<1> DEFINE w == Settle(x, d, t)
           y == [w EXCEPT !.notes = IF t = "notify" THEN @ + 1 ELSE @]
<1>1. d \in Deferreds
  BY Numbers
<1>2. Shape(w) /\ SettledIn(x, w, d, t)
  BY <1>1, FireView
<1> HIDE DEF w
<1>3. Duty(w)
  BY <1>2, DutyWhenSettled
<1>4. /\ y \in States /\ y.lists = w.lists /\ y.state = w.state /\ y.frames = w.frames
      /\ y.remaining = w.remaining /\ y.added = w.added /\ y.called = w.called
  <2>1. w \in States
    BY <1>2 DEF Shape
  <2>2. (IF t = "notify" THEN w.notes + 1 ELSE w.notes) \in Nat
    BY <2>1 DEF States
  <2> QED
    BY <2>1, <2>2 DEF States
<1> HIDE DEF y
<1>5. Shape(y)
  BY <1>2, <1>4, CountsShape
<1>6. Duty(y)
  BY <1>3, <1>4, DutyWhenSame DEF Alive, Fired, Wait
<1> QED
  BY <1>2, <1>4, <1>5, <1>6 DEF SettledIn, Kept, y, w

\* A function of the page is added: what its lists are then to call.
Heeds(x, y, h) ==
  /\ y.remaining = x.remaining /\ y.state = x.state /\ y.called = x.called
  /\ y.added = x.added \cup {h}
  /\ \A e \in Deferreds, u \in Finals :
       /\ Alive(y, e, u) = Alive(x, e, u) /\ Fired(y, e, u) = Fired(x, e, u)
       /\ Wait(y, e, u) = IF Listens(h, e, u) /\ Alive(x, e, u) THEN Wait(x, e, u) \cup {User(h)}
                          ELSE Wait(x, e, u)

LEMMA HeedsDuty ==
  ASSUME Subordinates \in Nat, HandlersFit, NEW x, Shape(x), Duty(x), NEW h \in Handlers,
         h \notin x.added, NEW y, Heeds(x, y, h)
  PROVE  Duty(y)
<1>1. \A e \in Deferreds, u \in Finals :
        Alive(y, e, u) = Alive(x, e, u) /\ Fired(y, e, u) = Fired(x, e, u)
  BY DEF Heeds
<1>2. \A e \in Deferreds, u \in Finals : \A g :
        g # User(h) => (g \in Wait(y, e, u) <=> g \in Wait(x, e, u))
  BY DEF Heeds
<1>3. HandlersHeard(y)
  <2>1. SUFFICES ASSUME NEW k \in Handlers, NEW u \in Finals, Listens(k, k.d, u)
                 PROVE  Heard(y, k, u)
    BY DEF HandlersHeard
  <2>2. Heard(x, k, u) /\ k.d \in Deferreds
    BY <2>1 DEF Duty, HandlersHeard, HandlersFit
  <2>3. CASE k # h
    <3>1. User(k) # User(h)
      BY <2>3, DistinctFunctions
    <3>2. User(k) \in Wait(y, k.d, u) <=> User(k) \in Wait(x, k.d, u)
      BY <3>1, <1>2, <2>2
    <3> QED
      BY <3>2, <2>2, <2>3, <1>1 DEF Heard, Heeds
  <2>4. CASE k = h
    <3>1. x.called[h] = 0
      <4>1. x.called[h] \in Nat
        BY DEF Shape, States
      <4> QED
        BY <4>1, <2>2, <2>4 DEF Heard
    <3>2. Alive(y, h.d, u) => User(h) \in Wait(y, h.d, u)
      BY <2>1, <2>2, <2>4 DEF Heeds
    <3> QED
      BY <3>1, <3>2, <2>4 DEF Heard, Heeds
  <2> QED
    BY <2>3, <2>4
<1>4. SameReports(x, y)
  <2>1. \A u : Reporter(u) # User(h)
    BY DistinctFunctions
  <2> QED
    BY <2>1, <1>1, <1>2, Numbers DEF SameReports, Heeds
<1>5. SamePasses(x, y)
  <2>1. \A u : Passer(u) # User(h) /\ Asks(u) # User(h)
    BY DistinctFunctions
  <2> QED
    BY <2>1, <1>1, <1>2, Numbers DEF SamePasses
<1> QED
  BY <1>3, <1>4, <1>5, ReportsSame, PassesSame DEF Duty

\* Listen, as the duty sees it.
ListenedIn(x, y, d, t, f) ==
  /\ Shape(y) /\ Calm(y) /\ Kept(x, y)
  /\ \A e \in Deferreds, u \in Finals :
       /\ Alive(y, e, u) = Alive(x, e, u) /\ Fired(y, e, u) = Fired(x, e, u)
       /\ Wait(y, e, u) = IF e = d /\ u = t /\ Alive(x, d, t) THEN Wait(x, e, u) \cup {f}
                          ELSE Wait(x, e, u)

LEMMA ListenView ==
  ASSUME NEW x, Shape(x), Calm(x), NEW d \in Deferreds, NEW t \in Tuples, NEW f,
         InBody(f, d, t), t \in Finals => f \notin Wait(x, d, t)
  PROVE  ListenedIn(x, Listen(x, d, t, f), d, t, f)
BY ListenShape DEF ListenedIn

LEMMA AddHandlerKeeps ==
  ASSUME Subordinates \in Nat, HandlersFit, NEW x, Shape(x), Duty(x), Calm(x),
         NEW h \in Handlers, h \notin x.added, NEW d, d = h.d, NEW t, t = h.t
  PROVE  LET v == [x EXCEPT !.added = @ \cup {h}]
             y == IF t = "always" THEN Always(v, d, User(h)) ELSE Listen(v, d, t, User(h))
         IN  Shape(y) /\ Duty(y) /\ y.state = x.state
<1> DEFINE v == [x EXCEPT !.added = @ \cup {h}]
           f == User(h)
           w == Listen(v, d, "resolve", f)
           y == IF t = "always" THEN Always(v, d, f) ELSE Listen(v, d, t, f)
<1>1. d \in Deferreds /\ t \in Tuples \cup {"always"}
  BY DEF HandlersFit
<1>2. /\ v \in States /\ v.lists = x.lists /\ v.state = x.state /\ v.frames = x.frames
      /\ v.remaining = x.remaining /\ v.added = x.added \cup {h} /\ v.called = x.called
  <2>1. x \in States
    BY DEF Shape
  <2>2. x.added \cup {h} \in SUBSET Handlers
    BY <2>1 DEF States
  <2> QED
    BY <2>1, <2>2 DEF States
<1> HIDE DEF v
<1>3. Shape(v) /\ Calm(v)
  BY <1>2, CountsShape
<1>4. \A e \in Deferreds, u \in Finals :
        Alive(v, e, u) = Alive(x, e, u) /\ Fired(v, e, u) = Fired(x, e, u)
          /\ Wait(v, e, u) = Wait(x, e, u)
  BY <1>2 DEF Alive, Fired, Wait
<1>5. ASSUME NEW u \in Finals, Listens(h, d, u)
      PROVE  f \notin Wait(v, d, u) /\ InBody(f, d, u)
  <2>1. Heard(x, h, u)
    BY <1>5 DEF Duty, HandlersHeard
  <2>2. f \notin Wait(x, d, u)
    <3>1. CASE Alive(x, d, u)
      BY <2>1, <3>1 DEF Heard
    <3>2. CASE ~Alive(x, d, u)
      BY <3>2, <1>1, OneOutcome
    <3> QED
      BY <3>1, <3>2
  <2> QED
    BY <2>2, <1>1, <1>4, <1>5 DEF InBody
<1>6. /\ "resolve" \in Finals /\ "reject" \in Finals /\ "resolve" \in Tuples /\ "reject" \in Tuples
      /\ "notify" \notin Finals
      /\ \A u \in Finals : (u = "resolve" \/ u = "reject") /\ u # "always"
      /\ \A u \in Tuples : u \in Finals \/ u = "notify"
  BY DEF Finals, Tuples
<1>7. CASE t = "always"
  <2>1. y = Listen(w, d, "reject", f)
    BY <1>7 DEF Always
  <2>2. \A e \in Deferreds, u \in Finals : Listens(h, e, u) <=> e = d
    BY <1>7 DEF Listens
  <2> HIDE DEF f, w, y
  <2>3. ListenedIn(v, w, d, "resolve", f)
    <3>1. f \notin Wait(v, d, "resolve") /\ InBody(f, d, "resolve")
      BY <2>2, <1>1, <1>5, <1>6
    <3>2. "resolve" \in Tuples
      BY <1>6
    <3> QED
      BY <3>1, <3>2, <1>1, <1>3, ListenView DEF w
  <2>4. ListenedIn(w, y, d, "reject", f)
    <3>1. f \notin Wait(w, d, "reject") /\ InBody(f, d, "reject")
      BY <2>2, <2>3, <1>1, <1>5, <1>6 DEF ListenedIn
    <3>2. Shape(w) /\ Calm(w) /\ "reject" \in Tuples
      BY <2>3, <1>6 DEF ListenedIn
    <3> QED
      BY <2>1, <3>1, <3>2, <1>1, ListenView
  <2>5. Kept(v, y) /\ Shape(y)
    BY <2>3, <2>4 DEF Kept, ListenedIn
  <2>6. ASSUME NEW e \in Deferreds, NEW u \in Finals
        PROVE  /\ Alive(y, e, u) = Alive(x, e, u) /\ Fired(y, e, u) = Fired(x, e, u)
               /\ Wait(y, e, u)
                     = IF Listens(h, e, u) /\ Alive(x, e, u) THEN Wait(x, e, u) \cup {User(h)}
                                  ELSE Wait(x, e, u)
    <3>1. Alive(y, e, u) = Alive(x, e, u) /\ Fired(y, e, u) = Fired(x, e, u)
      BY <2>3, <2>4, <1>4 DEF ListenedIn
    <3>2. Listens(h, e, u) <=> e = d
      BY <2>2
    <3>3. CASE u = "resolve"
      BY <3>1, <3>2, <3>3, <2>3, <2>4, <1>1, <1>4, <1>6 DEF f, ListenedIn
    <3>4. CASE u = "reject"
      BY <3>1, <3>2, <3>4, <2>3, <2>4, <1>1, <1>4, <1>6 DEF f, ListenedIn
    <3> QED
      BY <3>1, <3>3, <3>4, <1>6
  <2>7. Heeds(x, y, h)
    BY <2>5, <2>6, <1>2 DEF Heeds, Kept
  <2>8. Duty(y)
    BY <2>7, HeedsDuty
  <2> QED
    BY <2>5, <2>7, <2>8 DEF Heeds, y, w, f, v
<1>8. CASE t # "always"
  <2>1. y = Listen(v, d, t, f) /\ t \in Tuples
    BY <1>1, <1>8
  <2>2. \A e \in Deferreds, u \in Finals : Listens(h, e, u) <=> e = d /\ u = t
    BY <1>8 DEF Listens
  <2>3. InBody(f, d, t)
    BY DEF InBody, Listens
  <2>4. t \in Finals => f \notin Wait(v, d, t)
    BY <2>2, <1>1, <1>5
  <2> HIDE DEF f, y
  <2>5. ListenedIn(v, y, d, t, f)
    BY <2>1, <2>3, <2>4, <1>1, <1>3, ListenView
  <2>6. ASSUME NEW e \in Deferreds, NEW u \in Finals
        PROVE  /\ Alive(y, e, u) = Alive(x, e, u) /\ Fired(y, e, u) = Fired(x, e, u)
               /\ Wait(y, e, u)
                     = IF Listens(h, e, u) /\ Alive(x, e, u) THEN Wait(x, e, u) \cup {User(h)}
                                  ELSE Wait(x, e, u)
    BY <2>2, <2>5, <1>4 DEF f, ListenedIn
  <2>7. Heeds(x, y, h)
    BY <2>5, <2>6, <1>2 DEF Heeds, Kept, ListenedIn
  <2>8. Duty(y)
    BY <2>7, HeedsDuty
  <2> QED
    BY <2>5, <2>7, <2>8 DEF Heeds, ListenedIn, y, f, v
<1> QED
  BY <1>7, <1>8

-----------------------------------------------------------------------------
(* The start.                                                                *)

Fresh(l, d, t) ==
  l \in Lists /\ ListFits(l, d, t) /\ l.alive /\ ~l.fired /\ ~l.firing /\ l.memory = None

LEMMA FreshAdd ==
  ASSUME NEW l, NEW d \in Deferreds, NEW t \in Tuples, NEW f, Fresh(l, d, t), InBody(f, d, t),
         t \in Finals => f \notin Waiting(l)
  PROVE  /\ Fresh(Add(l, f), d, t)
         /\ t \in Finals => Waiting(Add(l, f)) = Waiting(l) \cup {f}
<1> DEFINE m == Add(l, f)
<1>1. l \in Lists /\ l.alive = TRUE /\ l.fired = FALSE /\ l.firing = FALSE /\ l.memory = None
  BY DEF Fresh, Lists
<1>2. CASE t \in Finals
  <2>1. OutcomeFits(l, d, t) /\ ~Setting(l, d, t)
    BY <1>1, <1>2 DEF Fresh, ListFits, Setting, Loops
  <2> HIDE DEF m
  <2>2. /\ m \in Lists /\ OutcomeFits(m, d, t) /\ ~Setting(m, d, t)
        /\ m.alive = l.alive /\ m.fired = l.fired
        /\ m.firing = (l.firing \/ (l.alive /\ l.fired))
        /\ Waiting(m) = IF l.alive THEN Waiting(l) \cup {f} ELSE Waiting(l)
    BY <2>1, <1>1, <1>2, AddFits DEF m
  <2>3. m.memory = None
    BY <2>2, <1>1, <1>2, Phases DEF Virgin
  <2> QED
    BY <2>2, <2>3, <1>1, <1>2 DEF Fresh, ListFits, m
<1>3. CASE t = "notify"
  <2>1. t \notin Finals
    BY <1>3 DEF Finals
  <2>2. NotesFit(l, d)
    BY <2>1 DEF Fresh, ListFits
  <2>3. m \in Lists /\ NotesFit(m, d)
    BY <2>2, <1>1, <1>3, AddNote
  <2>4. m = [l EXCEPT !.list = Append(l.list, f)]
    BY <2>2, <1>1 DEF Add, NotesFit
  <2> HIDE DEF m
  <2>5. m.alive = TRUE /\ m.fired = FALSE /\ m.firing = FALSE /\ m.memory = None
    BY <2>4, <1>1 DEF Lists
  <2> QED
    BY <2>1, <2>3, <2>5 DEF Fresh, ListFits, m
<1> QED
  BY <1>2, <1>3 DEF Tuples, Finals

LEMMA Appended ==
  ASSUME NEW S, NEW a \in S, NEW b \in S, NEW c \in S
  PROVE  /\ Append(<<>>, a) = <<a>> /\ Append(<<a>>, b) = <<a, b>>
         /\ Append(<<a, b>>, c) = <<a, b, c>>
<1>1. Append(<<>>, a) = <<a>>
  OBVIOUS
<1>2. Append(<<a>>, b) = <<a, b>>
  <2>1. <<a, b>> \in Seq(S) /\ Append(<<a>>, b) \in Seq(S)
    OBVIOUS
  <2>2. Len(<<a, b>>) = 2 /\ Len(Append(<<a>>, b)) = 2
    OBVIOUS
  <2>3. \A i \in 1 .. 2 : <<a, b>>[i] = Append(<<a>>, b)[i]
    OBVIOUS
  <2> QED
    BY <2>1, <2>2, <2>3, SeqEqual
<1>3. Append(<<a, b>>, c) = <<a, b, c>>
  <2>1. <<a, b, c>> \in Seq(S) /\ Append(<<a, b>>, c) \in Seq(S)
    OBVIOUS
  <2>2. Len(<<a, b, c>>) = 3 /\ Len(Append(<<a, b>>, c)) = 3
    OBVIOUS
  <2>3. \A i \in 1 .. 3 : <<a, b, c>>[i] = Append(<<a, b>>, c)[i]
    OBVIOUS
  <2> QED
    BY <2>1, <2>2, <2>3, SeqEqual
<1> QED
  BY <1>1, <1>2, <1>3

\* The functions that settle the deferred come first.
LEMMA HeaderFresh ==
  ASSUME NEW d \in Deferreds, NEW t \in Finals
  PROVE  /\ Fresh(ListOf(d, t), d, t)
         /\ Waiting(ListOf(d, t)) = {Setter(d, t), Disabler(d, t), Locker(d)}
<1> DEFINE n == NewList({"once", "memory"})
           a == Setter(d, t)
           b == Disabler(d, t)
           c == Locker(d)
           m == ListOf(d, t)
<1>0. a \in Things /\ b \in Things /\ c \in Things /\ a # b /\ a # c /\ b # c
  <2>1. a.do = "state" /\ b.do = "disable" /\ c.do = "lock"
    BY HeadsAreThings
  <2> QED
    BY <2>1, HeadsAreThings
<1>1. /\ n \in Lists /\ n.options = {"once", "memory"} /\ n.alive = TRUE /\ n.list = <<>>
      /\ n.repeats = FALSE /\ n.stack = <<>> /\ n.memory = None /\ n.fired = FALSE
      /\ n.firing = FALSE /\ n.start = 1
  <2>1. n = [options |-> {"once", "memory"}, alive |-> TRUE, list |-> <<>>, repeats |-> FALSE,
             stack |-> <<>>, memory |-> 0, fired |-> FALSE, firing |-> FALSE,
             length |-> 0, index |-> 0, start |-> 1, data |-> 0]
    BY DEF NewList, None
  <2>2. <<>> \in Seq(Things) /\ <<>> \in Seq(Nat) /\ 0 \in Nat /\ 1 \in Nat
    OBVIOUS
  <2> HIDE DEF n
  <2> QED
    BY <2>1, <2>2 DEF Lists, None
<1>2. m = Add(Add(Add(n, a), b), c)
  <2>1. t # "notify"
    BY DEF Finals
  <2> QED
    BY <2>1 DEF ListOf, Setter, Disabler, Locker
<1> HIDE DEF n, a, b, c, m
<1>3. ASSUME NEW l \in Lists, l.options = {"once", "memory"}, l.alive = TRUE, l.firing = FALSE,
             l.memory = None, NEW f \in Things
      PROVE  Add(l, f) = [l EXCEPT !.list = Append(l.list, f)]
  BY <1>3 DEF Add
<1> DEFINE l1 == [n EXCEPT !.list = <<a>>]
           l2 == [l1 EXCEPT !.list = <<a, b>>]
           l3 == [l2 EXCEPT !.list = <<a, b, c>>]
<1>4. <<a>> \in Seq(Things) /\ <<a, b>> \in Seq(Things) /\ <<a, b, c>> \in Seq(Things)
  BY <1>0
<1>5. Append(<<>>, a) = <<a>> /\ Append(<<a>>, b) = <<a, b>> /\ Append(<<a, b>>, c) = <<a, b, c>>
  BY <1>0, Appended
<1>6. /\ Add(n, a) = l1
      /\ l1 \in Lists /\ l1.options = n.options /\ l1.alive = n.alive /\ l1.list = <<a>>
      /\ l1.repeats = n.repeats /\ l1.stack = n.stack /\ l1.memory = n.memory
      /\ l1.fired = n.fired /\ l1.firing = n.firing /\ l1.start = n.start
  <2>1. Add(n, a) = [n EXCEPT !.list = Append(n.list, a)]
    BY <1>0, <1>1, <1>3
  <2>2. Add(n, a) = l1
    BY <2>1, <1>1, <1>5
  <2> QED
    BY <2>2, <1>1, <1>4 DEF Lists
<1> HIDE DEF l1
<1>7. /\ Add(l1, b) = l2
      /\ l2 \in Lists /\ l2.options = n.options /\ l2.alive = n.alive /\ l2.list = <<a, b>>
      /\ l2.repeats = n.repeats /\ l2.stack = n.stack /\ l2.memory = n.memory
      /\ l2.fired = n.fired /\ l2.firing = n.firing /\ l2.start = n.start
  <2>1. Add(l1, b) = [l1 EXCEPT !.list = Append(l1.list, b)]
    BY <1>0, <1>1, <1>3, <1>6
  <2>2. Add(l1, b) = l2
    BY <2>1, <1>5, <1>6
  <2> QED
    BY <2>2, <1>4, <1>6 DEF Lists
<1> HIDE DEF l2
<1>8. /\ Add(l2, c) = l3
      /\ l3 \in Lists /\ l3.options = n.options /\ l3.alive = n.alive /\ l3.list = <<a, b, c>>
      /\ l3.repeats = n.repeats /\ l3.stack = n.stack /\ l3.memory = n.memory
      /\ l3.fired = n.fired /\ l3.firing = n.firing /\ l3.start = n.start
  <2>1. Add(l2, c) = [l2 EXCEPT !.list = Append(l2.list, c)]
    BY <1>0, <1>1, <1>3, <1>7
  <2>2. Add(l2, c) = l3
    BY <2>1, <1>5, <1>7
  <2> QED
    BY <2>2, <1>4, <1>7 DEF Lists
<1> HIDE DEF l3
<1>9. m = l3
  BY <1>2, <1>6, <1>7, <1>8
<1>10. /\ DOMAIN m.list = {1, 2, 3} /\ Len(m.list) = 3
       /\ m.list[1] = a /\ m.list[2] = b /\ m.list[3] = c
  BY <1>8, <1>9
<1>11. Waits(m) = {1, 2, 3}
  BY <1>1, <1>8, <1>9, <1>10 DEF Waits
<1>12. Waiting(m) = {a, b, c}
  BY <1>10, <1>11 DEF Waiting
<1>13. Distinct(m)
  BY <1>0, <1>10, <1>11 DEF Distinct
<1>14. Virgin(m, d, t)
  <2>1. Headed(m, d, t)
    BY <1>10 DEF Headed, a, b, c
  <2> QED
    BY <2>1, <1>1, <1>8, <1>9 DEF Virgin
<1>15. OutcomeFits(m, d, t)
  BY <1>1, <1>8, <1>9, <1>13, <1>14 DEF OutcomeFits
<1> QED
  BY <1>1, <1>8, <1>9, <1>12, <1>15 DEF Fresh, ListFits, m, a, b, c

LEMMA NotesFresh ==
  ASSUME NEW d \in Deferreds
  PROVE  Fresh(ListOf(d, "notify"), d, "notify")
<1> DEFINE n == NewList({"memory"})
<1>1. ListOf(d, "notify") = n
  BY DEF ListOf
<1>2. /\ n \in Lists /\ n.options = {"memory"} /\ n.alive = TRUE /\ n.list = <<>>
      /\ n.memory = None /\ n.fired = FALSE /\ n.firing = FALSE /\ n.start = 1
  BY DEF NewList, Lists, None
<1> HIDE DEF n
<1>3. NotesFit(n, d)
  BY <1>2 DEF NotesFit
<1> QED
  BY <1>1, <1>2, <1>3 DEF Fresh, ListFits, Finals

\* then() and when() have added theirs.
LEMMA TiedFresh ==
  ASSUME Subordinates \in Nat, NEW d \in Deferreds, NEW t \in Tuples
  PROVE  /\ Fresh(Tied(d, t), d, t)
         /\ t \in Finals => \A g : g.do \notin Headers =>
              (g \in Waiting(Tied(d, t)) <=> \/ d \in Subs /\ Master \notin Subs /\ g = Reporter(t)
                                             \/ d = Master /\ g = Passer(t))
<1> DEFINE l == ListOf(d, t)
           m == IF Master \in Subs \/ d \notin Subs THEN l ELSE Add(l, Reporter(t))
<1>1. Tied(d, t) = IF d = Master THEN Add(m, Passer(t)) ELSE m
  BY Zenon DEF Tied, Reporter, Passer
<1>2. /\ Fresh(l, d, t)
      /\ t \in Finals => \A g : g.do \notin Headers => g \notin Waiting(l)
  <2>1. CASE t \in Finals
    <3>1. Fresh(l, d, t) /\ Waiting(l) = {Setter(d, t), Disabler(d, t), Locker(d)}
      BY <2>1, HeaderFresh
    <3>2. \A g \in Waiting(l) : g.do \in Headers
      BY <2>1, <3>1, HeadsAreThings DEF Headers
    <3> QED
      BY <3>1, <3>2
  <2>2. CASE t = "notify"
    BY <2>2, NotesFresh DEF Finals
  <2> QED
    BY <2>1, <2>2 DEF Tuples, Finals
<1> HIDE DEF l
<1>3. /\ Fresh(m, d, t)
      /\ t \in Finals => \A g : g.do \notin Headers =>
           (g \in Waiting(m) <=> d \in Subs /\ Master \notin Subs /\ g = Reporter(t))
  <2>1. CASE Master \in Subs \/ d \notin Subs
    BY <2>1, <1>2
  <2>2. CASE ~(Master \in Subs \/ d \notin Subs)
    <3>1. m = Add(l, Reporter(t))
      BY <2>2
    <3> HIDE DEF m
    <3>2. InBody(Reporter(t), d, t) /\ Reporter(t).do \notin Headers
      BY <2>2, DistinctFunctions DEF InBody
    <3>3. Fresh(m, d, t) /\ (t \in Finals => Waiting(m) = Waiting(l) \cup {Reporter(t)})
      BY <3>1, <3>2, <1>2, FreshAdd
    <3> QED
      BY <2>2, <3>3, <1>2
  <2> QED
    BY <2>1, <2>2
<1> HIDE DEF m
<1>4. CASE d # Master
  BY <1>1, <1>3, <1>4
<1>5. CASE d = Master
  <2>1. Tied(d, t) = Add(m, Passer(t))
    BY <1>1, <1>5
  <2>2. InBody(Passer(t), d, t) /\ Passer(t).do \notin Headers /\ Passer(t) # Reporter(t)
    BY <1>5, DistinctFunctions DEF InBody
  <2>3. t \in Finals => Passer(t) \notin Waiting(m)
    BY <2>2, <1>3
  <2>4. /\ Fresh(Add(m, Passer(t)), d, t)
        /\ t \in Finals => Waiting(Add(m, Passer(t))) = Waiting(m) \cup {Passer(t)}
    BY <2>2, <2>3, <1>3, FreshAdd
  <2> QED
    BY <2>1, <2>4, <1>3, <1>5
<1> QED
  BY <1>4, <1>5

LEMMA StartShape ==
  ASSUME Subordinates \in Nat
  PROVE  /\ Shape(Start) /\ Calm(Start)
         /\ \A d \in Deferreds, t \in Finals : Alive(Start, d, t) /\ ~Fired(Start, d, t)
         /\ \A d \in Deferreds, t \in Finals : \A g : g.do \notin Headers =>
              (g \in Wait(Start, d, t) <=> \/ d \in Subs /\ Master \notin Subs /\ g = Reporter(t)
                                           \/ d = Master /\ g = Passer(t))
<1>1. /\ \A d \in Deferreds, t \in Tuples : Start.lists[d][t] = Tied(d, t)
      /\ \A d \in Deferreds : Start.state[d] = "pending"
      /\ Start.frames = <<>>
  BY DEF Start
<1>2. \A d \in Deferreds, t \in Tuples : Fresh(Start.lists[d][t], d, t)
  BY <1>1, TiedFresh
<1>3. Start \in States
  <2>1. [d \in Deferreds |-> [t \in Tuples |-> Tied(d, t)]] \in [Deferreds -> [Tuples -> Lists]]
    BY TiedFresh DEF Fresh
  <2>2. /\ [d \in Deferreds |-> "pending"] \in [Deferreds -> {"pending", "resolved", "rejected"}]
        /\ [h \in Handlers |-> 0] \in [Handlers -> Nat] /\ {} \in SUBSET Handlers
        /\ <<>> \in Seq(Frames) /\ 0 \in Nat /\ Subordinates \in Int
    OBVIOUS
  <2> QED
    BY <2>1, <2>2 DEF Start, States
<1>4. \A d \in Deferreds, t \in Finals : Alive(Start, d, t) /\ ~Fired(Start, d, t)
  BY <1>2, Outcomes DEF Fresh, Alive, Fired
<1>5. Calm(Start)
  BY <1>2, Outcomes DEF Fresh, Calm, Setting, Loops
<1>6. ListsFit(Start) /\ FramesFit(Start) /\ TopFits(Start)
  BY <1>1, <1>2, <1>5 DEF ListsFit, Fresh, FramesFit, TopFits, Calm
<1>7. StatesFit(Start)
  <2>1. \A d \in Deferreds, t \in Finals : ~Early(Start, d, t, 1) /\ ~Early(Start, d, t, 2)
    BY <1>5 DEF Calm, Early
  <2>2. \A t \in Finals : Final[t] # "pending"
    BY Outcomes
  <2> QED
    BY <1>1, <1>4, <2>1, <2>2, Outcomes DEF StatesFit, StateFits
<1>8. ASSUME NEW d \in Deferreds, NEW t \in Finals, NEW g, g.do \notin Headers
      PROVE  g \in Wait(Start, d, t) <=> \/ d \in Subs /\ Master \notin Subs /\ g = Reporter(t)
                                         \/ d = Master /\ g = Passer(t)
  BY <1>1, <1>8, TiedFresh, Outcomes DEF Wait
<1> QED
  BY <1>3, <1>4, <1>5, <1>6, <1>7, <1>8 DEF Shape

LEMMA InitKeeps ==
  ASSUME Subordinates \in Nat, HandlersFit, NEW x \in Starts
  PROVE  Shape(x) /\ Duty(x)
<1>1. /\ Shape(Start) /\ Calm(Start)
      /\ \A d \in Deferreds, t \in Finals : Alive(Start, d, t) /\ ~Fired(Start, d, t)
      /\ \A d \in Deferreds, t \in Finals : \A g : g.do \notin Headers =>
           (g \in Wait(Start, d, t) <=> \/ d \in Subs /\ Master \notin Subs /\ g = Reporter(t)
                                        \/ d = Master /\ g = Passer(t))
  BY StartShape
<1>2. /\ Start.remaining = Subordinates /\ Start.added = {}
      /\ \A h \in Handlers : Start.called[h] = 0
  BY DEF Start
<1>3. /\ Master \in Deferreds /\ Inner \in Deferreds /\ Follower \in Deferreds /\ Master # Inner
      /\ Master # Follower /\ Inner \notin Subs /\ Subs \subseteq Deferreds
  BY Numbers
<1>4. HandlersHeard(Start)
  <2>1. SUFFICES ASSUME NEW h \in Handlers, NEW t \in Finals PROVE Heard(Start, h, t)
    BY DEF HandlersHeard
  <2>2. h.d \in Deferreds
    BY DEF HandlersFit
  <2>3. User(h).do \notin Headers /\ User(h) # Reporter(t) /\ User(h) # Passer(t)
    BY DistinctFunctions
  <2>4. User(h) \notin Wait(Start, h.d, t)
    BY <2>2, <2>3, <1>1
  <2> QED
    BY <2>4, <1>2 DEF Heard
<1>5. Passes(Start)
  <2>1. \A t \in Finals : ~Passed(Start, t)
    BY <1>1, <1>3 DEF Passed
  <2>2. ~PassedOn(Start) /\ \A t \in Finals : ~Follows(Start, t)
    BY <2>1 DEF PassedOn, Follows
  <2>3. \A t \in Finals : Asks(t) \notin Wait(Start, Inner, t)
           /\ Passer(t) \in Wait(Start, Master, t)
    BY <1>1, <1>3, DistinctFunctions
  <2> QED
    BY <2>2, <2>3, <1>1, <1>3 DEF Passes
<1>6. Reported(Start) = {} /\ ~Refused(Start)
  BY <1>1, <1>3 DEF Reported, Refused, Finals
<1>7. Cardinality(Reported(Start)) = 0
  BY <1>6, FS_EmptySet
<1>8. CASE Subordinates # 0
  <2>1. x = Start
    BY <1>8 DEF Starts
  <2>2. ASSUME Master \notin Subs PROVE Reports(Start)
    <3>1. \A d \in Subs, t \in Finals : Reporter(t) \in Wait(Start, d, t)
      BY <2>2, <1>1, <1>3, DistinctFunctions
    <3>2. "resolve" \in Finals /\ "reject" \in Finals
      BY DEF Finals
    <3> QED
      BY <3>1, <3>2, <1>1, <1>2, <1>3, <1>6, <1>7, <1>8 DEF Reports
  <2> QED
    BY <2>1, <2>2, <1>1, <1>4, <1>5 DEF Duty
<1>9. CASE Subordinates = 0
  <2>1. x = Settle(Start, Master, "resolve") /\ "resolve" \in Finals /\ "reject" \in Finals
    BY <1>9 DEF Starts, Finals
  <2>2. Shape(x) /\ SettledIn(Start, x, Master, "resolve")
    BY <2>1, <1>1, <1>3, FireView, Outcomes
  <2>3. HandlersHeard(x) /\ Passes(x)
    BY <2>2, <1>1, <1>3, <1>4, <1>5, UsersWhenSettled, PassesWhenSettled
  <2>4. Subs = {}
    BY <1>9 DEF Subs
  <2>5. Cardinality(Reported(x)) = 0 /\ ~Refused(x)
    BY <2>4, FS_EmptySet DEF Reported, Refused
  <2>6. /\ x.remaining = 0 /\ Fired(x, Master, "resolve") /\ ~Fired(x, Master, "reject")
    BY <2>1, <2>2, <1>1, <1>2, <1>3, <1>9 DEF SettledIn, Kept
  <2>7. Reports(x)
    BY <2>4, <2>5, <2>6, <1>9 DEF Reports
  <2> QED
    BY <2>2, <2>3, <2>7 DEF Duty
<1> QED
  BY <1>8, <1>9

-----------------------------------------------------------------------------
(* The invariant.                                                            *)

Agreeing == Shape(s) /\ Duty(s)

\* What a step may do to the state of a deferred.
Lasting == \A d \in Deferreds : s'.state[d] = s.state[d] \/ s.state[d] = "pending"

LEMMA NextKeeps ==
  ASSUME Subordinates \in Nat, HandlersFit, Agreeing, Next
  PROVE  Agreeing' /\ Lasting
<1>1. Shape(s) /\ Duty(s)
  BY DEF Agreeing
<1>2. ASSUME Busy
      PROVE  /\ Top.d \in Deferreds /\ Top.t \in Tuples /\ OnTop(s, Top.d, Top.t)
             /\ s.frames # <<>> /\ Top = s.frames[Len(s.frames)]
  BY <1>1, <1>2, TopTyped DEF Busy, Top, Frames
<1>3. MayAct => Calm(s)
  <2>1. CASE Busy
    BY <2>1, <1>1, CalmUnlessOnTop DEF Busy, MayAct, Top
  <2>2. CASE ~Busy
    BY <2>2, <1>1, CalmUnlessOnTop DEF Busy
  <2> QED
    BY <2>1, <2>2
<1>4. ASSUME Shape(s'), Duty(s'), s'.state = s.state PROVE Agreeing' /\ Lasting
  BY <1>4 DEF Agreeing, Lasting
<1>5. CASE CallNext
  <2>1. s' = Effect(Back(s, Top.d, Top.t), Called(s.lists[Top.d][Top.t])) /\ Busy
    BY <1>5 DEF CallNext, Back, TopList
  <2>2. Calls(s.lists[Top.d][Top.t])
    BY <1>5 DEF CallNext, TopList
  <2>3. /\ Shape(s') /\ Duty(s')
        /\ \A e \in Deferreds : s'.state[e] = s.state[e] \/ s.state[e] = "pending"
    BY <2>1, <2>2, <1>1, <1>2, CallKeeps
  <2> QED
    BY <2>3 DEF Agreeing, Lasting
<1>6. CASE EndOfLoop
  <2>1. s' = Ended(s, Top.d, Top.t) /\ Busy /\ ~Calls(s.lists[Top.d][Top.t])
    BY <1>6 DEF EndOfLoop, Ended, TopList
  <2> QED
    BY <2>1, <1>1, <1>2, <1>4, EndKeeps
<1>7. CASE PassNotes
  <2>1. /\ s.frames # <<>> /\ s.frames[Len(s.frames)].at = "pass"
        /\ s' = Listen([s EXCEPT !.frames[Len(s.frames)].at = "loop"],
                       Inner, "notify", SettleFunction(Follower, "notify"))
    BY <1>7 DEF PassNotes, Busy, Top
  <2> QED
    BY <2>1, <1>1, <1>4, PassNotesKeeps
<1>8. CASE Return
  <2>1. /\ s.frames # <<>> /\ s.frames[Len(s.frames)].at = "user"
        /\ s' = [s EXCEPT !.frames[Len(s.frames)].at = "loop"]
    BY <1>8 DEF Return, Busy, Top
  <2> QED
    BY <2>1, <1>1, <1>4, ReturnKeeps
<1>9. ASSUME NEW d \in Subs \cup {Inner}, NEW t \in Tuples, SettleOne(d, t)
      PROVE  Agreeing' /\ Lasting
  <2>1. /\ Calm(s)
        /\ s' = [Settle(s, d, t) EXCEPT !.notes = IF t = "notify" THEN @ + 1 ELSE @]
    BY <1>3, <1>9 DEF SettleOne
  <2> QED
    BY <2>1, <1>1, <1>4, SettleOneKeeps
<1>10. ASSUME NEW h \in Handlers, AddHandler(h)
       PROVE  Agreeing' /\ Lasting
  <2> DEFINE v == [s EXCEPT !.added = @ \cup {h}]
             y == IF h.t = "always" THEN Always(v, h.d, User(h)) ELSE Listen(v, h.d, h.t, User(h))
  <2>1. Calm(s) /\ h \notin s.added /\ s' = y
    BY <1>3, <1>10 DEF AddHandler, User
  <2>2. Shape(y) /\ Duty(y) /\ y.state = s.state
    BY <2>1, <1>1, AddHandlerKeeps
  <2> HIDE DEF y
  <2> QED
    BY <2>1, <2>2, <1>4
<1> QED
  BY <1>5, <1>6, <1>7, <1>8, <1>9, <1>10 DEF Next, Library

LEMMA AlwaysAgreeing ==
  ASSUME Subordinates \in Nat, HandlersFit
  PROVE  Spec => []Agreeing
<1>1. Init => Agreeing
  BY InitKeeps DEF Init, Agreeing
<1>2. Agreeing /\ [Next]_s => Agreeing'
  <2>1. ASSUME Agreeing, Next PROVE Agreeing'
    BY <2>1, NextKeeps
  <2>2. ASSUME Agreeing, UNCHANGED s PROVE Agreeing'
    BY <2>2 DEF Agreeing
  <2> QED
    BY <2>1, <2>2
<1> QED
  BY <1>1, <1>2, PTL DEF Spec

-----------------------------------------------------------------------------
(* What it means once all calls have returned.                               *)

LEMMA Idle ==
  ASSUME NEW x, Shape(x), x.frames = <<>>, NEW d \in Deferreds, NEW t \in Finals
  PROVE  /\ x.state[d] = Final[t] <=> Fired(x, d, t)
         /\ Fired(x, d, t) => Wait(x, d, t) = {} /\ Alive(x, d, t)
<1>1. Calm(x)
  BY CalmUnlessOnTop
<1>2. x.state[d] = Final[t] <=> Fired(x, d, t)
  <2>1. x.state[d] = Final[t] => Fired(x, d, t)
    BY DEF Shape, StatesFit, StateFits
  <2>2. Fired(x, d, t) => x.state[d] = Final[t]
    BY <1>1, OneOutcome
  <2> QED
    BY <2>1, <2>2
<1>3. t \in Tuples /\ x.lists[d][t] \in Lists /\ OutcomeFits(x.lists[d][t], d, t)
  BY Outcomes, ListTyped DEF Shape, ListsFit, ListFits
<1>4. ~x.lists[d][t].firing
  BY <1>3 DEF Shape, FramesFit
<1>5. ASSUME Fired(x, d, t) PROVE Wait(x, d, t) = {} /\ Alive(x, d, t)
  <2>1. Done(x.lists[d][t])
    BY <1>3, <1>4, <1>5 DEF Fired, OutcomeFits, Virgin, Setting, Running, Loops, Done, Dead
  <2> QED
    BY <2>1 DEF Done, Wait, Waiting, Waits, Alive
<1> QED
  BY <1>2, <1>5

LEMMA StateIsOne ==
  ASSUME NEW x, Shape(x), NEW d \in Deferreds
  PROVE  x.state[d] = "pending" \/ \E t \in Finals : x.state[d] = Final[t]
<1>1. x.state[d] \in {"pending", "resolved", "rejected"}
  BY DEF Shape, States
<1> QED
  BY <1>1, Outcomes DEF Finals

LEMMA HeardInTheEnd ==
  ASSUME Subordinates \in Nat, HandlersFit, Agreeing
  PROVE  OutcomeIsHeard /\ NobodyIsMissed
<1>1. Shape(s) /\ HandlersHeard(s)
  BY DEF Agreeing, Duty
<1>2. ASSUME NEW h \in Handlers, h.t # "notify"
      PROVE  s.called[h] <= 1 /\ (s.called[h] = 1 => Expects(h, s.state[h.d]))
  <2>1. \E u \in Finals : Listens(h, h.d, u)
    BY <1>2, Outcomes DEF HandlersFit, Listens, Finals
  <2> QED
    BY <2>1, <1>1 DEF HandlersHeard, Heard
<1>3. ASSUME ~Busy, NEW h \in s.added, Expects(h, s.state[h.d])
      PROVE  s.called[h] = 1
  <2>1. h \in Handlers /\ h.d \in Deferreds /\ s.called[h] \in Nat
    BY <1>1, <1>3 DEF Shape, States, HandlersFit
  <2>2. PICK u \in Finals : s.state[h.d] = Final[u] /\ Listens(h, h.d, u)
    <3>1. CASE h.t = "always"
      <4>1. s.state[h.d] # "pending"
        BY <3>1, <1>3 DEF Expects, Final
      <4> QED
        BY <4>1, <3>1, <2>1, <1>1, StateIsOne DEF Listens
    <3>2. CASE h.t # "always"
      BY <3>2, <2>1, <1>3 DEF Expects, Final, Finals, Listens
    <3> QED
      BY <3>1, <3>2
  <2>3. Wait(s, h.d, u) = {} /\ Alive(s, h.d, u)
    BY <2>1, <2>2, <1>1, <1>3, Idle DEF Busy
  <2>4. Heard(s, h, u)
    BY <2>1, <2>2, <1>1 DEF HandlersHeard
  <2>5. s.called[h] # 0 /\ s.called[h] <= 1
    BY <2>3, <2>4, <1>3 DEF Heard
  <2> QED
    BY <2>1, <2>5
<1> QED
  BY <1>2, <1>3 DEF OutcomeIsHeard, NobodyIsMissed

LEMMA WhenInTheEnd ==
  ASSUME Subordinates \in Nat, HandlersFit, Agreeing
  PROVE  WhenAgrees
<1> SUFFICES ASSUME ~Busy
             PROVE  /\ (s.state[Master] = "resolved") <=> (\A d \in Subs : s.state[d] = "resolved")
                    /\ (s.state[Master] = "rejected") <=> (\E d \in Subs : s.state[d] = "rejected")
  BY DEF WhenAgrees
<1>1. CASE Master \in Subs
  <2>1. Subs = {Master}
    BY <1>1 DEF Master, Subs
  <2> QED
    BY <2>1
<1>2. CASE Master \notin Subs
  <2>1. Shape(s) /\ Reports(s) /\ s.frames = <<>>
    BY <1>2 DEF Agreeing, Duty, Busy
  <2>2. "resolve" \in Finals /\ "reject" \in Finals
    BY DEF Finals
  <2>3. \A d \in Deferreds :
          /\ s.state[d] = "resolved" <=> Fired(s, d, "resolve")
          /\ s.state[d] = "rejected" <=> Fired(s, d, "reject")
          /\ Fired(s, d, "resolve") => Wait(s, d, "resolve") = {}
          /\ Fired(s, d, "reject") => Wait(s, d, "reject") = {}
    BY <2>1, <2>2, Idle, Outcomes
  <2>4. Subs \subseteq Deferreds /\ Master \in Deferreds
    BY Numbers
  <2>5. Reported(s) = {d \in Subs : s.state[d] = "resolved"}
    BY <2>3, <2>4 DEF Reported
  <2>6. Refused(s) <=> \E d \in Subs : s.state[d] = "rejected"
    BY <2>3, <2>4 DEF Refused
  <2>7. Fired(s, Master, "resolve") <=> Reported(s) = Subs
    <3>1. Cardinality(Subs) = Subordinates
      <4>1. Cardinality(1 .. Subordinates) = IF 1 > Subordinates THEN 0 ELSE Subordinates - 1 + 1
        BY FS_Interval
      <4> QED
        BY <4>1 DEF Subs
    <3>2. /\ Cardinality(Reported(s)) \in Nat
          /\ Cardinality(Reported(s)) = Subordinates => Reported(s) = Subs
      BY Counted
    <3>3. s.remaining = 0 <=> Cardinality(Reported(s)) = Subordinates
      BY <3>2, <2>1 DEF Reports
    <3> QED
      BY <3>1, <3>2, <3>3, <2>1 DEF Reports
  <2>8. Fired(s, Master, "reject") <=> Refused(s)
    BY <2>1 DEF Reports
  <2>9. Reported(s) = Subs <=> \A d \in Subs : s.state[d] = "resolved"
    BY <2>5
  <2> QED
    BY <2>3, <2>4, <2>6, <2>7, <2>8, <2>9
<1> QED
  BY <1>1, <1>2

LEMMA ThenInTheEnd ==
  ASSUME Subordinates \in Nat, HandlersFit, Chained \subseteq Tuples, Agreeing
  PROVE  ThenAgrees
<1> DEFINE outcome == CASE ~Settled(Master) -> "pending"
                        [] \E t \in Chained : s.state[Master] = Final[t] -> s.state[Inner]
                        [] OTHER -> s.state[Master]
<1> SUFFICES ASSUME ~Busy, "notify" \notin Chained
             PROVE  s.state[Follower] = outcome
  BY DEF ThenAgrees
<1>1. Shape(s) /\ Passes(s) /\ s.frames = <<>>
  BY DEF Agreeing, Duty, Busy
<1>2. Master \in Deferreds /\ Inner \in Deferreds /\ Follower \in Deferreds
  BY Numbers
<1>3. \A t \in Chained : t \in Finals
  BY Outcomes
<1>4. /\ \A d \in Deferreds, t \in Finals : s.state[d] = Final[t] <=> Fired(s, d, t)
      /\ \A d \in Deferreds, t \in Finals : Fired(s, d, t) => Wait(s, d, t) = {}
  BY <1>1, Idle
<1>5. \A t \in Finals : Passed(s, t) <=> s.state[Master] = Final[t]
  BY <1>2, <1>4 DEF Passed
<1>6. PassedOn(s) <=> \E t \in Chained : s.state[Master] = Final[t]
  BY <1>3, <1>5 DEF PassedOn
<1>7. \A t \in Finals : s.state[Follower] = Final[t] <=>
        \/ s.state[Master] = Final[t] /\ t \notin Chained
        \/ PassedOn(s) /\ s.state[Inner] = Final[t]
  BY <1>1, <1>2, <1>4, <1>5 DEF Passes, Follows
<1>8. \A d \in {Master, Inner, Follower} :
        s.state[d] = "pending" \/ \E t \in Finals : s.state[d] = Final[t]
  BY <1>1, <1>2, StateIsOne
<1>9. \A t, u \in Finals : Final[t] # "pending" /\ (Final[t] = Final[u] => t = u)
  BY DEF Final, Finals
<1>10. CASE s.state[Master] = "pending"
  <2>1. s.state[Follower] = "pending"
    BY <1>3, <1>6, <1>7, <1>8, <1>9, <1>10
  <2>2. outcome = "pending"
    <3>1. ~\E t \in Chained : s.state[Master] = Final[t]
      BY <1>3, <1>9, <1>10
    <3> QED
      BY <3>1, <1>10 DEF Settled
  <2> QED
    BY <2>1, <2>2
<1>11. CASE s.state[Master] # "pending" /\ \E t \in Chained : s.state[Master] = Final[t]
  <2>1. PassedOn(s)
    BY <1>6, <1>11
  <2>2. \A t \in Finals : s.state[Master] = Final[t] => t \in Chained
    BY <1>3, <1>9, <1>11
  <2>3. s.state[Follower] = s.state[Inner]
    BY <2>1, <2>2, <1>7, <1>8, <1>9
  <2>4. outcome = s.state[Inner]
    BY <1>11 DEF Settled
  <2> QED
    BY <2>3, <2>4
<1>12. CASE s.state[Master] # "pending" /\ ~\E t \in Chained : s.state[Master] = Final[t]
  <2>1. s.state[Follower] = s.state[Master]
    BY <1>7, <1>8, <1>9, <1>12
  <2>2. outcome = s.state[Master]
    BY <1>12 DEF Settled
  <2> QED
    BY <2>1, <2>2
<1> QED
  BY <1>10, <1>11, <1>12

-----------------------------------------------------------------------------
\* In whatever order and depth deferreds settle and functions are added: those
\* of the outcome are called once, none is missing when all calls have returned,
\* and the deferreds of when() and then() have the outcomes they should.
THEOREM OutcomesHold ==
  ASSUME Subordinates \in Nat, HandlersFit, Chained \subseteq Tuples
  PROVE  Spec => []OutcomesAgree
<1>1. Agreeing => OutcomesAgree
  BY HeardInTheEnd, WhenInTheEnd, ThenInTheEnd DEF OutcomesAgree
<1> QED
  BY <1>1, AlwaysAgreeing, PTL

\* A deferred that is resolved or rejected stays as it is, however often and by
\* whomever it is settled again: the functions that set the state run once.
THEOREM SettlesForGood ==
  ASSUME Subordinates \in Nat, HandlersFit
  PROVE  Spec => SettledForGood
<1>1. Agreeing /\ [Next]_s => [\A d \in Deferreds : Settled(d) => s'.state[d] = s.state[d]]_s
  <2>1. ASSUME Agreeing, Next PROVE \A d \in Deferreds : Settled(d) => s'.state[d] = s.state[d]
    <3>1. Lasting
      BY <2>1, NextKeeps
    <3> QED
      BY <3>1 DEF Lasting, Settled
  <2> QED
    BY <2>1
<1> QED
  BY <1>1, AlwaysAgreeing, PTL DEF Spec, SettledForGood
=============================================================================
