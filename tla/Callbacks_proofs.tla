--------------------------- MODULE Callbacks_proofs ---------------------------
(***************************************************************************)
(* Whatever the functions of a callback list do to it while they are       *)
(* called, fire() calls each of them once and in order: for any functions, *)
(* options, values and lengths of the list.                                *)
(***************************************************************************)
EXTENDS Callbacks, Integers, SequenceTheorems, FiniteSetTheorems, WellFoundedInduction, TLAPS

-----------------------------------------------------------------------------
(* The loop of remove().                                                     *)

LEMMA FirstIsThere ==
  ASSUME NEW S \in SUBSET Nat, S # {}
  PROVE  \E m \in S : \A n \in S : m =< n
<1>1. PICK m \in S : \A n \in S : ~(<<n, m>> \in OpToRel(<, Nat))
  BY NatLessThanWellFounded, WFMin
<1>2. ASSUME NEW n \in S PROVE m =< n
  <2>1. <<n, m>> \in Nat \X Nat /\ <<n, m>>[1] = n /\ <<n, m>>[2] = m
    OBVIOUS
  <2>2. ~(n < m)
    BY <1>1, <2>1, Zenon DEF OpToRel
  <2> QED
    BY <2>2
<1> QED
  BY <1>2

\* g[i] is the list after i rounds of the loop.
Removes(g, x, f, n) == g = [i \in 0 .. n |-> IF i = 0 THEN x ELSE RemoveFirst(g[i - 1], f)]

\* The recursive function of Remove is there, so that Remove is its last value.
LEMMA RemovesOneByOne ==
  ASSUME NEW x, NEW f, Len(x.list) \in Nat
  PROVE  \E g : Removes(g, x, f, Len(x.list)) /\ Remove(x, f) = g[Len(x.list)]
<1> DEFINE N == Len(x.list)
           B == {n \in 0 .. N : ~ \E g : Removes(g, x, f, n)}
<1>1. ASSUME B # {} PROVE FALSE
  <2>1. PICK m \in B : \A n \in B : m =< n
    <3>1. B \in SUBSET Nat
      OBVIOUS
    <3> HIDE DEF B
    <3> QED
      BY <1>1, <3>1, FirstIsThere
  <2>2. CASE m = 0
    <3> DEFINE g == [i \in 0 .. 0 |-> x]
    <3>1. Removes(g, x, f, 0)
      BY DEF Removes
    <3> QED
      BY <2>1, <2>2, <3>1
  <2>3. CASE m # 0
    <3>1. m - 1 \in 0 .. N /\ m - 1 \notin B
      BY <2>1, <2>3
    <3>2. PICK h : Removes(h, x, f, m - 1)
      BY <3>1
    <3> DEFINE g == [i \in 0 .. m |-> IF i = m THEN RemoveFirst(h[m - 1], f) ELSE h[i]]
    <3>3. \A i \in 0 .. m : g[i] = IF i = 0 THEN x ELSE RemoveFirst(g[i - 1], f)
      <4> TAKE i \in 0 .. m
      <4>1. CASE i = m
        <5>1. g[m - 1] = h[m - 1]
          BY <2>1, <2>3
        <5> QED
          BY <2>3, <4>1, <5>1
      <4>2. CASE i # m
        <5>1. i \in 0 .. m - 1 /\ g[i] = h[i]
          BY <2>1, <4>2
        <5>2. h[i] = IF i = 0 THEN x ELSE RemoveFirst(h[i - 1], f)
          BY <3>2, <5>1 DEF Removes
        <5>3. i # 0 => g[i - 1] = h[i - 1]
          BY <2>1, <4>2
        <5> QED
          BY <5>1, <5>2, <5>3
      <4> QED
        BY <4>1, <4>2
    <3>4. g = [i \in 0 .. m |-> g[i]]
      OBVIOUS
    <3> HIDE DEF g
    <3>5. Removes(g, x, f, m)
      BY <3>3, <3>4 DEF Removes
    <3> QED
      BY <2>1, <3>5
  <2> QED
    BY <2>2, <2>3
<1>2. \E g : Removes(g, x, f, N)
  BY <1>1
<1> DEFINE a == CHOOSE a : Removes(a, x, f, N)
<1>3. Removes(a, x, f, N)
  BY <1>2
<1>4. Remove(x, f) = a[N]
  BY Zenon DEF Remove, Removes
<1> QED
  BY <1>3, <1>4

-----------------------------------------------------------------------------
(* The invariant.                                                            *)

Lists ==
  [options : OptionSets, alive : BOOLEAN, list : Seq(Functions), repeats : BOOLEAN,
   stack : Seq(Nat), memory : Nat, fired : BOOLEAN, firing : BOOLEAN,
   length : Int, index : Int, start : Nat, data : Nat]
States ==
  [l : Lists, calling : BOOLEAN, fires : Nat, owed : SUBSET Functions, emptied : BOOLEAN]

\* The loop runs to the end of the list; a function that removes itself leaves
\* the loop before the first one.
LoopFits(x, calling) ==
  /\ x.start = 1
  /\ x.firing => x.fired
  /\ calling => x.firing
  /\ x.firing /\ x.alive => x.length = Len(x.list)
  /\ ~x.alive => x.list = <<>> /\ ~x.repeats
  /\ calling => x.index >= 0
  /\ x.firing /\ x.alive /\ ~calling => x.index >= 1

\* The values that wait are later than the one being fired, and in order.
Rising(q, low, high) ==
  /\ \A i \in DOMAIN q : low <= q[i] /\ q[i] <= high
  /\ \A i, j \in DOMAIN q : i <= j => q[i] <= q[j]
ValuesFit(x, fires) ==
  /\ x.memory \in {None, x.data} /\ x.data <= fires
  /\ Rising(x.stack, x.data, fires)
  /\ x.stack # <<>> => x.repeats /\ x.firing

\* What is owed is ahead of the loop, and what is ahead of it is owed, but for
\* copies.
Ahead(x, calling) ==
  {j \in DOMAIN x.list : x.index <= j /\ (calling => j # x.index)}
Twice(q, j) == \E k \in DOMAIN q : k # j /\ q[k] = q[j]
OwedAhead(x, calling, owed) == \A f \in owed : \E j \in Ahead(x, calling) : x.list[j] = f
AheadOwed(x, calling, owed) ==
  \A j \in Ahead(x, calling) : x.list[j] \in owed \/ Twice(x.list, j)
OwedFits(x, calling, owed, emptied) ==
  /\ x.firing /\ x.alive /\ ~emptied => OwedAhead(x, calling, owed)
  /\ x.firing => AheadOwed(x, calling, owed)
  /\ calling /\ x.alive /\ ~emptied => x.index <= Len(x.list)
  /\ ~x.firing /\ x.alive /\ x.memory # None /\ ~emptied => owed = {}

Inv(x) ==
  /\ x \in States
  /\ LoopFits(x.l, x.calling) /\ ValuesFit(x.l, x.fires)
  /\ OwedFits(x.l, x.calling, x.owed, x.emptied)

-----------------------------------------------------------------------------
(* What the operations of a list make of it.                                 *)

LEMMA FireParts ==
  ASSUME NEW x \in Lists, NEW v \in Nat
  PROVE  /\ Fire(x, v) \in Lists
         /\ Fire(x, v).options = x.options /\ Fire(x, v).alive = x.alive
         /\ Fire(x, v).list = x.list /\ Fire(x, v).repeats = x.repeats
         /\ Fire(x, v).stack = x.stack /\ Fire(x, v).memory \in {None, v}
         /\ Fire(x, v).fired = TRUE /\ Fire(x, v).firing = TRUE
         /\ Fire(x, v).length = Len(x.list) /\ Fire(x, v).index = x.start
         /\ Fire(x, v).start = 1 /\ Fire(x, v).data = v
<1> DEFINE m == IF "memory" \in x.options THEN v ELSE None
<1>1. m \in Nat /\ m \in {None, v}
  BY DEF None
<1>2. Fire(x, v) = [x EXCEPT !.memory = m, !.fired = TRUE, !.index = x.start, !.start = 1,
                             !.length = Len(x.list), !.firing = TRUE, !.data = v]
  BY DEF Fire
<1>3. Len(x.list) \in Int /\ x.start \in Int
  BY DEF Lists
<1> HIDE DEF m
<1> DEFINE y == [x EXCEPT !.memory = m, !.fired = TRUE, !.index = x.start, !.start = 1,
                          !.length = Len(x.list), !.firing = TRUE, !.data = v]
<1>4. y \in Lists
  BY <1>1, <1>3 DEF Lists
<1>5. /\ y.options = x.options /\ y.alive = x.alive /\ y.list = x.list
      /\ y.repeats = x.repeats /\ y.stack = x.stack
  BY DEF Lists
<1>6. /\ y.memory = m /\ y.fired = TRUE /\ y.firing = TRUE
      /\ y.length = Len(x.list) /\ y.index = x.start /\ y.start = 1 /\ y.data = v
  BY DEF Lists
<1>7. Fire(x, v) = y
  BY <1>2
<1> HIDE DEF y
<1> QED
  BY <1>1, <1>4, <1>5, <1>6, <1>7

\* A fire that begins.
LEMMA FireFits ==
  ASSUME NEW x \in Lists, NEW v \in Nat, NEW fires \in Nat, v <= fires, x.alive, x.start >= 1,
         Rising(x.stack, v, fires), x.stack # <<>> => x.repeats
  PROVE  LoopFits(Fire(x, v), FALSE) /\ ValuesFit(Fire(x, v), fires)
<1>1. x.list \in Seq(Functions) /\ x.start \in Nat
  BY DEF Lists
<1> DEFINE y == Fire(x, v)
<1>2. /\ y.alive = x.alive /\ y.list = x.list /\ y.repeats = x.repeats /\ y.stack = x.stack
      /\ y.memory \in {None, v} /\ y.fired = TRUE /\ y.firing = TRUE
      /\ y.length = Len(x.list) /\ y.index = x.start /\ y.start = 1 /\ y.data = v
  BY FireParts
<1> HIDE DEF y
<1>3. LoopFits(y, FALSE)
  BY <1>1, <1>2 DEF LoopFits
<1>4. ValuesFit(y, fires)
  BY <1>2 DEF ValuesFit
<1> QED
  BY <1>3, <1>4 DEF y

LEMMA ConcatParts ==
  ASSUME NEW S, NEW a \in Seq(S), NEW b \in Seq(S)
  PROVE  /\ a \o b \in Seq(S) /\ Len(a \o b) = Len(a) + Len(b)
         /\ \A j \in 1 .. Len(a) + Len(b) :
              (a \o b)[j] = IF j <= Len(a) THEN a[j] ELSE b[j - Len(a)]
<1>1. Len(a) \in Nat /\ Len(b) \in Nat
  OBVIOUS
<1>2. a \o b \in Seq(S) /\ Len(a \o b) = Len(a) + Len(b)
  BY ConcatProperties
<1> QED
  BY <1>1, <1>2

LEMMA SpliceParts ==
  ASSUME NEW x \in Lists, NEW i \in DOMAIN x.list
  PROVE  /\ Splice(x, i) \in Lists
         /\ Splice(x, i).options = x.options /\ Splice(x, i).alive = x.alive
         /\ Splice(x, i).repeats = x.repeats /\ Splice(x, i).stack = x.stack
         /\ Splice(x, i).memory = x.memory /\ Splice(x, i).fired = x.fired
         /\ Splice(x, i).firing = x.firing /\ Splice(x, i).start = x.start
         /\ Splice(x, i).data = x.data
         /\ Len(Splice(x, i).list) = Len(x.list) - 1
         /\ \A j \in DOMAIN Splice(x, i).list :
              Splice(x, i).list[j] = x.list[IF j < i THEN j ELSE j + 1]
         /\ Splice(x, i).length = IF x.firing /\ i - 1 <= x.length THEN x.length - 1 ELSE x.length
         /\ Splice(x, i).index = IF x.firing /\ i <= x.index THEN x.index - 1 ELSE x.index
<1> DEFINE a == SubSeq(x.list, 1, i - 1)
           b == SubSeq(x.list, i + 1, Len(x.list))
           q == a \o b
           n == IF x.firing /\ i - 1 <= x.length THEN x.length - 1 ELSE x.length
           k == IF x.firing /\ i <= x.index THEN x.index - 1 ELSE x.index
<1>1. x.list \in Seq(Functions) /\ i \in 1 .. Len(x.list) /\ Len(x.list) \in Nat
      /\ x.length \in Int /\ x.index \in Int
  BY DEF Lists
<1>2. /\ a \in Seq(Functions) /\ Len(a) = i - 1
      /\ \A j \in 1 .. i - 1 : a[j] = x.list[j]
  BY <1>1
<1>3. /\ b \in Seq(Functions) /\ Len(b) = Len(x.list) - i
      /\ \A j \in 1 .. Len(x.list) - i : b[j] = x.list[i + j]
  BY <1>1
<1> HIDE DEF a, b
<1>4. /\ q \in Seq(Functions) /\ Len(q) = Len(a) + Len(b)
      /\ \A j \in 1 .. Len(a) + Len(b) : q[j] = IF j <= Len(a) THEN a[j] ELSE b[j - Len(a)]
  BY <1>2, <1>3, ConcatParts
<1> HIDE DEF q
<1>5. Len(q) = Len(x.list) - 1 /\ DOMAIN q = 1 .. Len(x.list) - 1
  BY <1>1, <1>2, <1>3, <1>4
<1>8. \A j \in DOMAIN q : q[j] = x.list[IF j < i THEN j ELSE j + 1]
  <2> TAKE j \in DOMAIN q
  <2>1. CASE j < i
    BY <1>1, <1>2, <1>4, <1>5, <2>1
  <2>2. CASE ~(j < i)
    <3>1. j - (i - 1) \in 1 .. Len(x.list) - i /\ i + (j - (i - 1)) = j + 1
      BY <1>1, <1>5, <2>2
    <3>2. q[j] = b[j - (i - 1)]
      BY <1>1, <1>2, <1>4, <1>5, <2>2
    <3>3. b[j - (i - 1)] = x.list[i + (j - (i - 1))]
      BY <1>3, <3>1
    <3> QED
      BY <2>2, <3>1, <3>2, <3>3
  <2> QED
    BY <2>1, <2>2
<1>6. Splice(x, i) = [x EXCEPT !.list = q, !.length = n, !.index = k]
  BY DEF Splice, q, a, b
<1>7. n \in Int /\ k \in Int
  BY <1>1
<1> HIDE DEF n, k
<1>9. /\ Splice(x, i) \in Lists
      /\ Splice(x, i).options = x.options /\ Splice(x, i).alive = x.alive
      /\ Splice(x, i).repeats = x.repeats /\ Splice(x, i).stack = x.stack
      /\ Splice(x, i).memory = x.memory /\ Splice(x, i).fired = x.fired
      /\ Splice(x, i).firing = x.firing /\ Splice(x, i).start = x.start
      /\ Splice(x, i).data = x.data
      /\ Splice(x, i).list = q /\ Splice(x, i).length = n /\ Splice(x, i).index = k
  BY <1>4, <1>6, <1>7 DEF Lists
<1> HIDE DEF Splice
<1> QED
  BY <1>4, <1>5, <1>8, <1>9, Zenon DEF n, k

LEMMA AddParts ==
  ASSUME NEW x \in Lists, NEW f \in Functions, x.alive
  PROVE  \E q \in Seq(Functions) :
           /\ \/ q = x.list
              \/ /\ Len(q) = Len(x.list) + 1 /\ q[Len(x.list) + 1] = f
                 /\ \A j \in DOMAIN x.list : q[j] = x.list[j]
           /\ x.firing => Add(x, f) = [x EXCEPT !.list = q, !.length = Len(q)]
           /\ ~x.firing => Add(x, f) = IF x.memory # None
                THEN Fire([x EXCEPT !.list = q, !.start = Len(x.list) + 1], x.memory)
                ELSE [x EXCEPT !.list = q]
<1>1. x.list \in Seq(Functions) /\ x.firing \in BOOLEAN
  BY DEF Lists
<1>2. CASE "unique" \in x.options /\ f \in FunctionsOf(x)
  <2>1. x = [x EXCEPT !.list = x.list]
    BY DEF Lists
  <2>2. [x EXCEPT !.length = Len(x.list)] = [x EXCEPT !.list = x.list, !.length = Len(x.list)]
    BY DEF Lists
  <2>3. [x EXCEPT !.start = Len(x.list) + 1] = [x EXCEPT !.list = x.list, !.start = Len(x.list) + 1]
    BY DEF Lists
  <2>4. x.firing => Add(x, f) = [x EXCEPT !.length = Len(x.list)]
    BY <1>2, Zenon DEF Add
  <2>5. ~x.firing => Add(x, f) = IF x.memory # None
          THEN Fire([x EXCEPT !.start = Len(x.list) + 1], x.memory) ELSE x
    BY <1>2, Zenon DEF Add
  <2> QED
    BY <1>1, <2>1, <2>2, <2>3, <2>4, <2>5, Zenon
<1>3. CASE ~("unique" \in x.options /\ f \in FunctionsOf(x))
  <2> DEFINE q == Append(x.list, f)
             m == [x EXCEPT !.list = Append(@, f)]
  <2>1. q \in Seq(Functions) /\ Len(q) = Len(x.list) + 1 /\ q[Len(x.list) + 1] = f
        /\ \A j \in DOMAIN x.list : q[j] = x.list[j]
    BY <1>1
  <2>2. m = [x EXCEPT !.list = q] /\ m.list = q
    BY DEF Lists
  <2>3. [m EXCEPT !.length = Len(q)] = [x EXCEPT !.list = q, !.length = Len(q)]
    BY DEF Lists
  <2>4. [m EXCEPT !.start = Len(x.list) + 1] = [x EXCEPT !.list = q, !.start = Len(x.list) + 1]
    BY DEF Lists
  <2>5. x.firing => Add(x, f) = [m EXCEPT !.length = Len(m.list)]
    BY <1>3, Zenon DEF Add
  <2>6. ~x.firing => Add(x, f) = IF x.memory # None
          THEN Fire([m EXCEPT !.start = Len(x.list) + 1], x.memory) ELSE m
    BY <1>3, Zenon DEF Add
  <2> HIDE DEF q, m
  <2> QED
    BY <2>1, <2>2, <2>3, <2>4, <2>5, <2>6, Zenon
<1> QED
  BY <1>2, <1>3

\* A list and what add() makes of it.
LEMMA LongerParts ==
  ASSUME NEW p \in Seq(Functions), NEW q \in Seq(Functions), NEW f,
         \/ q = p
         \/ Len(q) = Len(p) + 1 /\ q[Len(p) + 1] = f /\ \A j \in DOMAIN p : q[j] = p[j]
  PROVE  /\ DOMAIN p \subseteq DOMAIN q /\ \A j \in DOMAIN p : q[j] = p[j]
         /\ q # p => Len(p) + 1 \in DOMAIN q /\ q[Len(p) + 1] = f
         /\ \A j \in DOMAIN q : j \notin DOMAIN p => q # p /\ j = Len(p) + 1
         /\ Len(p) <= Len(q)
         /\ Len(p) + 1 \notin DOMAIN p /\ \A j \in DOMAIN q : Len(p) + 1 <= j => j \notin DOMAIN p
<1>1. /\ Len(p) \in Nat /\ Len(q) \in Nat /\ DOMAIN p = 1 .. Len(p) /\ DOMAIN q = 1 .. Len(q)
  OBVIOUS
<1>2. CASE q = p
  BY <1>1, <1>2
<1>3. CASE Len(q) = Len(p) + 1 /\ q[Len(p) + 1] = f /\ \A j \in DOMAIN p : q[j] = p[j]
  <2>1. q # p
    BY <1>1, <1>3
  <2> QED
    BY <1>1, <1>3, <2>1
<1> QED
  BY <1>2, <1>3

LEMMA DisableParts ==
  ASSUME NEW x \in Lists
  PROVE  /\ Disable(x) \in Lists
         /\ ~Disable(x).alive /\ Disable(x).list = <<>> /\ ~Disable(x).repeats
         /\ Disable(x).stack = <<>> /\ Disable(x).memory = None
         /\ Disable(x).fired = x.fired /\ Disable(x).firing = x.firing
         /\ Disable(x).length = x.length /\ Disable(x).index = x.index
         /\ Disable(x).start = x.start /\ Disable(x).data = x.data
<1>1. <<>> \in Seq(Functions) /\ <<>> \in Seq(Nat) /\ None \in Nat
  BY DEF None
<1>2. Disable(x) = [x EXCEPT !.alive = FALSE, !.list = <<>>, !.repeats = FALSE, !.stack = <<>>,
                             !.memory = None]
  BY DEF Disable
<1> QED
  BY <1>1, <1>2 DEF Lists

-----------------------------------------------------------------------------
(* remove(), while the function being called is somewhere in the list.       *)

AheadOwedBut(x, calling, owed, f) ==
  \A j \in Ahead(x, calling) : x.list[j] = f \/ x.list[j] \in owed \/ Twice(x.list, j)

LEMMA SpliceKeeps ==
  ASSUME NEW x \in Lists, NEW f, NEW i \in DOMAIN x.list, x.list[i] = f,
         NEW calling \in BOOLEAN, x.firing => calling, LoopFits(x, calling), NEW owed
  PROVE  /\ LoopFits(Splice(x, i), calling)
         /\ x.firing /\ OwedAhead(x, calling, owed \ {f})
              => OwedAhead(Splice(x, i), calling, owed \ {f})
         /\ x.firing /\ AheadOwedBut(x, calling, owed, f)
              => AheadOwedBut(Splice(x, i), calling, owed, f)
         /\ x.firing /\ x.index <= Len(x.list) => Splice(x, i).index <= Len(Splice(x, i).list)
<1> DEFINE z == Splice(x, i)
<1>1. /\ z \in Lists /\ z.alive = x.alive /\ z.repeats = x.repeats /\ z.fired = x.fired
      /\ z.firing = x.firing /\ z.start = x.start
      /\ Len(z.list) = Len(x.list) - 1
      /\ \A j \in DOMAIN z.list : z.list[j] = x.list[IF j < i THEN j ELSE j + 1]
      /\ z.length = IF x.firing /\ i - 1 <= x.length THEN x.length - 1 ELSE x.length
      /\ z.index = IF x.firing /\ i <= x.index THEN x.index - 1 ELSE x.index
  BY SpliceParts
<1>2. /\ Len(x.list) \in Nat /\ i \in 1 .. Len(x.list) /\ x.list # <<>>
      /\ DOMAIN x.list = 1 .. Len(x.list) /\ x.index \in Int /\ x.length \in Int
  BY DEF Lists
<1>3. DOMAIN z.list = 1 .. Len(x.list) - 1
  <2>1. DOMAIN z.list = 1 .. Len(z.list)
    BY <1>1 DEF Lists
  <2> QED
    BY <1>1, <2>1
<1> HIDE DEF z
<1>4. LoopFits(z, calling)
  BY <1>1, <1>2 DEF LoopFits
<1>5. ASSUME x.firing, OwedAhead(x, calling, owed \ {f}), NEW g \in owed \ {f}
      PROVE  \E j \in Ahead(z, calling) : z.list[j] = g
  <2>1. PICK j \in DOMAIN x.list : x.index <= j /\ j # x.index /\ x.list[j] = g
    BY <1>5 DEF OwedAhead, Ahead
  <2>2. j # i
    BY <1>5, <2>1
  <2> DEFINE k == IF j < i THEN j ELSE j - 1
  <2>3. k \in DOMAIN z.list /\ (IF k < i THEN k ELSE k + 1) = j
    BY <1>2, <1>3, <2>2
  <2>4. z.list[k] = g
    BY <1>1, <2>1, <2>3
  <2>5. z.index <= k /\ k # z.index
    BY <1>1, <1>2, <1>5, <2>1, <2>2
  <2> HIDE DEF k
  <2> QED
    BY <2>3, <2>4, <2>5 DEF Ahead
<1>6. ASSUME x.firing, AheadOwedBut(x, calling, owed, f), NEW k \in Ahead(z, calling)
      PROVE  z.list[k] = f \/ z.list[k] \in owed \/ Twice(z.list, k)
  <2> DEFINE j == IF k < i THEN k ELSE k + 1
  <2>1. k \in DOMAIN z.list /\ z.index <= k /\ k # z.index
    BY <1>6 DEF Ahead
  <2>2. j \in DOMAIN x.list /\ x.index <= j /\ j # x.index /\ z.list[k] = x.list[j]
    <3>1. k \in 1 .. Len(x.list) - 1 /\ z.list[k] = x.list[j]
      BY <1>1, <1>3, <2>1, Zenon
    <3>2. z.index = IF i <= x.index THEN x.index - 1 ELSE x.index
      BY <1>1, <1>6, Zenon
    <3>3. j \in 1 .. Len(x.list)
      BY <1>2, <3>1
    <3>4. x.index <= j /\ j # x.index
      <4> DEFINE a == x.index
                 b == z.index
      <4>1. a \in Int /\ i \in Int /\ k \in Int /\ b <= k /\ k # b
            /\ b = IF i <= a THEN a - 1 ELSE a
        BY <1>2, <2>1, <3>1, <3>2
      <4> HIDE DEF a, b
      <4>2. CASE k < i
        BY <4>1, <4>2 DEF a
      <4>3. CASE ~(k < i)
        BY <4>1, <4>3 DEF a
      <4> QED
        BY <4>2, <4>3
    <3> QED
      BY <1>2, <3>1, <3>3, <3>4
  <2>3. ASSUME x.list[j] # f, NEW n \in DOMAIN x.list, n # j, x.list[n] = x.list[j]
        PROVE  Twice(z.list, k)
    <3> DEFINE m == IF n < i THEN n ELSE n - 1
    <3>1. n # i
      BY <2>3
    <3>2. m \in DOMAIN z.list /\ (IF m < i THEN m ELSE m + 1) = n /\ m # k
      BY <1>2, <1>3, <2>1, <2>3, <3>1
    <3>3. z.list[m] = x.list[n]
      BY <1>1, <3>2
    <3> HIDE DEF m, j
    <3> QED
      BY <2>2, <2>3, <3>2, <3>3 DEF Twice
  <2> HIDE DEF j
  <2> QED
    BY <1>6, <2>2, <2>3 DEF AheadOwedBut, Ahead, Twice
<1>7. x.firing /\ x.index <= Len(x.list) => z.index <= Len(z.list)
  BY <1>1, <1>2
<1> QED
  BY <1>1, <1>4, <1>5, <1>6, <1>7 DEF z, OwedAhead, AheadOwedBut

\* The list x and what it is after some rounds.
Rounds(x, y, f, calling, owed) ==
  /\ y \in Lists /\ LoopFits(y, calling)
  /\ y.alive = x.alive /\ y.repeats = x.repeats /\ y.stack = x.stack /\ y.memory = x.memory
  /\ y.fired = x.fired /\ y.firing = x.firing /\ y.data = x.data
  /\ x.firing /\ OwedAhead(x, calling, owed \ {f}) => OwedAhead(y, calling, owed \ {f})
  /\ x.firing /\ AheadOwedBut(x, calling, owed, f) => AheadOwedBut(y, calling, owed, f)
  /\ x.firing /\ x.index <= Len(x.list) => y.index <= Len(y.list)

LEMMA RoundKeeps ==
  ASSUME NEW x, NEW y, NEW f, NEW calling \in BOOLEAN, NEW owed, y.firing => calling,
         Rounds(x, y, f, calling, owed)
  PROVE  /\ Rounds(x, RemoveFirst(y, f), f, calling, owed)
         /\ \/ f \notin FunctionsOf(RemoveFirst(y, f))
            \/ Len(RemoveFirst(y, f).list) = Len(y.list) - 1
<1>1. CASE f \notin FunctionsOf(y)
  BY <1>1 DEF RemoveFirst
<1>2. CASE f \in FunctionsOf(y)
  <2> DEFINE S == {i \in DOMAIN y.list : y.list[i] = f}
             IsFirst(i) == y.list[i] = f /\ \A j \in 1 .. i - 1 : y.list[j] # f
             i == CHOOSE i \in DOMAIN y.list : IsFirst(i)
  <2>1. y.list \in Seq(Functions) /\ DOMAIN y.list = 1 .. Len(y.list) /\ Len(y.list) \in Nat
    BY DEF Rounds, Lists
  <2>2. \E m \in DOMAIN y.list : IsFirst(m)
    <3>1. S \in SUBSET Nat /\ S # {}
      BY <1>2, <2>1 DEF FunctionsOf
    <3> HIDE DEF S
    <3>2. PICK m \in S : \A n \in S : m =< n
      BY <3>1, FirstIsThere
    <3>3. m \in DOMAIN y.list /\ y.list[m] = f
      BY DEF S
    <3>4. \A j \in 1 .. m - 1 : j \in DOMAIN y.list /\ ~(m =< j)
      BY <2>1, <3>3
    <3>5. \A j \in 1 .. m - 1 : y.list[j] # f
      BY <3>2, <3>4 DEF S
    <3> QED
      BY <3>3, <3>5
  <2>3. i \in DOMAIN y.list /\ IsFirst(i)
    BY <2>2
  <2>4. RemoveFirst(y, f) = Splice(y, i)
    BY <1>2, Zenon DEF RemoveFirst
  <2> HIDE DEF i
  <2>5. y.list[i] = f
    BY <2>3
  <2> DEFINE z == Splice(y, i)
  <2>6. y \in Lists /\ LoopFits(y, calling)
    BY DEF Rounds
  <2>7. /\ z \in Lists /\ z.alive = y.alive /\ z.repeats = y.repeats /\ z.stack = y.stack
        /\ z.memory = y.memory /\ z.fired = y.fired /\ z.firing = y.firing /\ z.data = y.data
        /\ Len(z.list) = Len(y.list) - 1
    BY <2>3, <2>6, SpliceParts
  <2>8. /\ LoopFits(z, calling)
        /\ y.firing /\ OwedAhead(y, calling, owed \ {f}) => OwedAhead(z, calling, owed \ {f})
        /\ y.firing /\ AheadOwedBut(y, calling, owed, f) => AheadOwedBut(z, calling, owed, f)
        /\ y.firing /\ y.index <= Len(y.list) => z.index <= Len(z.list)
    BY <2>3, <2>5, <2>6, SpliceKeeps
  <2> HIDE DEF z
  <2>9. Rounds(x, z, f, calling, owed)
    BY <2>7, <2>8 DEF Rounds
  <2> QED
    BY <2>4, <2>7, <2>9 DEF z
<1> QED
  BY <1>1, <1>2

LEMMA RemoveKeeps ==
  ASSUME NEW x \in Lists, NEW f, NEW calling \in BOOLEAN, x.firing => calling,
         LoopFits(x, calling), NEW owed
  PROVE  Rounds(x, Remove(x, f), f, calling, owed) /\ f \notin FunctionsOf(Remove(x, f))
<1> DEFINE N == Len(x.list)
<1>1. N \in Nat
  BY DEF Lists
<1>2. PICK g : Removes(g, x, f, N) /\ Remove(x, f) = g[N]
  BY <1>1, RemovesOneByOne
<1> DEFINE Fits(n) == /\ Rounds(x, g[n], f, calling, owed)
                      /\ f \notin FunctionsOf(g[n]) \/ Len(g[n].list) + n <= N
           B == {n \in 0 .. N : ~Fits(n)}
<1>3. Fits(0)
  <2>1. g[0] = x
    BY <1>1, <1>2 DEF Removes
  <2> QED
    BY <1>1, <2>1 DEF Rounds
<1>4. ASSUME NEW n \in 1 .. N, Fits(n - 1) PROVE Fits(n)
  <2>1. g[n] = RemoveFirst(g[n - 1], f)
    BY <1>1, <1>2 DEF Removes
  <2>2. g[n - 1].firing = x.firing
    BY <1>4 DEF Rounds
  <2>3. /\ Rounds(x, g[n], f, calling, owed)
        /\ f \notin FunctionsOf(g[n]) \/ Len(g[n].list) = Len(g[n - 1].list) - 1
    <3> DEFINE y == g[n - 1]
    <3>1. Rounds(x, y, f, calling, owed) /\ (y.firing => calling)
      BY <1>4, <2>2
    <3> HIDE DEF y, Fits, N
    <3>2. /\ Rounds(x, RemoveFirst(y, f), f, calling, owed)
          /\ \/ f \notin FunctionsOf(RemoveFirst(y, f))
             \/ Len(RemoveFirst(y, f).list) = Len(y.list) - 1
      BY <3>1, RoundKeeps, Zenon
    <3> QED
      BY <2>1, <3>2, Zenon DEF y
  <2>4. f \notin FunctionsOf(g[n - 1]) => g[n] = g[n - 1]
    BY <2>1 DEF RemoveFirst
  <2>5. Len(g[n - 1].list) \in Nat
    BY <1>4 DEF Rounds, Lists
  <2>6. f \notin FunctionsOf(g[n]) \/ Len(g[n].list) + n <= N
    <3> DEFINE a == Len(g[n].list)
               b == Len(g[n - 1].list)
    <3>1. f \notin FunctionsOf(g[n - 1]) \/ b + (n - 1) <= N
      BY <1>4
    <3>2. b \in Nat /\ (f \in FunctionsOf(g[n]) => a = b - 1)
      BY <2>3, <2>5
    <3>3. f \in FunctionsOf(g[n]) => f \in FunctionsOf(g[n - 1])
      BY <2>4
    <3> HIDE DEF a, b, N
    <3>4. a = b - 1 /\ b + (n - 1) <= N => a + n <= N
      BY <1>1, <3>2
    <3> QED
      BY <3>1, <3>2, <3>3, <3>4, Zenon DEF a
  <2> QED
    BY <2>3, <2>6
<1>5. B = {}
  <2> SUFFICES ASSUME B # {} PROVE FALSE
    OBVIOUS
  <2>1. B \in SUBSET Nat
    BY <1>1
  <2> HIDE DEF Fits
  <2>2. \A n \in B : n \in 0 .. N /\ ~Fits(n)
    OBVIOUS
  <2>3. \A n \in 0 .. N : n \notin B => Fits(n)
    OBVIOUS
  <2> HIDE DEF B
  <2>4. PICK m \in B : \A n \in B : m =< n
    BY <2>1, FirstIsThere
  <2>5. m # 0 /\ m \in 1 .. N
    BY <1>3, <2>2
  <2>6. m - 1 \in 0 .. N /\ m - 1 \notin B
    BY <1>1, <2>4, <2>5
  <2> QED
    BY <1>4, <2>2, <2>3, <2>5, <2>6
<1>6. Fits(N)
  <2>1. N \in 0 .. N /\ N \notin B
    BY <1>1, <1>5
  <2> HIDE DEF Fits
  <2> QED
    BY <2>1
<1>7. f \notin FunctionsOf(g[N])
  <2>1. Len(g[N].list) \in Nat /\ DOMAIN g[N].list = 1 .. Len(g[N].list)
    BY <1>6 DEF Rounds, Lists
  <2>2. f \notin FunctionsOf(g[N]) \/ Len(g[N].list) + N <= N
    BY <1>6
  <2>3. Len(g[N].list) + N <= N => DOMAIN g[N].list = {}
    <3> DEFINE n == Len(g[N].list)
    <3>1. n \in Nat /\ DOMAIN g[N].list = 1 .. n
      BY <2>1
    <3> HIDE DEF n, N
    <3>2. n + N <= N => 1 .. n = {}
      BY <1>1, <3>1
    <3> QED
      BY <3>1, <3>2 DEF n
  <2> QED
    BY <2>2, <2>3 DEF FunctionsOf
<1> QED
  BY <1>2, <1>6, <1>7

-----------------------------------------------------------------------------
(* The steps.  A value is never fired after a later one, nor any once the    *)
(* list is locked.                                                           *)

ValuesInOrder(x, y) == y.data >= x.data /\ (x.fired /\ ~x.repeats => y.data = x.data)
Kept(x, y) == Inv(y) /\ ValuesInOrder(x.l, y.l)

LEMMA StateParts ==
  ASSUME Inv(s)
  PROVE  /\ s.l \in Lists /\ s.calling \in BOOLEAN /\ s.fires \in Nat
         /\ s.owed \subseteq Functions /\ s.emptied \in BOOLEAN
         /\ s.l.list \in Seq(Functions) /\ DOMAIN s.l.list = 1 .. Len(s.l.list)
         /\ Len(s.l.list) \in Nat /\ s.l.index \in Int /\ s.l.length \in Int
         /\ s.l.data \in Nat /\ s.l.memory \in Nat /\ s.l.stack \in Seq(Nat)
         /\ s.l.alive \in BOOLEAN /\ s.l.firing \in BOOLEAN /\ s.l.repeats \in BOOLEAN
         /\ s.l.fired \in BOOLEAN /\ s.l.start \in Nat
BY DEF Inv, States, Lists

LEMMA ToParts ==
  ASSUME Inv(s), NEW m \in Lists, NEW owed \in SUBSET Functions, To(m, owed)
  PROVE  /\ s' \in States /\ s'.l = m /\ s'.calling = s.calling /\ s'.fires = s.fires
         /\ s'.owed = owed \cap FunctionsOf(m)
         /\ s'.emptied = (s.emptied /\ (~m.firing \/ s.calling))
<1>1. s \in States
  BY DEF Inv
<1> DEFINE e == s.emptied /\ (~m.firing \/ s.calling)
           o == owed \cap FunctionsOf(m)
<1>2. e \in BOOLEAN /\ o \in SUBSET Functions
  OBVIOUS
<1>3. s' = [s EXCEPT !.l = m, !.owed = o, !.emptied = e]
  BY <1>1 DEF To, States
<1> HIDE DEF e, o
<1>4. /\ s' \in States /\ s'.l = m /\ s'.calling = s.calling /\ s'.fires = s.fires
      /\ s'.owed = o /\ s'.emptied = e
  BY <1>1, <1>2, <1>3 DEF States
<1> QED
  BY <1>4 DEF e, o

LEMMA KeptIf ==
  ASSUME s' \in States, LoopFits(s'.l, s'.calling), ValuesFit(s'.l, s'.fires),
         OwedFits(s'.l, s'.calling, s'.owed, s'.emptied), ValuesInOrder(s.l, s'.l)
  PROVE  Kept(s, s')
BY DEF Kept, Inv

LEMMA CallKeeps ==
  ASSUME Inv(s), Call
  PROVE  Kept(s, s')
<1>1. s \in States /\ s.calling = FALSE /\ l.firing /\ l.alive /\ l.index <= l.length
  BY DEF Inv, States, Call, Calls
<1>2. /\ s' \in States /\ s'.l = s.l /\ s'.calling = TRUE /\ s'.fires = s.fires
      /\ s'.owed = s.owed \ {Called(l)} /\ s'.emptied = s.emptied
  BY <1>1 DEF Call, States
<1>3. LoopFits(s'.l, s'.calling) /\ ValuesFit(s'.l, s'.fires)
  BY <1>1, <1>2, StateParts DEF Inv, LoopFits, l
<1>4. OwedAhead(s.l, FALSE, s.owed) => OwedAhead(s.l, TRUE, s'.owed)
  BY <1>2 DEF OwedAhead, Ahead, Called, l
<1>5. AheadOwed(s.l, FALSE, s.owed) => AheadOwed(s.l, TRUE, s'.owed)
  <2> SUFFICES ASSUME AheadOwed(s.l, FALSE, s.owed), NEW j \in Ahead(s.l, TRUE)
               PROVE  s.l.list[j] \in s'.owed \/ Twice(s.l.list, j)
    BY DEF AheadOwed
  <2>1. j \in Ahead(s.l, FALSE) /\ j # s.l.index /\ j \in DOMAIN s.l.list
    BY DEF Ahead
  <2>2. s.l.index \in DOMAIN s.l.list
    BY <1>1, StateParts DEF Inv, LoopFits, l
  <2> QED
    BY <1>2, <2>1, <2>2 DEF AheadOwed, Twice, Called, l
<1>6. OwedFits(s'.l, s'.calling, s'.owed, s'.emptied)
  <2>1. s.l.index <= Len(s.l.list)
    BY <1>1 DEF Inv, LoopFits, l
  <2> QED
    BY <1>1, <1>2, <1>4, <1>5, <2>1 DEF Inv, OwedFits, l
<1> QED
  BY <1>2, <1>3, <1>6, StateParts DEF Kept, Inv, ValuesInOrder

LEMMA ReturnKeeps ==
  ASSUME Inv(s), NEW stops \in BOOLEAN, Return(stops)
  PROVE  Kept(s, s')
<1>1. s \in States /\ s.calling = TRUE /\ l.firing /\ l \in Lists
  BY DEF Inv, States, Return, LoopFits, l
<1>2. /\ l.start = 1 /\ l.fired /\ l.index >= 0 /\ (l.alive => l.length = Len(l.list))
      /\ (~l.alive => l.list = <<>> /\ ~l.repeats)
      /\ ValuesFit(l, s.fires) /\ OwedFits(l, TRUE, s.owed, s.emptied)
  BY <1>1 DEF Inv, LoopFits, l
<1>3. DOMAIN l.list = 1 .. Len(l.list) /\ Len(l.list) \in Nat /\ l.length \in Int
      /\ l.index \in Int /\ l.data \in Nat
  BY <1>1 DEF Lists
<1>4. CASE stops /\ "stopOnFalse" \in l.options
  <2> DEFINE m == [l EXCEPT !.memory = None, !.index = l.length + 1]
  <2>1. s' = [s EXCEPT !.l = m, !.calling = FALSE, !.owed = {}]
    BY <1>4, Zenon DEF Return, Returned
  <2>2. m \in Lists
    <3>1. None \in Nat /\ l.length + 1 \in Int
      BY <1>3 DEF None
    <3> QED
      BY <1>1, <3>1 DEF Lists
  <2>3. /\ m.list = l.list /\ m.length = l.length /\ m.index = l.length + 1
        /\ m.start = l.start /\ m.firing = l.firing /\ m.fired = l.fired
        /\ m.alive = l.alive /\ m.repeats = l.repeats /\ m.memory = None
        /\ m.data = l.data /\ m.stack = l.stack
    BY <1>1 DEF Lists
  <2> HIDE DEF m
  <2>4. /\ s' \in States /\ s'.l = m /\ s'.calling = FALSE /\ s'.fires = s.fires
        /\ s'.owed = {} /\ s'.emptied = s.emptied
    BY <1>1, <2>1, <2>2 DEF States
  <2>5. l.alive => Ahead(m, FALSE) = {}
    BY <1>2, <1>3, <2>3 DEF Ahead
  <2>6. ~l.alive => Ahead(m, FALSE) = {}
    BY <1>2, <2>3 DEF Ahead
  <2>7. l.alive => m.index >= 1
    BY <1>2, <1>3, <2>3
  <2>8. OwedFits(m, FALSE, {}, s.emptied)
    BY <1>1, <2>3, <2>5, <2>6 DEF OwedFits, OwedAhead, AheadOwed
  <2>9. ValuesFit(m, s.fires)
    BY <1>1, <1>2, <2>3 DEF ValuesFit
  <2>10. LoopFits(m, FALSE)
    BY <1>1, <1>2, <2>3, <2>7 DEF LoopFits
  <2> QED
    <3>1. ValuesInOrder(l, m)
      BY <1>3, <2>3 DEF ValuesInOrder
    <3> QED
      BY <2>4, <2>8, <2>9, <2>10, <3>1, KeptIf, Zenon DEF l
<1>5. CASE ~(stops /\ "stopOnFalse" \in l.options)
  <2> DEFINE m == [l EXCEPT !.index = @ + 1]
  <2>1. s' = [s EXCEPT !.l = m, !.calling = FALSE, !.owed = s.owed]
    BY <1>5, Zenon DEF Return, Returned
  <2>2. m \in Lists
    <3> DEFINE n == l.index + 1
    <3>1. n \in Int
      BY <1>3
    <3>2. m = [l EXCEPT !.index = n]
      BY <1>1 DEF Lists
    <3> HIDE DEF n, m
    <3> QED
      BY <1>1, <3>1, <3>2 DEF Lists
  <2>3. /\ m.list = l.list /\ m.length = l.length /\ m.index = l.index + 1
        /\ m.start = l.start /\ m.firing = l.firing /\ m.fired = l.fired
        /\ m.alive = l.alive /\ m.repeats = l.repeats /\ m.memory = l.memory
        /\ m.data = l.data /\ m.stack = l.stack
    BY <1>1 DEF Lists
  <2> HIDE DEF m
  <2>4. /\ s' \in States /\ s'.l = m /\ s'.calling = FALSE /\ s'.fires = s.fires
        /\ s'.owed = s.owed /\ s'.emptied = s.emptied
    BY <1>1, <2>1, <2>2 DEF States
  <2>5. Ahead(m, FALSE) = Ahead(l, TRUE)
    BY <1>3, <2>3 DEF Ahead
  <2>6. OwedFits(m, FALSE, s.owed, s.emptied)
    BY <1>1, <1>2, <2>3, <2>5 DEF OwedFits, OwedAhead, AheadOwed
  <2>7. ValuesFit(m, s.fires)
    BY <1>2, <2>3 DEF ValuesFit
  <2>8. LoopFits(m, FALSE)
    BY <1>1, <1>2, <1>3, <2>3 DEF LoopFits
  <2> QED
    <3>1. ValuesInOrder(l, m)
      BY <1>3, <2>3 DEF ValuesInOrder
    <3> QED
      BY <2>4, <2>6, <2>7, <2>8, <3>1, KeptIf, Zenon DEF l
<1> QED
  BY <1>4, <1>5

LEMMA EndOfFireKeeps ==
  ASSUME Inv(s), EndOfFire
  PROVE  Kept(s, s')
<1>1. /\ s \in States /\ s.calling = FALSE /\ l.firing /\ l \in Lists
      /\ ~(l.alive /\ l.index <= l.length)
  BY DEF Inv, States, EndOfFire, Calls, l
<1>2. LoopFits(l, FALSE) /\ ValuesFit(l, s.fires) /\ OwedFits(l, FALSE, s.owed, s.emptied)
  BY <1>1 DEF Inv, l
<1>3. /\ DOMAIN l.list = 1 .. Len(l.list) /\ Len(l.list) \in Nat /\ l.index \in Int
      /\ l.length \in Int /\ s.owed \in SUBSET Functions /\ l.stack \in Seq(Nat)
      /\ l.alive \in BOOLEAN /\ l.repeats \in BOOLEAN /\ l.data \in Nat
      /\ s.emptied \in BOOLEAN
  BY <1>1 DEF Lists, States, l
<1> DEFINE z == [l EXCEPT !.firing = FALSE]
<1>4. /\ z \in Lists /\ z.list = l.list /\ z.length = l.length /\ z.index = l.index
      /\ z.start = l.start /\ z.firing = FALSE /\ z.fired = l.fired
      /\ z.alive = l.alive /\ z.repeats = l.repeats /\ z.memory = l.memory
      /\ z.data = l.data /\ z.stack = l.stack
  BY <1>1 DEF Lists
<1> DEFINE m == AfterLoop(l)
<1>5. To(m, IF m.firing THEN FunctionsOf(m) ELSE s.owed)
  BY DEF EndOfFire
<1>6. l.alive /\ ~s.emptied => s.owed = {}
  <2>1. l.alive => Ahead(l, FALSE) = {}
    BY <1>1, <1>2, <1>3 DEF Ahead, LoopFits
  <2> QED
    BY <1>1, <1>2, <2>1 DEF OwedFits, OwedAhead
\* The list lies still, as it is, emptied or disabled.
<1>7. ASSUME m \in Lists, m.firing = FALSE, LoopFits(m, FALSE), ValuesFit(m, s.fires),
             m.alive => l.alive, m.data = l.data
      PROVE  Kept(s, s')
  <2>1. To(m, s.owed)
    BY <1>5, <1>7
  <2> HIDE DEF m
  <2>2. /\ s' \in States /\ s'.l = m /\ s'.calling = FALSE /\ s'.fires = s.fires
        /\ s'.owed \subseteq s.owed /\ s'.emptied = s.emptied
    BY <1>1, <1>3, <1>7, <2>1, ToParts
  <2>3. OwedFits(m, FALSE, s'.owed, s.emptied)
    BY <1>6, <1>7, <2>2 DEF OwedFits
  <2> QED
    <3>1. ValuesInOrder(l, m)
      BY <1>3, <1>7 DEF ValuesInOrder
    <3> QED
      BY <1>7, <2>2, <2>3, <3>1, KeptIf, Zenon DEF l
<1>8. CASE ~l.alive
  <2>1. m = z
    BY <1>8, Zenon DEF AfterLoop
  <2> HIDE DEF z, m
  <2>2. l.stack = <<>>
    BY <1>2, <1>8 DEF LoopFits, ValuesFit
  <2>3. LoopFits(m, FALSE) /\ ValuesFit(m, s.fires)
    BY <1>1, <1>2, <1>4, <1>8, <2>1, <2>2 DEF LoopFits, ValuesFit
  <2> QED
    BY <1>4, <1>7, <2>1, <2>3
<1>9. CASE l.alive /\ l.repeats /\ l.stack = <<>>
  <2>1. m = z
    BY <1>9, Zenon DEF AfterLoop
  <2> HIDE DEF z, m
  <2>2. LoopFits(m, FALSE) /\ ValuesFit(m, s.fires)
    BY <1>1, <1>2, <1>4, <1>9, <2>1 DEF LoopFits, ValuesFit
  <2> QED
    BY <1>4, <1>7, <2>1, <2>2
<1>10. CASE l.alive /\ ~l.repeats
  <2>1. m = IF l.memory # None THEN [z EXCEPT !.list = <<>>] ELSE Disable(z)
    BY <1>10, Zenon DEF AfterLoop
  <2>2. l.stack = <<>>
    BY <1>2, <1>10 DEF ValuesFit
  <2>3. CASE l.memory # None
    <3> DEFINE y == [z EXCEPT !.list = <<>>]
    <3> HIDE DEF z, m
    <3>4. <<>> \in Seq(Functions)
      OBVIOUS
    <3>1. /\ y \in Lists /\ y.list = <<>>
          /\ y.start = z.start /\ y.firing = z.firing /\ y.fired = z.fired
          /\ y.alive = z.alive /\ y.repeats = z.repeats /\ y.memory = z.memory
          /\ y.data = z.data /\ y.stack = z.stack
      BY <1>4, <3>4 DEF Lists
    <3>2. m = y
      BY <2>1, <2>3
    <3> HIDE DEF y
    <3>3. LoopFits(m, FALSE) /\ ValuesFit(m, s.fires)
      BY <1>2, <1>4, <1>10, <2>2, <3>1, <3>2 DEF LoopFits, ValuesFit
    <3> QED
      BY <1>4, <1>7, <3>1, <3>2, <3>3
  <2>4. CASE l.memory = None
    <3> HIDE DEF z, m
    <3>1. m = Disable(z)
      BY <2>1, <2>4
    <3>2. /\ m \in Lists /\ m.alive = FALSE /\ m.list = <<>> /\ m.repeats = FALSE
          /\ m.stack = <<>> /\ m.memory = None /\ m.firing = FALSE
          /\ m.start = l.start /\ m.data = l.data
      BY <1>4, <3>1, DisableParts DEF Lists
    <3>3. LoopFits(m, FALSE) /\ ValuesFit(m, s.fires)
      BY <1>2, <3>2 DEF LoopFits, ValuesFit, Rising
    <3> QED
      BY <1>7, <3>2, <3>3
  <2> QED
    BY <2>3, <2>4
<1>11. CASE l.alive /\ l.repeats /\ l.stack # <<>>
  <2> DEFINE v == Head(l.stack)
             y == [z EXCEPT !.stack = Tail(@)]
  <2>1. m = Fire(y, v)
    BY <1>11, Zenon DEF AfterLoop
  <2>2. /\ Tail(l.stack) \in Seq(Nat) /\ v \in Nat /\ v = l.stack[1]
        /\ 1 \in DOMAIN l.stack /\ DOMAIN Tail(l.stack) = 1 .. Len(l.stack) - 1
        /\ \A i \in DOMAIN Tail(l.stack) : /\ Tail(l.stack)[i] = l.stack[i + 1]
                                           /\ i + 1 \in DOMAIN l.stack
        /\ DOMAIN l.stack = 1 .. Len(l.stack) /\ Len(l.stack) \in Nat
    BY <1>3, <1>11
  <2>3. l.data <= v /\ v <= s.fires /\ Rising(Tail(l.stack), v, s.fires)
    <3>1. Rising(l.stack, l.data, s.fires)
      BY <1>2 DEF ValuesFit
    <3>2. /\ \A i \in DOMAIN l.stack : l.data <= l.stack[i] /\ l.stack[i] <= s.fires
          /\ \A i, j \in DOMAIN l.stack : i <= j => l.stack[i] <= l.stack[j]
      BY <3>1 DEF Rising
    <3>3. l.data <= v /\ v <= s.fires
      BY <2>2, <3>2
    <3> DEFINE q == Tail(l.stack)
    <3>4. \A i \in DOMAIN q : q[i] = l.stack[i + 1] /\ i + 1 \in DOMAIN l.stack /\ i \in Nat
      BY <2>2
    <3>5. v = l.stack[1] /\ 1 \in DOMAIN l.stack
      BY <2>2
    <3> HIDE DEF v, q
    <3>6. \A i \in DOMAIN q : v <= q[i] /\ q[i] <= s.fires
      BY <3>2, <3>4, <3>5
    <3>7. \A i, j \in DOMAIN q : i <= j => q[i] <= q[j]
      BY <3>2, <3>4
    <3> QED
      BY <3>3, <3>6, <3>7 DEF Rising, q
  <2>4. /\ y \in Lists /\ y.stack = Tail(l.stack) /\ y.list = l.list
        /\ y.start = 1 /\ y.firing = FALSE /\ y.fired = l.fired
        /\ y.alive /\ y.repeats = l.repeats
    <3>1. l.start = 1
      BY <1>2 DEF LoopFits
    <3> HIDE DEF z
    <3> QED
      BY <1>4, <1>11, <2>2, <3>1 DEF Lists
  <2> HIDE DEF y, z, v, m
  <2>5. /\ m \in Lists /\ m.list = l.list /\ m.alive /\ m.firing = TRUE
        /\ m.index = 1 /\ m.data = v
    BY <2>1, <2>2, <2>4, FireParts
  <2>6. LoopFits(m, FALSE) /\ ValuesFit(m, s.fires)
    <3>1. s.fires \in Nat
      BY <1>1 DEF States
    <3>2. y.alive /\ y.start >= 1 /\ (y.stack # <<>> => y.repeats)
      BY <1>11, <2>4
    <3>3. Rising(y.stack, v, s.fires)
      BY <2>3, <2>4
    <3> QED
      BY <2>1, <2>2, <2>3, <2>4, <3>1, <3>2, <3>3, FireFits
  <2>7. FunctionsOf(m) \in SUBSET Functions
    BY <2>5 DEF FunctionsOf, Lists
  <2>8. To(m, FunctionsOf(m))
    BY <1>5, <2>5
  <2>9. /\ s' \in States /\ s'.l = m /\ s'.calling = FALSE /\ s'.fires = s.fires
        /\ s'.owed = FunctionsOf(m) /\ s'.emptied = FALSE
    <3>1. /\ s' \in States /\ s'.l = m /\ s'.calling = s.calling /\ s'.fires = s.fires
          /\ s'.owed = FunctionsOf(m) \cap FunctionsOf(m)
          /\ s'.emptied = (s.emptied /\ (~m.firing \/ s.calling))
      BY <2>5, <2>7, <2>8, ToParts
    <3> QED
      BY <1>1, <2>5, <3>1
  <2>10. Ahead(m, FALSE) = DOMAIN m.list
    <3>1. DOMAIN m.list \subseteq Nat \ {0}
      BY <1>3, <2>5
    <3> QED
      BY <2>5, <3>1 DEF Ahead
  <2>11. OwedFits(m, FALSE, FunctionsOf(m), FALSE)
    BY <2>5, <2>10 DEF OwedFits, OwedAhead, AheadOwed, FunctionsOf
  <2>12. v >= l.data /\ l.repeats
    BY <1>3, <1>11, <2>2, <2>3
  <2> QED
    <3>1. ValuesInOrder(l, m)
      BY <2>5, <2>12 DEF ValuesInOrder
    <3> QED
      BY <2>6, <2>9, <2>11, <3>1, KeptIf, Zenon DEF l
<1> QED
  BY <1>3, <1>8, <1>9, <1>10, <1>11

\* What the operations of the page find.
LEMMA InvParts ==
  ASSUME Inv(s)
  PROVE  /\ s \in States /\ l \in Lists /\ s.calling \in BOOLEAN /\ s.fires \in Nat
         /\ s.owed \in SUBSET Functions /\ s.emptied \in BOOLEAN
         /\ LoopFits(l, s.calling) /\ ValuesFit(l, s.fires)
         /\ OwedFits(l, s.calling, s.owed, s.emptied)
         /\ l.list \in Seq(Functions) /\ DOMAIN l.list = 1 .. Len(l.list)
         /\ Len(l.list) \in Nat /\ l.index \in Int /\ l.length \in Int
         /\ l.data \in Nat /\ l.memory \in Nat /\ l.stack \in Seq(Nat)
         /\ l.alive \in BOOLEAN /\ l.firing \in BOOLEAN /\ l.repeats \in BOOLEAN
BY StateParts DEF Inv, l

LEMMA RemoveFunctionKeeps ==
  ASSUME Inv(s), NEW f \in Functions, RemoveFunction(f)
  PROVE  Kept(s, s')
<1> DEFINE m == Remove(l, f)
<1>1. l.firing => s.calling
  BY DEF RemoveFunction, MayOperate
<1>2. To(m, s.owed)
  BY DEF RemoveFunction
<1>3. Rounds(l, m, f, s.calling, s.owed) /\ f \notin FunctionsOf(m)
  BY <1>1, InvParts, RemoveKeeps
<1> HIDE DEF m
<1>4. /\ m \in Lists /\ LoopFits(m, s.calling) /\ m.alive = l.alive
      /\ m.repeats = l.repeats /\ m.stack = l.stack /\ m.memory = l.memory
      /\ m.firing = l.firing /\ m.data = l.data
  BY <1>3 DEF Rounds
<1>5. /\ s' \in States /\ s'.l = m /\ s'.calling = s.calling /\ s'.fires = s.fires
      /\ s'.owed = s.owed \cap FunctionsOf(m)
      /\ s'.emptied = (s.emptied /\ (~m.firing \/ s.calling))
  BY <1>2, <1>4, InvParts, ToParts
<1>6. s'.emptied = s.emptied
  BY <1>1, <1>4, <1>5, InvParts
<1>7. f \notin s'.owed /\ s'.owed \subseteq s.owed \ {f}
  BY <1>3, <1>5
<1>8. OwedFits(l, s.calling, s.owed, s.emptied)
  BY InvParts
<1>9. m.firing /\ m.alive /\ ~s.emptied => OwedAhead(m, s.calling, s'.owed)
  <2> SUFFICES ASSUME m.firing, m.alive, ~s.emptied PROVE OwedAhead(m, s.calling, s'.owed)
    OBVIOUS
  <2>1. OwedAhead(l, s.calling, s.owed \ {f})
    BY <1>4, <1>8 DEF OwedFits, OwedAhead
  <2>2. OwedAhead(m, s.calling, s.owed \ {f})
    BY <1>3, <1>4, <2>1 DEF Rounds
  <2> QED
    BY <1>7, <2>2 DEF OwedAhead
<1>10. m.firing => AheadOwed(m, s.calling, s'.owed)
  <2> SUFFICES ASSUME m.firing, NEW j \in Ahead(m, s.calling)
               PROVE  m.list[j] \in s'.owed \/ Twice(m.list, j)
    BY DEF AheadOwed
  <2>1. AheadOwedBut(l, s.calling, s.owed, f)
    BY <1>4, <1>8 DEF OwedFits, AheadOwed, AheadOwedBut
  <2>2. AheadOwedBut(m, s.calling, s.owed, f)
    BY <1>3, <1>4, <2>1 DEF Rounds
  <2>3. m.list[j] \in FunctionsOf(m)
    BY DEF Ahead, FunctionsOf
  <2> QED
    BY <1>3, <1>5, <2>2, <2>3 DEF AheadOwedBut
<1>13. s.calling /\ m.alive /\ ~s.emptied => m.index <= Len(m.list)
  <2>1. s.calling => l.firing
    BY InvParts DEF LoopFits
  <2> QED
    BY <1>3, <1>4, <1>8, <2>1 DEF OwedFits, Rounds
<1>11. OwedFits(m, s.calling, s'.owed, s.emptied)
  BY <1>4, <1>7, <1>8, <1>9, <1>10, <1>13 DEF OwedFits
<1>12. ValuesFit(m, s.fires) /\ ValuesInOrder(l, m)
  BY <1>4, InvParts DEF ValuesFit, ValuesInOrder
<1> QED
  BY <1>4, <1>5, <1>6, <1>11, <1>12, KeptIf, Zenon DEF l

LEMMA EmptyListKeeps ==
  ASSUME Inv(s), EmptyList
  PROVE  Kept(s, s')
<1> DEFINE m == Empty(l)
<1>1. l.firing => s.calling
  BY DEF EmptyList, MayOperate
<1>2. /\ m \in Lists /\ m.alive = TRUE /\ m.list = <<>> /\ m.length = 0
      /\ m.repeats = l.repeats /\ m.stack = l.stack /\ m.memory = l.memory
      /\ m.firing = l.firing /\ m.fired = l.fired /\ m.data = l.data
      /\ m.index = l.index /\ m.start = l.start
  <2>1. <<>> \in Seq(Functions) /\ l \in Lists /\ 0 \in Int
    BY InvParts
  <2>2. m = [l EXCEPT !.alive = TRUE, !.list = <<>>, !.length = 0]
    BY DEF Empty
  <2> HIDE DEF m
  <2>3. m \in Lists
    BY <2>1, <2>2 DEF Lists
  <2> QED
    BY <2>1, <2>2, <2>3 DEF Lists
<1>3. s' = [s EXCEPT !.l = m, !.owed = {}, !.emptied = l.firing]
  BY DEF EmptyList
<1> HIDE DEF m
<1>4. /\ s' \in States /\ s'.l = m /\ s'.calling = s.calling /\ s'.fires = s.fires
      /\ s'.owed = {} /\ s'.emptied = l.firing
  <2>1. s \in States /\ l.firing \in BOOLEAN
    BY InvParts
  <2> QED
    BY <1>2, <1>3, <2>1 DEF States
<1>5. LoopFits(m, s.calling) /\ ValuesFit(m, s.fires) /\ ValuesInOrder(l, m)
  BY <1>1, <1>2, InvParts DEF LoopFits, ValuesFit, ValuesInOrder
<1>6. OwedFits(m, s.calling, {}, l.firing)
  <2>1. s.calling => l.firing
    BY InvParts DEF LoopFits
  <2> QED
    BY <1>2, <2>1 DEF OwedFits, OwedAhead, AheadOwed, Ahead
<1> QED
  BY <1>4, <1>5, <1>6, KeptIf, Zenon DEF l

LEMMA LockOrDisableKeeps ==
  ASSUME Inv(s), LockOrDisable
  PROVE  Kept(s, s')
<1>1. l.firing => s.calling
  BY DEF LockOrDisable, MayOperate
<1>2. ASSUME NEW x \in Lists, x.firing = l.firing, x.fired = l.fired, x.start = l.start,
             x.index = l.index, x.data = l.data,
             NEW o \in SUBSET Functions, To(Disable(x), o)
      PROVE  Kept(s, s')
  <2> DEFINE m == Disable(x)
  <2>1. /\ m \in Lists /\ m.alive = FALSE /\ m.list = <<>> /\ m.repeats = FALSE
        /\ m.stack = <<>> /\ m.memory = None /\ m.firing = l.firing /\ m.fired = l.fired
        /\ m.start = l.start /\ m.index = l.index /\ m.data = l.data
    BY <1>2, DisableParts DEF Lists
  <2>2. To(m, o)
    BY <1>2
  <2> HIDE DEF m
  <2>3. /\ s' \in States /\ s'.l = m /\ s'.calling = s.calling /\ s'.fires = s.fires
    BY <2>1, <2>2, ToParts
  <2>4. LoopFits(m, s.calling)
    BY <1>1, <2>1, InvParts DEF LoopFits
  <2>5. ValuesFit(m, s.fires) /\ ValuesInOrder(l, m)
    BY <2>1, InvParts DEF ValuesFit, ValuesInOrder, Rising
  <2>6. OwedFits(m, s.calling, s'.owed, s'.emptied)
    BY <2>1 DEF OwedFits, OwedAhead, AheadOwed, Ahead
  <2> QED
    BY <2>3, <2>4, <2>5, <2>6, KeptIf, Zenon DEF l
<1>3. CASE To(Disable(l), {})
  BY <1>2, <1>3, InvParts
<1>4. CASE To(Lock(l), s.owed)
  <2> DEFINE m == [l EXCEPT !.repeats = FALSE, !.stack = <<>>]
  <2>1. /\ m \in Lists /\ m.alive = l.alive /\ m.list = l.list /\ m.length = l.length
        /\ m.repeats = FALSE /\ m.stack = <<>> /\ m.memory = l.memory
        /\ m.firing = l.firing /\ m.fired = l.fired /\ m.data = l.data
        /\ m.index = l.index /\ m.start = l.start
    <3>1. <<>> \in Seq(Nat) /\ l \in Lists
      BY InvParts
    <3> QED
      BY <3>1 DEF Lists
  <2>2. Lock(l) = IF l.memory = None THEN Disable(m) ELSE m
    BY Zenon DEF Lock
  <2> HIDE DEF m
  <2>3. CASE l.memory = None
    BY <1>2, <1>4, <2>1, <2>2, <2>3, InvParts
  <2>4. CASE l.memory # None
    <3>1. To(m, s.owed)
      BY <1>4, <2>2, <2>4
    <3>2. /\ s' \in States /\ s'.l = m /\ s'.calling = s.calling /\ s'.fires = s.fires
          /\ s'.owed = s.owed \cap FunctionsOf(m)
          /\ s'.emptied = (s.emptied /\ (~m.firing \/ s.calling))
      BY <2>1, <3>1, InvParts, ToParts
    <3>3. s'.emptied = s.emptied
      BY <1>1, <2>1, <3>2, InvParts
    <3>4. LoopFits(m, s.calling)
      BY <2>1, InvParts DEF LoopFits
    <3>5. ValuesFit(m, s.fires) /\ ValuesInOrder(l, m)
      BY <2>1, InvParts DEF ValuesFit, ValuesInOrder, Rising
    <3>6. Ahead(m, s.calling) = Ahead(l, s.calling)
      BY <2>1 DEF Ahead
    <3>7. \A j \in Ahead(m, s.calling) : m.list[j] \in FunctionsOf(m)
      BY DEF Ahead, FunctionsOf
    <3>8. OwedFits(m, s.calling, s'.owed, s.emptied)
      <4>1. OwedFits(l, s.calling, s.owed, s.emptied)
        BY InvParts
      <4>2. OwedAhead(l, s.calling, s.owed) => OwedAhead(m, s.calling, s'.owed)
        BY <2>1, <3>2, <3>6 DEF OwedAhead
      <4>3. AheadOwed(l, s.calling, s.owed) => AheadOwed(m, s.calling, s'.owed)
        BY <2>1, <3>2, <3>6, <3>7 DEF AheadOwed
      <4>4. s.owed = {} => s'.owed = {}
        BY <3>2
      <4> QED
        BY <2>1, <4>1, <4>2, <4>3, <4>4 DEF OwedFits
    <3> QED
      BY <3>2, <3>3, <3>4, <3>5, <3>8, KeptIf, Zenon DEF l
  <2> QED
    BY <2>3, <2>4
<1> QED
  BY <1>3, <1>4 DEF LockOrDisable

LEMMA FireValueKeeps ==
  ASSUME Inv(s), FireValue
  PROVE  Kept(s, s')
<1> DEFINE m == FireWith(l, s.fires + 1)
           begins == m.firing /\ ~l.firing
           o == IF begins THEN FunctionsOf(m) ELSE s.owed
           e == s.emptied /\ ~begins
<1>1. l.firing => s.calling
  BY DEF FireValue, MayOperate
<1>2. s' = [s EXCEPT !.l = m, !.fires = s.fires + 1, !.owed = o, !.emptied = e]
  <2>1. s \in States
    BY InvParts
  <2> QED
    BY <2>1 DEF FireValue, States
<1>3. s.fires + 1 \in Nat /\ s.fires \in Nat
  BY InvParts
<1>4. ASSUME m \in Lists, LoopFits(m, s.calling), ValuesFit(m, s.fires + 1),
             OwedFits(m, s.calling, o, e), ValuesInOrder(l, m), o \in SUBSET Functions
      PROVE  Kept(s, s')
  <2>1. s \in States /\ e \in BOOLEAN
    BY InvParts
  <2> HIDE DEF m, o, e
  <2>2. /\ s' \in States /\ s'.l = m /\ s'.calling = s.calling /\ s'.fires = s.fires + 1
        /\ s'.owed = o /\ s'.emptied = e
    BY <1>2, <1>3, <1>4, <2>1 DEF States
  <2> QED
    BY <1>4, <2>2, KeptIf, Zenon DEF l
\* A value that comes before the list is locked or fired is later than those before it.
<1>5. /\ l.data <= s.fires + 1 /\ Rising(l.stack, l.data, s.fires + 1)
      /\ \A i \in DOMAIN l.stack : l.stack[i] <= s.fires
  <2>1. ValuesFit(l, s.fires) /\ l.stack \in Seq(Nat) /\ l.data \in Nat
    BY InvParts
  <2>2. \A i \in DOMAIN l.stack : l.stack[i] \in Nat
    BY <2>1
  <2> QED
    BY <1>3, <2>1, <2>2 DEF ValuesFit, Rising
<1>6. CASE ~(l.alive /\ (~l.fired \/ l.repeats))
  <2>1. m = l
    BY <1>6, Zenon DEF FireWith
  <2>2. ~begins /\ o = s.owed /\ e = s.emptied
    BY <2>1, InvParts
  <2> HIDE DEF m, o, e, begins
  <2>3. ValuesFit(l, s.fires + 1) /\ ValuesInOrder(l, l)
    BY <1>3, <1>5, InvParts DEF ValuesFit, ValuesInOrder
  <2> QED
    BY <1>4, <2>1, <2>2, <2>3, InvParts
<1>7. CASE l.alive /\ (~l.fired \/ l.repeats) /\ l.firing
  <2> DEFINE q == Append(l.stack, s.fires + 1)
             y == [l EXCEPT !.stack = q]
  <2>1. m = y
    BY <1>7, Zenon DEF FireWith
  <2>2. /\ q \in Seq(Nat) /\ DOMAIN q = 1 .. Len(l.stack) + 1 /\ Len(l.stack) \in Nat
        /\ DOMAIN l.stack = 1 .. Len(l.stack)
        /\ q[Len(l.stack) + 1] = s.fires + 1
        /\ \A i \in DOMAIN l.stack : q[i] = l.stack[i]
    BY <1>3, InvParts
  <2> HIDE DEF q
  <2>3. /\ y \in Lists /\ y.stack = q /\ y.alive = l.alive /\ y.list = l.list
        /\ y.length = l.length /\ y.repeats = l.repeats /\ y.memory = l.memory
        /\ y.firing = l.firing /\ y.fired = l.fired /\ y.data = l.data
        /\ y.index = l.index /\ y.start = l.start
    <3>1. l \in Lists
      BY InvParts
    <3> QED
      BY <2>2, <3>1 DEF Lists
  <2> HIDE DEF y
  <2>4. ~begins /\ o = s.owed /\ e = s.emptied
    BY <1>7, <2>1, <2>3, InvParts
  <2> HIDE DEF m, o, e, begins
  <2>5. LoopFits(y, s.calling) /\ ValuesInOrder(l, y)
    BY <2>3, InvParts DEF LoopFits, ValuesInOrder
  <2>6. OwedFits(y, s.calling, s.owed, s.emptied)
    <3>1. Ahead(y, s.calling) = Ahead(l, s.calling)
      BY <2>3 DEF Ahead
    <3> QED
      BY <2>3, <3>1, InvParts DEF OwedFits, OwedAhead, AheadOwed
  <2>7. Rising(q, l.data, s.fires + 1)
    <3>1. \A i \in DOMAIN q : l.data <= q[i] /\ q[i] <= s.fires + 1
      BY <1>3, <1>5, <2>2 DEF Rising
    <3>2. \A i, j \in DOMAIN q : i <= j => q[i] <= q[j]
      <4> TAKE i, j \in DOMAIN q
      <4>1. CASE j = Len(l.stack) + 1
        BY <2>2, <3>1, <4>1
      <4>2. CASE j # Len(l.stack) + 1
        <5>1. i <= j => i \in DOMAIN l.stack /\ j \in DOMAIN l.stack
          BY <2>2, <4>2
        <5> QED
          BY <1>5, <2>2, <5>1 DEF Rising
      <4> QED
        BY <4>1, <4>2
    <3> QED
      BY <3>1, <3>2 DEF Rising
  <2>8. l.repeats
    BY <1>7, InvParts DEF LoopFits
  <2>9. ValuesFit(y, s.fires + 1)
    BY <1>5, <1>7, <2>3, <2>7, <2>8, InvParts DEF ValuesFit
  <2> QED
    BY <1>4, <2>1, <2>3, <2>4, <2>5, <2>6, <2>9, InvParts
<1>8. CASE l.alive /\ (~l.fired \/ l.repeats) /\ ~l.firing
  <2>1. m = Fire(l, s.fires + 1)
    BY <1>8, Zenon DEF FireWith
  <2>2. /\ l.stack = <<>> /\ l.start = 1 /\ s.calling = FALSE
    BY <1>8, InvParts DEF LoopFits, ValuesFit
  <2> HIDE DEF m
  <2>3. /\ m \in Lists /\ m.firing = TRUE /\ m.list = l.list /\ m.index = 1
        /\ m.data = s.fires + 1 /\ m.alive
    BY <1>3, <1>8, <2>1, <2>2, InvParts, FireParts
  <2>4. LoopFits(m, FALSE) /\ ValuesFit(m, s.fires + 1)
    <3> DEFINE v == s.fires + 1
    <3>1. l \in Lists /\ v \in Nat /\ v <= v /\ l.start >= 1
      BY <1>3, <2>2, InvParts
    <3>2. Rising(l.stack, v, v)
      BY <2>2 DEF Rising
    <3>3. m = Fire(l, v)
      BY <2>1
    <3> HIDE DEF v
    <3>4. LoopFits(Fire(l, v), FALSE) /\ ValuesFit(Fire(l, v), v)
      BY <1>8, <2>2, <3>1, <3>2, FireFits
    <3> QED
      BY <3>3, <3>4 DEF v
  <2>5. begins /\ o = FunctionsOf(m) /\ e = FALSE
    BY <1>8, <2>3
  <2> HIDE DEF begins, o, e
  <2>6. o \in SUBSET Functions
    BY <2>3, <2>5 DEF FunctionsOf, Lists
  <2>7. Ahead(m, FALSE) = DOMAIN m.list
    BY <2>3, InvParts DEF Ahead
  <2>8. OwedFits(m, FALSE, o, e)
    BY <2>3, <2>5, <2>7 DEF OwedFits, OwedAhead, AheadOwed, FunctionsOf
  <2>9. ValuesInOrder(l, m)
    BY <1>5, <1>8, <2>3, InvParts DEF ValuesInOrder
  <2> QED
    BY <1>4, <2>2, <2>3, <2>4, <2>6, <2>8, <2>9
<1> QED
  BY <1>6, <1>7, <1>8, InvParts

LEMMA AddFunctionKeeps ==
  ASSUME Inv(s), NEW f \in Functions, AddFunction(f)
  PROVE  Kept(s, s')
<1> DEFINE m == Add(l, f)
           new == IF m.list # l.list THEN {f} ELSE {}
           o == IF l.firing \/ ~m.firing THEN s.owed \cup new ELSE new
<1>1. l.firing => s.calling
  BY DEF AddFunction, MayOperate
<1>2. To(m, o)
  BY DEF AddFunction
<1>3. o \in SUBSET Functions
  BY InvParts
<1>4. ASSUME m \in Lists
      PROVE  /\ s' \in States /\ s'.l = m /\ s'.calling = s.calling /\ s'.fires = s.fires
             /\ s'.owed = o \cap FunctionsOf(m)
             /\ s'.emptied = (s.emptied /\ (~m.firing \/ s.calling))
  <2> HIDE DEF m, o
  <2> QED
    BY <1>2, <1>3, <1>4, ToParts
<1>5. CASE ~l.alive
  <2>1. m = l
    BY <1>5, Zenon DEF Add
  <2>2. LoopFits(l, s.calling) /\ ValuesFit(l, s.fires) /\ ValuesInOrder(l, l)
    BY InvParts DEF ValuesInOrder
  <2>3. OwedFits(l, s.calling, s'.owed, s'.emptied)
    BY <1>5, InvParts DEF OwedFits, AheadOwed, Ahead, LoopFits
  <2> QED
    BY <1>4, <2>1, <2>2, <2>3, InvParts, KeptIf, Zenon DEF l
<1>6. CASE l.alive
  <2>1. PICK q \in Seq(Functions) :
           /\ \/ q = l.list
              \/ /\ Len(q) = Len(l.list) + 1 /\ q[Len(l.list) + 1] = f
                 /\ \A j \in DOMAIN l.list : q[j] = l.list[j]
           /\ l.firing => m = [l EXCEPT !.list = q, !.length = Len(q)]
           /\ ~l.firing => m = IF l.memory # None
                THEN Fire([l EXCEPT !.list = q, !.start = Len(l.list) + 1], l.memory)
                ELSE [l EXCEPT !.list = q]
    BY <1>6, InvParts, AddParts
  <2> HIDE DEF m
  <2>2. Len(q) \in Nat /\ DOMAIN q = 1 .. Len(q)
    OBVIOUS
  <2> DEFINE n == Len(l.list)
  <2>6. l.list \in Seq(Functions) /\ n \in Nat /\ DOMAIN l.list = 1 .. n
    BY InvParts
  <2>12. \/ q = l.list
         \/ Len(q) = n + 1 /\ q[n + 1] = f /\ \A j \in DOMAIN l.list : q[j] = l.list[j]
    BY <2>1, Zenon
  <2>11. /\ DOMAIN l.list \subseteq DOMAIN q /\ \A j \in DOMAIN l.list : q[j] = l.list[j]
         /\ q # l.list => n + 1 \in DOMAIN q /\ q[n + 1] = f
         /\ \A j \in DOMAIN q : j \notin DOMAIN l.list => q # l.list /\ j = n + 1
         /\ n <= Len(q)
         /\ \A j \in DOMAIN q : n + 1 <= j => j \notin DOMAIN l.list
    BY <2>6, <2>12, LongerParts
  <2> HIDE DEF n
  <2>7. DOMAIN l.list \subseteq DOMAIN q /\ \A j \in DOMAIN l.list : q[j] = l.list[j]
    BY <2>11
  <2>8. q # l.list => n + 1 \in DOMAIN q /\ q[n + 1] = f
    BY <2>11
  <2>9. \A j \in DOMAIN q : j \notin DOMAIN l.list => q # l.list /\ j = n + 1
    BY <2>11, Zenon
  <2>10. l.index \in Int /\ l.length \in Int
    BY InvParts
  <2>3. CASE l.firing
    <3>1. /\ m \in Lists /\ m.list = q /\ m.length = Len(q) /\ m.alive = l.alive
          /\ m.repeats = l.repeats /\ m.stack = l.stack /\ m.memory = l.memory
          /\ m.firing = TRUE /\ m.fired = l.fired /\ m.data = l.data
          /\ m.index = l.index /\ m.start = l.start
      <4> DEFINE k == Len(q)
      <4>1. l \in Lists /\ m = [l EXCEPT !.list = q, !.length = k]
        BY <2>1, <2>3, InvParts, Zenon
      <4>2. k \in Int
        BY <2>2
      <4> HIDE DEF k, l
      <4>3. m \in Lists
        BY <4>1, <4>2 DEF Lists
      <4>4. /\ m.list = q /\ m.length = k /\ m.alive = l.alive
            /\ m.repeats = l.repeats /\ m.stack = l.stack /\ m.memory = l.memory
            /\ m.firing = l.firing /\ m.fired = l.fired /\ m.data = l.data
            /\ m.index = l.index /\ m.start = l.start
        BY <4>1 DEF Lists
      <4> QED
        BY <2>3, <4>3, <4>4 DEF k
    <3>2. s.calling = TRUE
      BY <1>1, <2>3, InvParts
    <3>3. LoopFits(m, TRUE) /\ ValuesFit(m, s.fires) /\ ValuesInOrder(l, m)
      BY <1>6, <2>3, <3>1, <3>2, InvParts DEF LoopFits, ValuesFit, ValuesInOrder
    <3>4. s'.owed = (s.owed \cup new) \cap FunctionsOf(m) /\ s'.emptied = s.emptied
      BY <1>4, <2>3, <3>1, <3>2, InvParts
    <3>5. OwedFits(l, TRUE, s.owed, s.emptied)
      BY <3>2, InvParts
    <3>6. \A j \in Ahead(l, TRUE) : j \in Ahead(m, TRUE) /\ m.list[j] = l.list[j]
      BY <2>7, <3>1 DEF Ahead
    <3>7. OwedAhead(l, TRUE, s.owed) /\ ~s.emptied => OwedAhead(m, TRUE, s'.owed)
      <4> SUFFICES ASSUME OwedAhead(l, TRUE, s.owed), ~s.emptied, NEW g \in s'.owed
                   PROVE  \E j \in Ahead(m, TRUE) : m.list[j] = g
        BY DEF OwedAhead
      <4>1. CASE g \in s.owed
        BY <3>6, <4>1 DEF OwedAhead
      <4>2. CASE g \notin s.owed
        <5>1. g = f /\ q # l.list
          BY <3>1, <3>4, <4>2
        <5>2. n + 1 \in DOMAIN q /\ q[n + 1] = f
          BY <2>8, <5>1
        <5>3. l.index <= n
          BY <1>6, <3>5 DEF OwedFits, n
        <5>4. n + 1 \in Ahead(m, TRUE)
          BY <2>6, <2>10, <3>1, <5>2, <5>3 DEF Ahead
        <5>5. m.list[n + 1] = g
          BY <3>1, <5>1, <5>2
        <5> QED
          BY <5>4, <5>5
      <4> QED
        BY <4>1, <4>2
    <3>8. AheadOwed(m, TRUE, s'.owed)
      <4> SUFFICES ASSUME NEW j \in Ahead(m, TRUE)
                   PROVE  m.list[j] \in s'.owed \/ Twice(m.list, j)
        BY DEF AheadOwed
      <4>1. m.list[j] \in FunctionsOf(m) /\ j \in DOMAIN q /\ m.list[j] = q[j]
        BY <3>1 DEF Ahead, FunctionsOf
      <4>2. CASE j \in DOMAIN l.list
        <5>1. j \in Ahead(l, TRUE) /\ q[j] = l.list[j]
          BY <2>7, <3>1, <4>2 DEF Ahead
        <5>2. l.list[j] \in s.owed \/ Twice(l.list, j)
          <6>1. AheadOwed(l, TRUE, s.owed)
            BY <2>3, <3>5, Zenon DEF OwedFits
          <6> QED
            BY <5>1, <6>1, Zenon DEF AheadOwed
        <5>4. Twice(l.list, j) => Twice(q, j)
          BY <2>7, <4>2 DEF Twice
        <5> QED
          BY <3>1, <3>4, <4>1, <5>1, <5>2, <5>4
      <4>3. CASE j \notin DOMAIN l.list
        <5>1. q # l.list /\ j = n + 1
          BY <2>9, <4>1, <4>3
        <5>3. q[j] = f /\ f \in new
          BY <2>8, <3>1, <5>1
        <5> QED
          BY <3>4, <4>1, <5>3
      <4> QED
        BY <4>2, <4>3
    <3>9. ~s.emptied => m.index <= Len(m.list)
      <4>1. ~s.emptied => l.index <= n
        BY <1>6, <3>5 DEF OwedFits, n
      <4>2. n <= Len(q)
        BY <2>11
      <4> QED
        <5>1. n \in Int /\ Len(q) \in Int /\ m.index = l.index /\ m.list = q
          BY <2>2, <2>6, <3>1
        <5>2. l.index <= n => l.index <= Len(q)
          BY <2>10, <4>2, <5>1
        <5> QED
          BY <4>1, <5>1, <5>2
    <3>10. OwedFits(m, TRUE, s'.owed, s'.emptied)
      BY <2>3, <3>1, <3>4, <3>5, <3>7, <3>8, <3>9 DEF OwedFits
    <3> QED
      BY <1>4, <3>1, <3>2, <3>3, <3>10, KeptIf, Zenon DEF l
  <2>4. CASE ~l.firing /\ l.memory = None
    <3>1. /\ m \in Lists /\ m.list = q /\ m.alive = l.alive
          /\ m.repeats = l.repeats /\ m.stack = l.stack /\ m.memory = l.memory
          /\ m.firing = l.firing /\ m.fired = l.fired /\ m.data = l.data /\ m.start = l.start
      <4>1. l \in Lists /\ m = [l EXCEPT !.list = q]
        BY <2>1, <2>4, InvParts
      <4> QED
        BY <4>1 DEF Lists
    <3>2. s.calling = FALSE
      BY <2>4, InvParts DEF LoopFits
    <3>3. LoopFits(m, FALSE) /\ ValuesFit(m, s.fires) /\ ValuesInOrder(l, m)
      BY <1>6, <2>4, <3>1, InvParts DEF LoopFits, ValuesFit, ValuesInOrder
    <3>4. OwedFits(m, FALSE, s'.owed, s'.emptied)
      BY <2>4, <3>1 DEF OwedFits
    <3> QED
      BY <1>4, <3>1, <3>2, <3>3, <3>4, KeptIf, Zenon DEF l
\* With memory the function that has been added is called at once.
  <2>5. CASE ~l.firing /\ l.memory # None
    <3> DEFINE x == [l EXCEPT !.list = q, !.start = Len(l.list) + 1]
               v == l.memory
    <3>1. /\ x \in Lists /\ x.list = q /\ x.start = Len(l.list) + 1 /\ x.alive = l.alive
          /\ x.repeats = l.repeats /\ x.stack = l.stack
      <4>1. l \in Lists /\ Len(l.list) + 1 \in Nat
        BY InvParts
      <4> QED
        BY <4>1 DEF Lists
    <3>2. m = Fire(x, v)
      BY <2>1, <2>5
    <3>3. v \in Nat /\ v = l.data /\ v <= s.fires /\ s.fires \in Nat /\ l.stack = <<>>
      BY <2>5, InvParts DEF ValuesFit
    <3> HIDE DEF x, v
    <3>4. /\ m \in Lists /\ m.list = q /\ m.alive = l.alive /\ m.firing = TRUE
          /\ m.index = Len(l.list) + 1 /\ m.data = l.data
      BY <3>1, <3>2, <3>3, FireParts
    <3>5. s.calling = FALSE
      BY <2>5, InvParts DEF LoopFits
    <3>6. LoopFits(m, FALSE) /\ ValuesFit(m, s.fires)
      <4>1. Rising(x.stack, v, s.fires) /\ x.stack = <<>>
        BY <3>1, <3>3 DEF Rising
      <4>2. x.alive /\ x.start >= 1
        BY <1>6, <3>1, InvParts
      <4> QED
        BY <3>1, <3>2, <3>3, <4>1, <4>2, FireFits
    <3>7. ValuesInOrder(l, m)
      BY <3>4, InvParts DEF ValuesInOrder
    <3>8. s'.owed = new \cap FunctionsOf(m)
      BY <1>4, <2>5, <3>4
    <3>9. OwedAhead(m, FALSE, s'.owed)
      <4> SUFFICES ASSUME NEW g \in s'.owed PROVE \E j \in Ahead(m, FALSE) : m.list[j] = g
        BY DEF OwedAhead
      <4>1. g = f /\ q # l.list
        BY <3>4, <3>8
      <4>2. n + 1 \in DOMAIN q /\ q[n + 1] = f
        BY <2>8, <4>1
      <4>3. n + 1 \in Ahead(m, FALSE)
        BY <2>6, <3>4, <4>2 DEF Ahead, n
      <4> QED
        BY <3>4, <4>1, <4>2, <4>3
    <3>10. AheadOwed(m, FALSE, s'.owed)
      <4> SUFFICES ASSUME NEW j \in Ahead(m, FALSE) PROVE m.list[j] \in s'.owed
        BY DEF AheadOwed
      <4>1. m.list[j] \in FunctionsOf(m) /\ j \in DOMAIN q /\ n + 1 <= j
            /\ m.list[j] = q[j]
        BY <3>4 DEF Ahead, FunctionsOf, n
      <4>2. q # l.list /\ j = n + 1
        <5>1. j \notin DOMAIN l.list
          BY <2>11, <4>1, Zenon
        <5> QED
          BY <2>9, <4>1, <5>1
      <4>3. q[j] = f /\ f \in new
        BY <2>8, <3>4, <4>2
      <4> QED
        BY <3>8, <4>1, <4>3
    <3>11. OwedFits(m, FALSE, s'.owed, s'.emptied)
      BY <3>4, <3>9, <3>10 DEF OwedFits
    <3> QED
      BY <1>4, <3>4, <3>5, <3>6, <3>7, <3>11, KeptIf, Zenon DEF l
  <2> QED
    BY <2>3, <2>4, <2>5, InvParts
<1> QED
  BY <1>5, <1>6, InvParts

-----------------------------------------------------------------------------
(* The contract.                                                             *)

LEMMA InvInit ==
  ASSUME Init
  PROVE  Inv(s)
<1>1. PICK options \in OptionSets :
        s = [l |-> NewList(options), calling |-> FALSE, fires |-> 0, owed |-> {}, emptied |-> FALSE]
  BY DEF Init, Starts
<1> DEFINE x == NewList(options)
<1>2. /\ x \in Lists /\ x.alive = TRUE /\ x.list = <<>> /\ x.stack = <<>> /\ x.memory = None
      /\ x.firing = FALSE /\ x.start = 1 /\ x.data = 0
  <2>1. <<>> \in Seq(Functions) /\ <<>> \in Seq(Nat) /\ None \in Nat /\ None = 0
    BY DEF None
  <2>2. ("once" \notin options) \in BOOLEAN
    OBVIOUS
  <2> DEFINE r == "once" \notin options
  <2>3. x = [options |-> options, alive |-> TRUE, list |-> <<>>, repeats |-> r, stack |-> <<>>,
             memory |-> None, fired |-> FALSE, firing |-> FALSE, length |-> 0, index |-> 0,
             start |-> 1, data |-> None]
    BY DEF NewList
  <2> HIDE DEF x, r
  <2>4. r \in BOOLEAN
    BY <2>2 DEF r
  <2> QED
    BY <2>1, <2>3, <2>4 DEF Lists
<1> HIDE DEF x
<1>3. /\ s.l = x /\ s.calling = FALSE /\ s.fires = 0 /\ s.owed = {} /\ s.emptied = FALSE
      /\ s \in States
  BY <1>1, <1>2 DEF x, States
<1>4. LoopFits(x, FALSE) /\ ValuesFit(x, 0) /\ OwedFits(x, FALSE, {}, FALSE)
  <2>1. LoopFits(x, FALSE)
    BY <1>2 DEF LoopFits
  <2>2. DOMAIN x.stack = {}
    BY <1>2
  <2>3. Rising(x.stack, x.data, 0)
    BY <2>2 DEF Rising
  <2>4. ValuesFit(x, 0)
    BY <1>2, <2>3 DEF ValuesFit
  <2>5. OwedFits(x, FALSE, {}, FALSE)
    BY <1>2 DEF OwedFits
  <2> QED
    BY <2>1, <2>4, <2>5
<1> QED
  BY <1>3, <1>4 DEF Inv

LEMMA StepKeeps ==
  ASSUME Inv(s), Next
  PROVE  Kept(s, s')
BY CallKeeps, ReturnKeeps, EndOfFireKeeps, AddFunctionKeeps, RemoveFunctionKeeps,
   EmptyListKeeps, LockOrDisableKeeps, FireValueKeeps, Zenon DEF Next

LEMMA TwiceCounts ==
  ASSUME Inv(s), NEW j \in DOMAIN l.list, Twice(l.list, j)
  PROVE  Cardinality({i \in DOMAIN l.list : l.list[i] = l.list[j]}) > 1
<1> DEFINE S == {i \in DOMAIN l.list : l.list[i] = l.list[j]}
<1>1. PICK k \in DOMAIN l.list : k # j /\ l.list[k] = l.list[j]
  BY DEF Twice
<1>2. IsFiniteSet(S)
  <2>1. DOMAIN l.list = 1 .. Len(l.list) /\ 1 \in Int /\ Len(l.list) \in Int
    BY InvParts
  <2>2. IsFiniteSet(1 .. Len(l.list))
    BY <2>1, FS_Interval
  <2> QED
    BY <2>1, <2>2, FS_Subset
<1>3. {j, k} \in SUBSET S
  BY <1>1
<1> HIDE DEF S
<1>4. IsFiniteSet({j, k}) /\ Cardinality({j, k}) = 2
  <2>1. IsFiniteSet({j}) /\ Cardinality({j}) = 1
    BY FS_Singleton
  <2>2. k \notin {j} /\ {j} \cup {k} = {j, k}
    BY <1>1
  <2>3. IsFiniteSet({j} \cup {k}) /\ Cardinality({j} \cup {k}) = Cardinality({j}) + 1
    BY <2>1, <2>2, FS_AddElement
  <2> QED
    BY <2>1, <2>2, <2>3
<1>5. Cardinality({j, k}) <= Cardinality(S)
  BY <1>2, <1>3, FS_Subset
<1>6. Cardinality(S) \in Nat
  BY <1>2, FS_CardinalityType
<1> QED
  BY <1>4, <1>5, <1>6 DEF S

LEMMA ContractKept ==
  ASSUME Inv(s), Next
  PROVE  KeepsContract
<1>1. Inv(s)' /\ ValuesInOrder(s.l, s'.l)
  BY StepKeeps DEF Kept
<1>2. InBounds'
  <2>1. l' = s'.l
    BY DEF l
  <2>2. LoopFits(s'.l, s'.calling) /\ s' \in States
    BY <1>1 DEF Inv
  <2>3. /\ s'.l.index \in Int /\ DOMAIN s'.l.list = 1 .. Len(s'.l.list)
        /\ Len(s'.l.list) \in Nat
    BY <2>2 DEF States, Lists
  <2> QED
    BY <2>1, <2>2, <2>3 DEF LoopFits, Calls, InBounds
<1>3. NoneSkipped'
  <2>1. l' = s'.l
    BY DEF l
  <2>2. /\ OwedFits(s'.l, s'.calling, s'.owed, s'.emptied)
        /\ LoopFits(s'.l, s'.calling) /\ s' \in States
    BY <1>1 DEF Inv
  <2>3. /\ s'.l.index \in Int /\ DOMAIN s'.l.list = 1 .. Len(s'.l.list)
        /\ Len(s'.l.list) \in Nat /\ s'.calling \in BOOLEAN
    BY <2>2 DEF States, Lists
  <2>4. ASSUME s'.l.firing, ~s'.calling, s'.l.alive, ~(s'.l.index <= s'.l.length), ~s'.emptied
        PROVE  s'.owed = {}
    <3>1. Ahead(s'.l, s'.calling) = {}
      BY <2>2, <2>3, <2>4 DEF Ahead, LoopFits
    <3>2. OwedAhead(s'.l, s'.calling, s'.owed)
      BY <2>2, <2>4, Zenon DEF OwedFits
    <3> QED
      BY <3>1, <3>2 DEF OwedAhead
  <2>5. ~s'.l.firing /\ s'.l.alive /\ s'.l.memory # None /\ ~s'.emptied => s'.owed = {}
    BY <2>2, Zenon DEF OwedFits
  <2> QED
    BY <2>1, <2>4, <2>5, Zenon DEF NoneSkipped, Calls
<1>4. CallsOwed
  <2> SUFFICES ASSUME Call
               PROVE  \/ Called(l) \in s.owed
                      \/ Cardinality({i \in DOMAIN l.list : l.list[i] = Called(l)}) > 1
    BY DEF CallsOwed
  <2>1. s.calling = FALSE /\ l.firing /\ l.alive /\ l.index <= l.length
    BY InvParts DEF Call, Calls
  <2>2. l.index \in DOMAIN l.list
    BY <2>1, InvParts DEF LoopFits
  <2>3. l.index \in Ahead(l, FALSE)
    BY <2>2, InvParts DEF Ahead
  <2>4. AheadOwed(l, FALSE, s.owed)
    <3>1. OwedFits(l, s.calling, s.owed, s.emptied)
      BY InvParts
    <3> QED
      BY <2>1, <3>1, Zenon DEF OwedFits
  <2>5. Called(l) \in s.owed \/ Twice(l.list, l.index)
    BY <2>3, <2>4, Zenon DEF AheadOwed, Called
  <2> QED
    BY <2>2, <2>5, TwiceCounts, Zenon DEF Called
<1>5. InOrder
  BY <1>1 DEF InOrder, ValuesInOrder, l
<1> QED
  BY <1>2, <1>3, <1>4, <1>5 DEF KeepsContract

\* fire() calls every function of the list once and the values in their order,
\* though the functions add, remove, empty, lock and fire while they are called:
\* none is skipped when one before it is taken out, none is called twice, and the
\* loop does not leave the list (jQuery.Callbacks).
THEOREM EachOnce == Spec => CallsEachOnce
<1>1. Init => Inv(s)
  BY InvInit
<1>2. Inv(s) /\ [Next]_s => Inv(s)'
  <2>1. ASSUME Inv(s), Next PROVE Inv(s)'
    BY <2>1, StepKeeps DEF Kept
  <2>2. ASSUME Inv(s), UNCHANGED s PROVE Inv(s)'
    BY <2>2
  <2> QED
    BY <2>1, <2>2
<1>3. Inv(s) /\ [Next]_s => [KeepsContract]_s
  BY ContractKept
<1> QED
  BY <1>1, <1>2, <1>3, PTL DEF Spec, CallsEachOnce
=============================================================================
