------------------------------ MODULE Deferreds -------------------------------
(***************************************************************************)
(* jQuery.Deferred, then() and when(): each deferred has three lists of    *)
(* jQuery.Callbacks, and what settles one calls, before it returns, the    *)
(* functions that settle others.                                           *)
(*                                                                         *)
(* The page settles the deferreds 1 .. Subordinates of one when() in any   *)
(* order.  Master is the deferred of when(), Follower what master.then() has   *)
(* returned, Inner a deferred that a function given to then() returns.     *)
(*                                                                         *)
(* A function of the library is a record that says what it does.  The      *)
(* values passed along are left out.                                       *)
(***************************************************************************)
EXTENDS CallbackList, FiniteSets

CONSTANTS
  Subordinates,   \* deferreds among the arguments of when()
  Plain,          \* its other arguments
  Chained,        \* for which of the three the function given to then() returns Inner
  Handlers,       \* functions of the page: [d, t, n], for list t of deferred d
  MaxNotes        \* bound: progress notes of the page

VARIABLE s        \* lists and states of the deferreds, remaining, and the loops under way

Subs == 1 .. Subordinates
Master == IF Subordinates = 1 /\ Plain = 0 THEN 1 ELSE Subordinates + 1
Follower == Subordinates + 2
Inner == Subordinates + 3
Deferreds == Subs \cup {Master, Follower, Inner}

Tuples == {"resolve", "reject", "notify"}
Final == [resolve |-> "resolved", reject |-> "rejected"]
Opposite == [resolve |-> "reject", reject |-> "resolve"]

-----------------------------------------------------------------------------
(* Calls.  A loop of fire() that begins goes on top of those under way.      *)

WithList(x, d, t, l) ==
  LET begins == l.firing /\ ~x.lists[d][t].firing
  IN  [x EXCEPT !.lists[d][t] = l,
                !.frames = IF begins THEN Append(@, [d |-> d, t |-> t, at |-> "loop"]) ELSE @]

\* deferred.resolve(), reject(), notify(); done(), fail(), progress().
Settle(x, d, t) == WithList(x, d, t, FireWith(x.lists[d][t], 1))
Listen(x, d, t, f) == WithList(x, d, t, Add(x.lists[d][t], f))

\* promise.always().
Always(x, d, f) == Listen(Listen(x, d, "resolve", f), d, "reject", f)

\* Faulty: never resolved.
UpdateLate(x, f) ==
  LET y == [x EXCEPT !.remaining = @ - 1]
  IN  CASE f.t = "notify" -> Settle(x, Master, "notify")
        [] f.t = "resolve" -> IF x.remaining = 0 THEN Settle(y, Master, "resolve") ELSE y

\* The function returned by updateFunc() of when().
Update(x, f) ==
  CASE f.t = "notify" -> Settle(x, Master, "notify")
    [] f.t = "resolve" -> LET y == [x EXCEPT !.remaining = @ - 1]
                          IN  IF y.remaining = 0 THEN Settle(y, Master, "resolve") ELSE y

SettleFunction(d, t) == [do |-> "settle", d |-> d, t |-> t]

\* Faulty: the deferred the function returned is not waited for.
PassAtOnce(x, f) == Settle(x, Follower, f.t)

\* The functions then() adds: the outcome goes on, or that of Inner does.  Its
\* done() and fail(), of which one at most calls a function, return before
\* progress() (PassNotes).
Pass(x, f) ==
  LET y == [x EXCEPT !.frames[Len(x.frames)].at = "pass"]
      z == Listen(y, Inner, "resolve", SettleFunction(Follower, "resolve"))
  IN  IF f.t \in Chained THEN Listen(z, Inner, "reject", SettleFunction(Follower, "reject"))
      ELSE Settle(x, Follower, f.t)

\* What a function of the list does; f.do = "user" is one of the page.
Effect(x, f) ==
  CASE f.do = "state"   -> [x EXCEPT !.state[f.d] = Final[f.t]]
    [] f.do = "disable" -> [x EXCEPT !.lists[f.d][f.t] = Disable(@)]
    [] f.do = "lock"    -> [x EXCEPT !.lists[f.d][f.t] = Lock(@)]
    [] f.do = "update"  -> Update(x, f)
    [] f.do = "settle"  -> Settle(x, f.d, f.t)
    [] f.do = "pass"    -> Pass(x, f)
    [] f.do = "user"    -> [x EXCEPT !.called[f.h] = @ + 1, !.frames[Len(x.frames)].at = "user"]

-----------------------------------------------------------------------------
(* jQuery.Deferred(): the first functions of the lists set the state.        *)

ListOf(d, t) ==
  IF t = "notify" THEN NewList({"memory"})
  ELSE LET l == Add(NewList({"once", "memory"}), [do |-> "state", d |-> d, t |-> t])
           m == Add(l, [do |-> "disable", d |-> d, t |-> Opposite[t]])
       IN  Add(m, [do |-> "lock", d |-> d, t |-> "notify"])

\* when(): its functions in the lists of the subordinates; then(): in the master's.
Tied(d, t) ==
  LET l == ListOf(d, t)
      m == CASE Master \in Subs \/ d \notin Subs -> l
             [] OTHER -> Add(l, IF t = "reject" THEN SettleFunction(Master, "reject")
                                ELSE [do |-> "update", t |-> t])
  IN  IF d = Master THEN Add(m, [do |-> "pass", t |-> t]) ELSE m

Start ==
  [lists |-> [d \in Deferreds |-> [t \in Tuples |-> Tied(d, t)]],
   state |-> [d \in Deferreds |-> "pending"],
   remaining |-> Subordinates, frames |-> <<>>, notes |-> 0,
   added |-> {}, called |-> [h \in Handlers |-> 0]]

\* With nothing to wait for the master is resolved at once.
Starts == {IF Subordinates = 0 THEN Settle(Start, Master, "resolve") ELSE Start}
Init == s \in Starts

-----------------------------------------------------------------------------
Busy == s.frames # <<>>
Top == s.frames[Len(s.frames)]
TopList == s.lists[Top.d][Top.t]

CallNext ==
  /\ Busy /\ Top.at = "loop" /\ Calls(TopList)
  /\ s' = Effect([s EXCEPT !.lists[Top.d][Top.t] = Returned(@, FALSE)], Called(TopList))

EndOfLoop ==
  /\ Busy /\ Top.at = "loop" /\ ~Calls(TopList)
  /\ LET l == AfterLoop(TopList)
     IN  s' = [s EXCEPT !.lists[Top.d][Top.t] = l,
                        !.frames = IF l.firing THEN @ ELSE SubSeq(@, 1, Len(@) - 1)]

PassNotes ==
  /\ Busy /\ Top.at = "pass"
  /\ s' = Listen([s EXCEPT !.frames[Len(s.frames)].at = "loop"],
                 Inner, "notify", SettleFunction(Follower, "notify"))

Return ==
  /\ Busy /\ Top.at = "user"
  /\ s' = [s EXCEPT !.frames[Len(s.frames)].at = "loop"]

\* The page acts between events and in its functions.
MayAct == IF Busy THEN Top.at = "user" ELSE TRUE

SettleOne(d, t) ==
  /\ MayAct
  /\ (t = "notify" => s.notes < MaxNotes)
  /\ s' = [Settle(s, d, t) EXCEPT !.notes = IF t = "notify" THEN @ + 1 ELSE @]

AddHandler(h) ==
  /\ MayAct /\ h \notin s.added
  /\ LET x == [s EXCEPT !.added = @ \cup {h}]
         f == [do |-> "user", h |-> h]
     IN  s' = IF h.t = "always" THEN Always(x, h.d, f) ELSE Listen(x, h.d, h.t, f)

Library == CallNext \/ EndOfLoop \/ PassNotes
Next ==
  \/ Library
  \/ Return
  \/ \E d \in Subs \cup {Inner}, t \in Tuples : SettleOne(d, t)
  \/ \E h \in Handlers : AddHandler(h)

Spec == Init /\ [][Next]_s
\* The library runs on and the functions of the page return.
FairSpec == Spec /\ WF_s(Library) /\ WF_s(Return)

-----------------------------------------------------------------------------
(* Properties.                                                               *)

Settled(d) == s.state[d] # "pending"
Expects(h, state) ==
  \/ h.t = "always" /\ state # "pending"
  \/ h.t \in DOMAIN Final /\ state = Final[h.t]

\* A deferred that is settled stays as it is, whoever settles it again.
SettledForGood == [][\A d \in Deferreds : Settled(d) => s'.state[d] = s.state[d]]_s

\* Of the functions given to done() and fail() only those of the outcome are
\* called, once each, and only when the state says so.
OutcomeIsHeard ==
  \A h \in Handlers : h.t # "notify" =>
    /\ s.called[h] <= 1
    /\ (s.called[h] = 1 => Expects(h, s.state[h.d]))

\* When all calls have returned, no function is missing: it has been called
\* whether it was added before, while or after the deferred was settled.
NobodyIsMissed ==
  ~Busy => \A h \in s.added : Expects(h, s.state[h.d]) => s.called[h] = 1

\* when(): resolved with the last of its subordinates, rejected with the first.
WhenAgrees ==
  ~Busy => /\ (s.state[Master] = "resolved") <=> (\A d \in Subs : s.state[d] = "resolved")
           /\ (s.state[Master] = "rejected") <=> (\E d \in Subs : s.state[d] = "rejected")

\* then(): the outcome of the deferred, or of the one its function returned.
ThenAgrees ==
  ~Busy /\ "notify" \notin Chained =>
    s.state[Follower] =
      CASE ~Settled(Master) -> "pending"
        [] \E t \in Chained : s.state[Master] = Final[t] -> s.state[Inner]
        [] OTHER -> s.state[Master]

\* However calls are nested, they return, and when() is settled once its
\* subordinates are.
WhenSettles == (\A d \in Subs : Settled(d)) ~> Settled(Master)

\* What the functions of the page, when() and then() make of the outcomes, in
\* whatever order and depth deferreds settle.
OutcomesAgree == OutcomeIsHeard /\ NobodyIsMissed /\ WhenAgrees /\ ThenAgrees

\* A deferred settles once, and when() in the end.
SettlesOnce == SettledForGood /\ WhenSettles
=============================================================================
