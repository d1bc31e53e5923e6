----------------------------- MODULE JQuery_proofs -----------------------------
(***************************************************************************)
(* The functions for the ready event do not run too early, in any browser  *)
(* and however many scripts hold it back; the theorems about callback      *)
(* lists and requests, for those of the page and as the run states them;   *)
(* and that a response is converted to the type that is wanted.            *)
(***************************************************************************)
EXTENDS JQueryParts, SequenceTheorems, WellFoundedInduction, TLAPS

States ==
  [browser : Browsers, document : 1 .. 3, body : BOOLEAN, told : 1 .. 3,
   asked : BOOLEAN, listening : BOOLEAN, scrolling : BOOLEAN, timers : Nat,
   isReady : BOOLEAN, readyWait : Int, resolved : BOOLEAN,
   held : Nat, holds : Int, early : BOOLEAN]

\* The event has come only in a parsed document; a call put off is a call that
\* was due.
OnlyParsed(x) ==
  /\ Parsed(x) => x.body
  /\ x.isReady \/ x.timers > 0 => Parsed(x)

\* What readyWait counts: whoever holds the event back, and the event itself
\* until it has come.
Counted(x) == x.readyWait = x.held + (IF x.isReady THEN 0 ELSE 1)

Inv(x) == x \in States /\ OnlyParsed(x) /\ Counted(x) /\ ~x.early

LEMMA DetachKeeps ==
  ASSUME NEW x, Inv(x)
  PROVE  Inv(Detach(x)) /\ Parsed(Detach(x)) = Parsed(x)
BY DEF Detach, Inv, States, OnlyParsed, Counted, Parsed

\* In a parsed document that nobody holds back, it is not too early.
LEMMA ResolveKeeps ==
  ASSUME NEW x, Inv(x), Parsed(x), x.held = 0
  PROVE  Inv(Resolve(x))
<1>1. x \in States /\ ~x.early
  BY DEF Inv
<1>2. Resolve(x) = [x EXCEPT !.resolved = TRUE, !.early = FALSE]
  <2>1. x.early = FALSE
    BY <1>1 DEF States
  <2>2. (x.early \/ (~x.resolved /\ (~Parsed(x) \/ x.held > 0))) = FALSE
    BY <2>1
  <2> QED
    BY <2>2, Zenon DEF Resolve
<1>3. Resolve(x) \in States
  BY <1>1, <1>2 DEF States
<1>4. /\ Resolve(x).readyWait = x.readyWait /\ Resolve(x).held = x.held
      /\ Resolve(x).isReady = x.isReady /\ Resolve(x).document = x.document
      /\ Resolve(x).body = x.body /\ Resolve(x).timers = x.timers
      /\ Resolve(x).early = FALSE
  BY <1>1, <1>2 DEF States
<1> QED
  BY <1>3, <1>4 DEF Inv, OnlyParsed, Counted, Parsed

\* The event comes: in a parsed document, which the browser or a timer tells of.
LEMMA EventKeeps ==
  ASSUME NEW x, Inv(x), Parsed(x)
  PROVE  Inv(Ready(x, FALSE))
<1>1. CASE x.isReady
  BY <1>1 DEF Ready
<1>2. CASE ~x.isReady
  <2> DEFINE z == [x EXCEPT !.isReady = TRUE, !.readyWait = @ - 1]
  <2>1. x.body
    BY DEF Inv, OnlyParsed
  <2>2. Inv(z) /\ Parsed(z) /\ z.readyWait = z.held
    <3>1. x \in States /\ x.readyWait - 1 \in Int /\ x.held \in Nat
      BY DEF Inv, States
    <3>2. x.readyWait = x.held + 1
      BY <1>2 DEF Inv, Counted
    <3>3. z \in States
      BY <3>1 DEF States
    <3>4. /\ z.readyWait = x.readyWait - 1 /\ z.isReady = TRUE
          /\ z.held = x.held /\ z.document = x.document /\ z.body = x.body
          /\ z.early = x.early
      BY <3>1 DEF States
    <3>5. OnlyParsed(z) /\ Parsed(z) /\ ~z.early
      BY <2>1, <3>4 DEF Inv, OnlyParsed, Parsed
    <3>6. z.readyWait = z.held
      BY <3>1, <3>2, <3>4
    <3> QED
      BY <3>1, <3>3, <3>4, <3>5, <3>6 DEF Inv, Counted
  <2>3. z.readyWait > 0 => Ready(x, FALSE) = z
    BY <1>2, <2>1 DEF Ready
  <2>4. ~(z.readyWait > 0) => Ready(x, FALSE) = Resolve(z)
    BY <1>2, <2>1 DEF Ready
  <2>5. ~(z.readyWait > 0) => Inv(Resolve(z))
    <3>1. z.held \in Nat
      BY <2>2 DEF Inv, States
    <3>2. ~(z.readyWait > 0) => z.held = 0
      BY <2>2, <3>1
    <3> HIDE DEF z
    <3> QED
      BY <2>2, <3>2, ResolveKeeps
  <2> QED
    BY <2>2, <2>3, <2>4, <2>5
<1> QED
  BY <1>1, <1>2

\* A script releases the event: it comes then only if it has come before.
LEMMA ReleaseKeeps ==
  ASSUME NEW x, Inv(x), x.held > 0
  PROVE  Inv(Ready([x EXCEPT !.held = @ - 1], TRUE))
<1> DEFINE u == [x EXCEPT !.held = @ - 1]
           y == [u EXCEPT !.readyWait = @ - 1]
           z == [y EXCEPT !.isReady = TRUE, !.readyWait = @]
<1>1. Inv(y) /\ Parsed(y) = Parsed(x)
  <2>1. x \in States /\ x.readyWait \in Int /\ x.readyWait - 1 \in Int
    BY DEF Inv, States
  <2>2. x.held \in Nat /\ x.held - 1 \in Nat
    BY DEF Inv, States
  <2>3. u \in States /\ u.held = x.held - 1 /\ u.readyWait = x.readyWait
    BY <2>1, <2>2 DEF States
  <2>4. y \in States
    BY <2>1, <2>3 DEF States
  <2>5. /\ y.readyWait = x.readyWait - 1 /\ y.held = x.held - 1
        /\ y.isReady = x.isReady /\ y.document = x.document /\ y.body = x.body
        /\ y.timers = x.timers /\ y.early = x.early
    BY <2>1, <2>3 DEF States
  <2>6. Counted(y)
    BY <2>1, <2>2, <2>5 DEF Inv, Counted
  <2>7. OnlyParsed(y) /\ Parsed(y) = Parsed(x) /\ ~y.early
    BY <2>5 DEF Inv, OnlyParsed, Parsed
  <2> QED
    BY <2>4, <2>6, <2>7 DEF Inv
<1>2. CASE y.readyWait # 0
  BY <1>1, <1>2 DEF Ready
<1>3. CASE y.readyWait = 0
  <2>1. y.isReady /\ y.held = 0 /\ Parsed(y) /\ y.body
    BY <1>1, <1>3 DEF Inv, States, OnlyParsed, Counted
  <2>2. z = y
    BY <1>1, <2>1 DEF Inv, States
  <2>3. Ready(u, TRUE) = Resolve(z)
    BY <1>3, <2>1 DEF Ready
  <2>4. Inv(Resolve(y))
    BY <1>1, <2>1, ResolveKeeps
  <2> QED
    BY <2>2, <2>3, <2>4
<1> QED
  BY <1>2, <1>3

LEMMA Keeps ==
  ASSUME Inv(s), [Next]_s
  PROVE  Inv(s)'
<1> USE DEF Inv, States, OnlyParsed, Counted, Parsed
<1>1. CASE Ask
  <2>1. s \in States /\ s.timers + 1 \in Nat
    OBVIOUS
  <2>2. \/ s' = [s EXCEPT !.asked = TRUE, !.timers = @ + 1] /\ s.document = 3
        \/ \E b \in BOOLEAN : s' = [s EXCEPT !.asked = TRUE, !.listening = TRUE, !.scrolling = b]
    BY <1>1 DEF Ask, Complete
  <2>3. s' \in States
    BY <2>1, <2>2
  <2>4. /\ s'.readyWait = s.readyWait /\ s'.held = s.held /\ s'.isReady = s.isReady
        /\ s'.document = s.document /\ s'.body = s.body /\ s'.early = s.early
        /\ s'.timers = s.timers \/ s.document = 3
    BY <2>1, <2>2
  <2> QED
    BY <2>1, <2>3, <2>4
<1>2. CASE Hold
  <2>1. s \in States /\ s.readyWait + 1 \in Int /\ s.held + 1 \in Nat /\ s.holds + 1 \in Int
    OBVIOUS
  <2>2. s' \in States
    BY <1>2, <2>1 DEF Hold
  <2>3. /\ s'.readyWait = s.readyWait + 1 /\ s'.held = s.held + 1
        /\ s'.isReady = s.isReady /\ s'.document = s.document /\ s'.body = s.body
        /\ s'.timers = s.timers /\ s'.early = s.early
    BY <1>2, <2>1 DEF Hold
  <2> QED
    BY <2>1, <2>2, <2>3
<1>3. CASE Release
  BY <1>3, ReleaseKeeps DEF Release
<1>4. CASE Parse
  <2>1. \/ s' = [s EXCEPT !.body = TRUE]
        \/ s.body /\ s.document + 1 \in 1 .. 3 /\ s' = [s EXCEPT !.document = @ + 1]
    BY <1>4 DEF Parse
  <2>2. s' \in States
    BY <2>1
  <2>3. /\ s'.readyWait = s.readyWait /\ s'.held = s.held /\ s'.isReady = s.isReady
        /\ s'.timers = s.timers /\ s'.early = s.early
        /\ \/ s'.document = s.document /\ s'.body
           \/ s'.document = s.document + 1 /\ s'.body /\ s.body
    BY <2>1
  <2> QED
    BY <2>2, <2>3
<1>5. CASE Tell
  <2> DEFINE x == [s EXCEPT !.told = s.document]
  <2>1. Inv(x) /\ Parsed(x)
    BY <1>5 DEF Tell
  <2>2. Inv(Detach(x)) /\ Parsed(Detach(x))
    BY <2>1, DetachKeeps
  <2>3. Inv(Ready(Detach(x), FALSE))
    BY <2>2, EventKeeps
  <2>4. s' = x \/ s' = Ready(Detach(x), FALSE)
    BY <1>5 DEF Tell, Completed
  <2> QED
    BY <2>1, <2>3, <2>4
<1>6. CASE Timeout
  <2> DEFINE x == [s EXCEPT !.timers = @ - 1]
  <2>1. Inv(x) /\ Parsed(x)
    BY <1>6 DEF Timeout
  <2> QED
    BY <1>6, <2>1, EventKeeps DEF Timeout
<1>7. CASE DoScrollCheck
  <2> DEFINE x == [s EXCEPT !.scrolling = FALSE]
  <2>1. Inv(x) /\ Parsed(x) = Parsed(s)
    OBVIOUS
  <2>2. Parsed(s) => Inv(Ready(Detach(x), FALSE))
    BY <2>1, DetachKeeps, EventKeeps
  <2> DEFINE y == Ready(Detach(x), FALSE)
  <2>3. s' = x \/ s' = s \/ (Parsed(s) /\ s' = y)
    BY <1>7, Zenon DEF DoScrollCheck, Parsed
  <2> HIDE DEF x, y, Inv, Parsed
  <2>4. Inv(x) /\ (Parsed(s) => Inv(y))
    BY <2>1, <2>2, Zenon DEF y
  <2> QED
    BY <2>3, <2>4, Zenon
<1>8. CASE UNCHANGED s
  BY <1>8
<1> QED
  BY <1>1, <1>2, <1>3, <1>4, <1>5, <1>6, <1>7, <1>8 DEF Next, Browser

(* jQuery.ready() calls the functions of the page neither in a document that *)
(* is not parsed nor while a call of holdReady(true) is not taken back,       *)
(* whatever the browser and however often the event is held back.             *)
THEOREM ReadyInTime == Spec => []NotTooEarly
<1>1. Init => Inv(s)
  <2> SUFFICES ASSUME NEW b \in Browsers,
                      s = [browser |-> b, document |-> 1, body |-> FALSE, told |-> 1,
                           asked |-> FALSE, listening |-> FALSE, scrolling |-> FALSE,
                           timers |-> 0, isReady |-> FALSE, readyWait |-> 1,
                           resolved |-> FALSE, held |-> 0, holds |-> 0, early |-> FALSE]
               PROVE  Inv(s)
    BY DEF Init, Starts
  <2>1. s \in States
    BY DEF States
  <2>2. OnlyParsed(s) /\ Counted(s) /\ ~s.early
    BY DEF OnlyParsed, Counted, Parsed
  <2> QED
    BY <2>1, <2>2 DEF Inv
<1>2. Inv(s) /\ [Next]_s => Inv(s)'
  BY Keeps
<1>3. Inv(s) => NotTooEarly
  BY DEF Inv, NotTooEarly
<1> QED
  BY <1>1, <1>2, <1>3, PTL DEF Spec

-----------------------------------------------------------------------------
(* The callback lists, for the functions and options the run gives them.     *)

\* The theorems of Callbacks_proofs.
Listing == INSTANCE Callbacks_proofs WITH s <- calls, Functions <- {"f", "g"}

LEMMA ContractTransported == Listing!KeepsContract => Lists!KeepsContract
<1> USE DEF Listing!l, Lists!l
<1>1. Listing!InBounds' => Lists!InBounds'
  BY Zenon DEF Listing!InBounds, Lists!InBounds, Listing!Calls, Lists!Calls
<1>2. Listing!NoneSkipped' => Lists!NoneSkipped'
  BY Zenon DEF Listing!NoneSkipped, Lists!NoneSkipped, Listing!Calls, Lists!Calls,
               Listing!None, Lists!None
<1>3. Listing!CallsOwed => Lists!CallsOwed
  BY Zenon DEF Listing!CallsOwed, Lists!CallsOwed, Listing!Call, Lists!Call,
               Listing!Calls, Lists!Calls, Listing!Called, Lists!Called,
               Listing!Cardinality, Lists!Cardinality
<1>4. Listing!InOrder => Lists!InOrder
  BY Zenon DEF Listing!InOrder, Lists!InOrder
<1> QED
  BY <1>1, <1>2, <1>3, <1>4 DEF Listing!KeepsContract, Lists!KeepsContract

(* In the run, too, fire() calls each function of a list once and the values *)
(* in order, however often the functions change the list and fire it again,  *)
(* for any number of values and functions in it (jQuery.Callbacks).          *)
THEOREM CallsOnce == Listing!Spec => CallsEachOnce
<1>1. Listing!Spec => Listing!CallsEachOnce
  BY Listing!EachOnce
<1>2. [Listing!KeepsContract]_calls => [Lists!KeepsContract]_calls
  BY ContractTransported
<1> QED
  BY <1>1, <1>2, PTL DEF Listing!CallsEachOnce, CallsEachOnce

-----------------------------------------------------------------------------
(* Deferreds: the theorem of Deferreds_proofs, for the functions of the page. *)

Promising == INSTANCE Deferreds_proofs WITH
  s <- deferreds, Plain <- 0, Chained <- {"resolve"}, Handlers <- PageHandlers

LEMMA PageListens ==
  ASSUME Subordinates \in Nat
  PROVE  Promising!HandlersFit /\ {"resolve"} \subseteq Promising!Tuples
<1>1. \A h \in PageHandlers : /\ h.d \in {1, Subordinates + 2}
                              /\ h.t \in {"resolve", "reject", "always"}
  BY DEF PageHandlers
<1>2. 1 \in Promising!Deferreds /\ Subordinates + 2 \in Promising!Deferreds
  BY DEF Promising!Deferreds, Promising!Subs, Promising!Master, Promising!Follower
<1> QED
  BY <1>1, <1>2 DEF Promising!HandlersFit, Promising!Tuples

LEMMA OutcomesTransported == Promising!OutcomesAgree => Promises!OutcomesAgree
<1>1. /\ Promising!Subs = Promises!Subs /\ Promising!Master = Promises!Master
      /\ Promising!Inner = Promises!Inner /\ Promising!Follower = Promises!Follower
      /\ Promising!Final = Promises!Final
  BY Zenon DEF Promising!Subs, Promises!Subs, Promising!Master, Promises!Master,
               Promising!Inner, Promises!Inner, Promising!Follower, Promises!Follower,
               Promising!Final, Promises!Final
<1>2. /\ Promising!Busy <=> Promises!Busy
      /\ \A d : Promising!Settled(d) <=> Promises!Settled(d)
      /\ \A h, state : Promising!Expects(h, state) <=> Promises!Expects(h, state)
  BY <1>1, Zenon DEF Promising!Busy, Promises!Busy, Promising!Settled, Promises!Settled,
                     Promising!Expects, Promises!Expects
<1>3. Promising!OutcomeIsHeard => Promises!OutcomeIsHeard
  BY <1>2, Zenon DEF Promising!OutcomeIsHeard, Promises!OutcomeIsHeard
<1>4. Promising!NobodyIsMissed => Promises!NobodyIsMissed
  BY <1>2, Zenon DEF Promising!NobodyIsMissed, Promises!NobodyIsMissed
<1>5. Promising!WhenAgrees => Promises!WhenAgrees
  BY <1>1, <1>2, Zenon DEF Promising!WhenAgrees, Promises!WhenAgrees
<1>6. Promising!ThenAgrees => Promises!ThenAgrees
  BY <1>1, <1>2 DEF Promising!ThenAgrees, Promises!ThenAgrees
<1> QED
  BY <1>3, <1>4, <1>5, <1>6 DEF Promising!OutcomesAgree, Promises!OutcomesAgree

\* However many arguments when() has: each function of the page is called once for
\* the outcome it waits for, and when() and then() have the outcomes they should
\* (Deferred, then, when).
THEOREM OutcomesHold ==
  ASSUME Subordinates \in Nat
  PROVE  Promising!Spec => []OutcomesAgree
<1>1. Promising!Spec => []Promising!OutcomesAgree
  BY PageListens, Promising!OutcomesHold
<1>2. Promising!OutcomesAgree => OutcomesAgree
  BY OutcomesTransported DEF OutcomesAgree
<1> QED
  BY <1>1, <1>2, PTL

-----------------------------------------------------------------------------
(* ajax(): the theorems of Ajax_proofs, for the requests of the run.         *)

Requesting == INSTANCE Ajax_proofs WITH
  s <- ajax, Kinds <- RequestKinds, AbortsIn <- {"prefilter", "before"}

LEMMA PageFits ==
  ASSUME MaxRequests \in Nat
  PROVE  Requesting!Page
BY DEF Requesting!Page, Requesting!Options, RequestKinds, Request

\* However many requests the page makes: a request ends once, no timer of it is
\* left, and jQuery.active counts the requests under way (ajax, done).
THEOREM EndOnce ==
  ASSUME MaxRequests \in Nat
  PROVE  Requesting!Spec => []RequestsEndOnce
<1>1. Requesting!Spec => []Requesting!RequestsEndOnce
  BY PageFits, Requesting!EndOnce
<1>2. Requesting!RequestsEndOnce => RequestsEndOnce
  <2>1. Requesting!EndsOnce => Requests!EndsOnce
    BY Zenon DEF Requesting!EndsOnce, Requests!EndsOnce, Requesting!Ids, Requests!Ids,
                 Requesting!Over, Requests!Over, Requesting!OnStack, Requests!OnStack
  <2>2. Requesting!ActiveCounts => Requests!ActiveCounts
    BY Zenon DEF Requesting!ActiveCounts, Requests!ActiveCounts, Requesting!Ids, Requests!Ids,
                 Requesting!InDone, Requests!InDone,
                 Requesting!Cardinality, Requests!Cardinality
  <2> QED
    BY <2>1, <2>2 DEF RequestsEndOnce, Requests!RequestsEndOnce, Requesting!RequestsEndOnce
<1> QED
  BY <1>1, <1>2, PTL

LEMMA GeneratedFits ==
  ASSUME MaxRequests \in Nat
  PROVE  Requesting!Generated
BY PageFits DEF Requesting!Generated, RequestKinds, Request

\* However many jsonp requests the page makes: each delivers the data of its own
\* answer, two never share a name, and window is left as the page had it (the jsonp
\* prefilter, its clean-up and converter).
THEOREM NamesKept ==
  ASSUME MaxRequests \in Nat
  PROVE  Requesting!Spec => []JsonpApart
<1>1. Requesting!Spec => []Requesting!JsonpApart
  BY GeneratedFits, Requesting!NamesKept
<1>2. Requesting!JsonpApart => JsonpApart
  <2>1. Requesting!OwnData => Requests!OwnData
    BY Zenon DEF Requesting!OwnData, Requests!OwnData, Requesting!Ids, Requests!Ids
  <2>2. Requesting!NamesApart => Requests!NamesApart
    BY Zenon DEF Requesting!NamesApart, Requests!NamesApart, Requesting!Ids, Requests!Ids,
                 Requesting!JsonpOpen, Requests!JsonpOpen
  <2>3. Requesting!WindowRestored => Requests!WindowRestored
    BY Zenon DEF Requesting!WindowRestored, Requests!WindowRestored, Requesting!Ids, Requests!Ids,
                 Requesting!JsonpOpen, Requests!JsonpOpen, Requesting!OwnName, Requests!OwnName,
                 Requesting!PageFunction, Requests!PageFunction, Requesting!None, Requests!None
  <2> QED
    BY <2>1, <2>2, <2>3 DEF JsonpApart, Requests!JsonpApart, Requesting!JsonpApart
<1> QED
  BY <1>1, <1>2, PTL

-----------------------------------------------------------------------------
(* ajaxConvert(): the conversion of a response, for all converters.          *)

\* What is still to be made: the types after the i-th, from the k-th, which is
\* the last one asked for by name so far; or the i-th is made of another type first.
Reached(goal, prev, types) ==
  \E k \in 1 .. Len(goal), i \in 1 .. Len(goal) :
    /\ k =< i /\ types = SubSeq(goal, i + 1, Len(goal))
    /\ prev = goal[k] /\ goal[k] # "*"
    /\ \A j \in k + 1 .. i : goal[j] = "*"
Detour(c, goal, prev, types) ==
  \E i \in 1 .. Len(goal) :
    /\ types = SubSeq(goal, i, Len(goal)) /\ goal[i] # "*"
    /\ <<prev, goal[i]>> \in DOMAIN c /\ Types!Has(c, <<prev, goal[i]>>)
Place(c, goal, prev, types) == Reached(goal, prev, types) \/ Detour(c, goal, prev, types)

Conversions ==
  [c : ConverterMaps, prev : TypeNames, types : Seq(TypeNames), goal : Seq(TypeNames),
   is : TypeNames, fits : BOOLEAN,
   state : {"converting", "success", "parsererror", "no conversion"}]

Converting(x) ==
  /\ x \in Conversions /\ x.fits
  /\ Types!CountsAs(x.c, x.is, x.prev)
  /\ x.state = "converting" => Place(x.c, x.goal, x.prev, x.types)

LEMMA FirstIsNumber ==
  ASSUME NEW S \in SUBSET Nat, S # {}
  PROVE  Types!Min(S) \in S
<1>1. PICK m \in S : \A n \in S : ~(<<n, m>> \in OpToRel(<, Nat))
  BY NatLessThanWellFounded, WFMin
<1>2. ASSUME NEW n \in S PROVE m =< n
  <2>1. <<n, m>> \in Nat \X Nat /\ <<n, m>>[1] = n /\ <<n, m>>[2] = m
    OBVIOUS
  <2>2. ~(n < m)
    BY <1>1, <2>1, Zenon DEF OpToRel
  <2> QED
    BY <2>2
<1> QED
  BY <1>2 DEF Types!Min

LEMMA OneIsList ==
  ASSUME NEW S, NEW e \in S
  PROVE  <<e>> \in Seq(S) /\ Len(<<e>>) = 1 /\ <<e>>[1] = e
OBVIOUS

LEMMA GoalIsList ==
  ASSUME NEW wanted \in Seq(TypeNames), NEW content \in TypeNames
  PROVE  /\ Types!DataTypes(wanted, content) \in Seq(TypeNames)
         /\ Len(Types!DataTypes(wanted, content)) >= 1
         /\ Types!DataTypes(wanted, content)[1] = "text"
<1> DEFINE I == {i \in 1 .. Len(wanted) : wanted[i] # "*"}
           rest == IF I # {} THEN Types!Min(I) ELSE 0
           fixed == IF rest = 0 THEN <<>> ELSE SubSeq(wanted, rest, Len(wanted))
           typed == IF wanted # fixed /\ content # "none" THEN <<content>> \o fixed ELSE fixed
           goal == IF typed # <<>> /\ Head(typed) = "text" THEN typed ELSE <<"text">> \o typed
<1>1. rest \in 0 .. Len(wanted)
  <2>1. I \in SUBSET Nat /\ Len(wanted) \in Nat
    OBVIOUS
  <2>2. I # {} => Types!Min(I) \in I
    BY <2>1, FirstIsNumber
  <2> QED
    BY <2>1, <2>2
<1>2. fixed \in Seq(TypeNames)
  <2> HIDE DEF rest
  <2>1. ASSUME rest # 0 PROVE SubSeq(wanted, rest, Len(wanted)) \in Seq(TypeNames)
    <3>1. \A i \in rest .. Len(wanted) : wanted[i] \in TypeNames
      BY <1>1, <2>1
    <3> QED
      BY <1>1, <3>1, SubSeqProperties
  <2> QED
    BY <2>1, EmptySeq
<1>3. typed \in Seq(TypeNames)
  <2> HIDE DEF fixed
  <2>1. <<content>> \in Seq(TypeNames)
    BY OneIsList
  <2>2. <<content>> \o fixed \in Seq(TypeNames)
    BY <1>2, <2>1, ConcatProperties
  <2> QED
    BY <1>2, <2>2
<1>4. goal \in Seq(TypeNames) /\ Len(goal) >= 1 /\ goal[1] = "text"
  <2> HIDE DEF typed
  <2>1. CASE typed # <<>> /\ Head(typed) = "text"
    BY <1>3, <2>1
  <2>2. CASE ~(typed # <<>> /\ Head(typed) = "text")
    <3>1. <<"text">> \in Seq(TypeNames) /\ Len(<<"text">>) = 1 /\ <<"text">>[1] = "text"
      BY ConvertersAssumption, OneIsList DEF ConvertersAssumption
    <3>2. /\ <<"text">> \o typed \in Seq(TypeNames)
          /\ Len(<<"text">> \o typed) = 1 + Len(typed)
          /\ (<<"text">> \o typed)[1] = "text"
      BY <1>3, <3>1, ConcatProperties
    <3>3. goal = <<"text">> \o typed
      BY <2>2
    <3>4. Len(typed) \in Nat
      BY <1>3, LenProperties
    <3> HIDE DEF goal
    <3>5. Len(goal) = 1 + Len(typed)
      BY <3>2, <3>3, Zenon
    <3>6. goal \in Seq(TypeNames) /\ goal[1] = "text"
      BY <3>2, <3>3, Zenon
    <3> QED
      BY <3>4, <3>5, <3>6
  <2> QED
    BY <2>1, <2>2
<1>5. Types!DataTypes(wanted, content) = goal
  BY DEF Types!DataTypes, Types!SelectInSeq
<1> HIDE DEF goal
<1> QED
  BY <1>4, <1>5

\* An equivalence leads from what a value counts as to one type more.
LEMMA CountsOn ==
  ASSUME NEW c \in ConverterMaps, NEW is, NEW prev, NEW to,
         Types!CountsAs(c, is, prev), Types!Same(c, Types!Direct(c, prev, to))
  PROVE  Types!CountsAs(c, is, to)
<1> DEFINE Targets == {p[2] : p \in DOMAIN c}
<1>1. Types!Direct(c, prev, to) \in DOMAIN c /\ Types!Direct(c, prev, to)[2] = to
  BY DEF Types!Same, Types!Converter, Types!Direct
<1>2. SUFFICES ASSUME NEW T \in SUBSET Targets,
                      \A x \in T \cup {is} : Types!Leads(c, x, T)
               PROVE  to \in T
  BY DEF Types!CountsAs
<1>3. prev \in T \cup {is}
  BY <1>2 DEF Types!CountsAs
<1>4. Types!Leads(c, prev, T)
  BY <1>2, <1>3
<1> QED
  BY <1>1, <1>4 DEF Types!Leads

LEMMA ConvertersArePairs ==
  ASSUME NEW c \in ConverterMaps, NEW p \in DOMAIN c
  PROVE  p = <<p[1], p[2]>> /\ p[1] \in TypeNames /\ p[2] \in TypeNames
BY ConvertersAssumption DEF ConvertersAssumption

\* A converter that is there and not from "*" is the direct one.
LEMMA DirectIsThere ==
  ASSUME NEW c \in ConverterMaps, NEW p \in DOMAIN c, Types!Has(c, p)
  PROVE  Types!Direct(c, p[1], p[2]) = p
<1>1. p = <<p[1], p[2]>>
  BY ConvertersArePairs
<1> QED
  BY <1>1 DEF Types!Direct, Types!Has

\* What an application does when its input is of the type it takes.
LEMMA ApplyKeeps ==
  ASSUME Converting(conversion), conversion.state = "converting",
         NEW step \in DOMAIN conversion.c, NEW to \in TypeNames, NEW types \in Seq(TypeNames),
         Types!Apply(step, to, types),
         Place(conversion.c, conversion.goal, to, types),
         IF Types!Same(conversion.c, step) THEN Types!CountsAs(conversion.c, conversion.is, to)
         ELSE /\ Types!Takes(conversion.c, step, conversion.is)
              /\ Types!CountsAs(conversion.c, step[2], to)
  PROVE  Converting(conversion') /\ conversion'.state \in {"converting", "parsererror"}
<1>1. conversion \in Conversions /\ conversion.fits = TRUE
  BY DEF Converting, Conversions
<1>2. step[2] \in TypeNames
  BY <1>1, ConvertersArePairs DEF Conversions
<1>3. CASE Types!Same(conversion.c, step)
  <2>1. conversion' = [conversion EXCEPT !.prev = to, !.types = types]
    BY <1>3 DEF Types!Apply
  <2> QED
    BY <1>1, <1>3, <2>1 DEF Converting, Conversions
<1>4. CASE ~Types!Same(conversion.c, step)
  <2>1. \/ conversion' = [conversion EXCEPT !.prev = to, !.types = types, !.is = step[2],
                                           !.fits = TRUE]
        \/ conversion' = [conversion EXCEPT !.state = "parsererror", !.fits = TRUE]
    BY <1>1, <1>4 DEF Types!Apply
  <2> QED
    BY <1>1, <1>2, <1>4, <2>1 DEF Converting, Conversions
<1> QED
  BY <1>3, <1>4

\* The rest of the list, and what is asked for next.
LEMMA Suffix ==
  ASSUME NEW goal \in Seq(TypeNames), NEW i \in 0 .. Len(goal),
         SubSeq(goal, i + 1, Len(goal)) # <<>>
  PROVE  /\ i < Len(goal)
         /\ Head(SubSeq(goal, i + 1, Len(goal))) = goal[i + 1]
         /\ Tail(SubSeq(goal, i + 1, Len(goal))) = SubSeq(goal, i + 2, Len(goal))
<1>1. i < Len(goal)
  BY SubSeqEmpty
<1> QED
  BY <1>1, HeadTailOfSubSeq

\* The types between two that are asked for by name make no step possible.
LEMMA StarsHelpNot ==
  ASSUME NEW c \in ConverterMaps, NEW from \in TypeNames, NEW to \in TypeNames,
         to \notin {"*", from}, ~Types!Has(c, Types!Direct(c, from, to)),
         Types!Between(c, from, to) = {}
  PROVE  ~Types!Possible(c, from, to) /\ ~Types!Possible(c, "*", to)
<1>1. ~Types!Has(c, <<from, to>>) /\ ~Types!Has(c, <<"*", to>>)
  BY DEF Types!Has, Types!Direct
<1>2. ASSUME NEW p \in DOMAIN c, p[2] = to, Types!Has(c, p),
             Types!Has(c, <<from, p[1]>>) \/ Types!Has(c, <<"*", p[1]>>)
      PROVE  FALSE
  BY <1>2 DEF Types!Between, Types!Has, Types!Direct
<1> QED
  BY <1>1, <1>2 DEF Types!Possible

\* Where the next type is reached, the list goes on from there.
LEMMA NextReached ==
  ASSUME NEW c, NEW goal \in Seq(TypeNames), NEW prev, NEW types,
         Place(c, goal, prev, types), types # <<>>
  PROVE  /\ Head(types) \in TypeNames
         /\ Head(types) # "*" => Place(c, goal, Head(types), Tail(types))
         /\ Head(types) # "*" =>
              \A p \in DOMAIN c : p = <<p[1], Head(types)>> /\ Types!Has(c, p)
                => Place(c, goal, p[1], <<Head(types)>> \o Tail(types))
         /\ Head(types) \in {"*", prev} => Place(c, goal, prev, Tail(types))
<1>1. PICK m \in 0 .. Len(goal) : types = SubSeq(goal, m + 1, Len(goal))
  <2>1. CASE Reached(goal, prev, types)
    BY <2>1 DEF Reached
  <2>2. CASE Detour(c, goal, prev, types)
    <3>1. PICK i \in 1 .. Len(goal) : types = SubSeq(goal, i, Len(goal))
      BY <2>2 DEF Detour
    <3>2. i - 1 \in 0 .. Len(goal) /\ (i - 1) + 1 = i
      OBVIOUS
    <3> QED
      BY <3>1, <3>2
  <2> QED
    BY <2>1, <2>2 DEF Place
<1>2. /\ m < Len(goal) /\ Head(types) = goal[m + 1]
      /\ Tail(types) = SubSeq(goal, m + 2, Len(goal))
  BY <1>1, Suffix
<1>3. Head(types) \in TypeNames
  BY <1>2
<1>4. ASSUME Head(types) # "*" PROVE Place(c, goal, Head(types), Tail(types))
  <2>1. m + 1 \in 1 .. Len(goal) /\ (m + 1) + 1 = m + 2 /\ (m + 1) + 1 .. m + 1 = {}
    BY <1>2
  <2> QED
    BY <1>2, <1>4, <2>1 DEF Place, Reached
<1>5. ASSUME Head(types) # "*",
             NEW p \in DOMAIN c, p = <<p[1], Head(types)>>, Types!Has(c, p)
      PROVE  Place(c, goal, p[1], <<Head(types)>> \o Tail(types))
  <2>1. m + 1 \in 1 .. Len(goal) /\ Len(goal) \in (m + 1) .. Len(goal)
    BY <1>2
  <2>2. <<Head(types)>> \o Tail(types) = SubSeq(goal, m + 1, Len(goal))
    BY <1>2, <2>1, SubSeqRecursiveFirst
  <2> QED
    BY <1>2, <1>5, <2>1, <2>2 DEF Place, Detour
<1>6. ASSUME Head(types) \in {"*", prev} PROVE Place(c, goal, prev, Tail(types))
  <2>1. CASE Head(types) = "*"
    <3>1. CASE Reached(goal, prev, types)
      <4>1. PICK k \in 1 .. Len(goal), i \in 1 .. Len(goal) :
              /\ k =< i /\ types = SubSeq(goal, i + 1, Len(goal))
              /\ prev = goal[k] /\ goal[k] # "*"
              /\ \A j \in k + 1 .. i : goal[j] = "*"
        BY <3>1 DEF Reached
      <4>2. /\ i < Len(goal) /\ Head(types) = goal[i + 1]
            /\ Tail(types) = SubSeq(goal, i + 2, Len(goal))
        BY <4>1, Suffix
      <4>3. i + 1 \in 1 .. Len(goal) /\ k =< i + 1 /\ (i + 1) + 1 = i + 2
        BY <4>1, <4>2
      <4>4. \A j \in k + 1 .. i + 1 : goal[j] = "*"
        BY <2>1, <4>1, <4>2
      <4> QED
        BY <4>1, <4>2, <4>3, <4>4 DEF Place, Reached
    <3>2. CASE Detour(c, goal, prev, types)
      <4>1. PICK i \in 1 .. Len(goal) : types = SubSeq(goal, i, Len(goal)) /\ goal[i] # "*"
        BY <3>2 DEF Detour
      <4>2. Len(goal) \in i .. Len(goal)
        OBVIOUS
      <4>3. Head(types) = goal[i]
        BY <4>1, <4>2, HeadTailOfSubSeq
      <4> QED
        BY <2>1, <4>1, <4>3
    <3> QED
      BY <3>1, <3>2 DEF Place
  <2>2. CASE Head(types) # "*"
    BY <1>4, <1>6, <2>2
  <2> QED
    BY <2>1, <2>2
<1> QED
  BY <1>3, <1>4, <1>5, <1>6

\* A turn of the loop converts by what takes the value, and goes on in the list.
LEMMA ConvertKeeps ==
  ASSUME Converting(conversion), Types!Convert
  PROVE  \/ Converting(conversion') /\ conversion'.state \in {"converting", "parsererror"}
         \/ /\ \E i \in 1 .. Len(conversion.goal) - 1 :
                 ~Types!Possible(conversion.c, conversion.goal[i], conversion.goal[i + 1])
            /\ conversion' = [conversion EXCEPT !.state = "no conversion"]
<1> DEFINE c == conversion.c
           prev == conversion.prev
           goal == conversion.goal
           to == Head(conversion.types)
           rest == Tail(conversion.types)
           direct == Types!Direct(c, prev, to)
<1>1. /\ conversion \in Conversions /\ conversion.fits = TRUE
      /\ conversion.state = "converting" /\ conversion.types # <<>>
      /\ Types!CountsAs(c, conversion.is, prev)
      /\ Place(c, goal, prev, conversion.types)
  BY DEF Converting, Conversions, Types!Convert, Types!Turn
<1>2. c \in ConverterMaps /\ prev \in TypeNames /\ goal \in Seq(TypeNames)
      /\ conversion.types \in Seq(TypeNames) /\ conversion.is \in TypeNames
  BY <1>1 DEF Conversions
<1>3. to \in TypeNames /\ rest \in Seq(TypeNames)
  BY <1>1, <1>2, HeadTailProperties
<1>4. CASE to \in {"*", prev}
  <2>1. conversion' = [conversion EXCEPT !.types = rest]
    BY <1>4 DEF Types!Convert, Types!Turn
  <2>2. Place(c, goal, prev, rest)
    BY <1>1, <1>2, <1>4, NextReached
  <2> QED
    BY <1>1, <1>3, <2>1, <2>2 DEF Converting, Conversions
<1>5. CASE to \notin {"*", prev} /\ Types!Has(c, direct)
  <2>1. Types!Apply(direct, to, rest)
    BY <1>5 DEF Types!Convert, Types!Turn
  <2>2. Place(c, goal, to, rest)
    BY <1>1, <1>2, <1>5, NextReached
  <2>3. direct \in DOMAIN c /\ direct[1] \in {"*", prev} /\ direct[2] = to
    BY <1>5 DEF Types!Has, Types!Converter, Types!Direct
  <2>4. Types!Takes(c, direct, conversion.is)
    BY <1>1, <2>3 DEF Types!Takes
  <2>5. Types!CountsAs(c, direct[2], to)
    BY <2>3 DEF Types!CountsAs
  <2>6. Types!Same(c, direct) => Types!CountsAs(c, conversion.is, to)
    BY <1>1, <1>2, CountsOn
  <2> HIDE DEF direct
  <2> QED
    BY <1>1, <1>3, <2>1, <2>2, <2>3, <2>4, <2>5, <2>6, ApplyKeeps
<1>6. CASE to \notin {"*", prev} /\ ~Types!Has(c, direct)
  <2>1. CASE Types!Between(c, prev, to) = {}
    <3>1. conversion' = [conversion EXCEPT !.state = "no conversion"]
      BY <1>6, <2>1 DEF Types!Convert, Types!Turn
    <3>2. ~Types!Possible(c, prev, to) /\ ~Types!Possible(c, "*", to)
      BY <1>2, <1>3, <1>6, <2>1, StarsHelpNot
    <3>3. CASE Reached(goal, prev, conversion.types)
      <4>1. PICK k \in 1 .. Len(goal), i \in 1 .. Len(goal) :
              /\ k =< i /\ conversion.types = SubSeq(goal, i + 1, Len(goal))
              /\ prev = goal[k] /\ goal[k] # "*"
              /\ \A j \in k + 1 .. i : goal[j] = "*"
        BY <3>3 DEF Reached
      <4>2. i < Len(goal) /\ to = goal[i + 1]
        BY <1>1, <1>2, <4>1, Suffix
      <4>3. goal[i] \in {"*", prev}
        BY <4>1
      <4>4. i \in 1 .. Len(goal) - 1
        BY <1>2, <4>1, <4>2
      <4>5. ~Types!Possible(c, goal[i], goal[i + 1])
        BY <3>2, <4>2, <4>3
      <4> QED
        BY <3>1, <4>4, <4>5
    <3>4. CASE Detour(c, goal, prev, conversion.types)
      <4>1. PICK i \in 1 .. Len(goal) :
              /\ conversion.types = SubSeq(goal, i, Len(goal))
              /\ Types!Has(c, <<prev, goal[i]>>)
        BY <3>4 DEF Detour
      <4>2. Len(goal) \in i .. Len(goal)
        BY <1>2, <4>1
      <4>3. to = goal[i]
        BY <1>2, <4>1, <4>2, HeadTailOfSubSeq
      <4> QED
        BY <1>6, <4>1, <4>3 DEF Types!Has, Types!Direct
    <3> QED
      BY <1>1, <3>3, <3>4 DEF Place
  <2>2. CASE Types!Between(c, prev, to) # {}
    <3>1. PICK p \in Types!Between(c, prev, to) :
            Types!Via(p, Types!Direct(c, prev, p[1]), to, rest)
      BY <1>6, <2>2 DEF Types!Convert, Types!Turn
    <3> DEFINE first == Types!Direct(c, prev, p[1])
    <3>2. p \in DOMAIN c /\ p[2] = to /\ Types!Has(c, p) /\ Types!Has(c, first)
      BY DEF Types!Between
    <3>3. p = <<p[1], to>> /\ p[1] \in TypeNames /\ Types!Direct(c, p[1], to) = p
      BY <1>2, <3>2, ConvertersArePairs, DirectIsThere
    <3>4. first \in DOMAIN c /\ first[1] \in {"*", prev} /\ first[2] = p[1]
      BY <3>2 DEF Types!Has, Types!Converter, Types!Direct
    <3>5. Types!Takes(c, first, conversion.is)
      BY <1>1, <3>4 DEF Types!Takes
    <3>6. Place(c, goal, to, rest) /\ Place(c, goal, p[1], <<to>> \o rest)
      BY <1>1, <1>2, <1>6, <3>2, <3>3, NextReached
    <3>7. <<to>> \o rest \in Seq(TypeNames)
      BY <1>3, OneIsList, ConcatProperties
    <3>8. Types!CountsAs(c, to, to) /\ Types!CountsAs(c, p[1], p[1])
      BY DEF Types!CountsAs
    <3>9. Types!Same(c, p) => Types!CountsAs(c, p[1], to)
      BY <1>2, <3>3, <3>8, CountsOn
    <3>10. CASE Types!Same(c, first)
      <4>1. Types!CountsAs(c, conversion.is, p[1])
        BY <1>1, <1>2, <3>10, CountsOn
      <4>2. Types!Takes(c, p, conversion.is)
        BY <4>1 DEF Types!Takes
      <4>3. Types!Same(c, p) => Types!CountsAs(c, conversion.is, to)
        BY <1>2, <3>3, <4>1, CountsOn
      <4>4. Types!Apply(p, to, rest)
        BY <3>1, <3>10 DEF Types!Via
      <4> QED
        BY <1>1, <1>3, <3>2, <3>6, <3>8, <4>2, <4>3, <4>4, ApplyKeeps
    <3>11. CASE ~Types!Same(c, first) /\ Types!Same(c, p)
      <4>1. Types!Apply(first, to, rest)
        BY <3>1, <3>11 DEF Types!Via
      <4> HIDE DEF first
      <4> QED
        BY <1>1, <1>3, <3>4, <3>5, <3>6, <3>9, <3>11, <4>1, ApplyKeeps
    <3>12. CASE ~Types!Same(c, first) /\ ~Types!Same(c, p)
      <4>1. Types!Apply(first, p[1], <<to>> \o rest)
        BY <3>1, <3>2, <3>12 DEF Types!Via
      <4> HIDE DEF first
      <4> QED
        BY <1>1, <3>3, <3>4, <3>5, <3>6, <3>7, <3>8, <3>12, <4>1, ApplyKeeps
    <3> QED
      BY <3>10, <3>11, <3>12
  <2> QED
    BY <2>1, <2>2
<1> QED
  BY <1>4, <1>5, <1>6

\* What is true when the loop is at its end.
Conv(x) ==
  /\ x.state = "converting" => Converting(x)
  /\ x.fits
  /\ x.state = "success" =>
       \E i \in 1 .. Len(x.goal) :
         /\ x.goal[i] # "*" /\ \A j \in i + 1 .. Len(x.goal) : x.goal[j] = "*"
         /\ Types!CountsAs(x.c, x.is, x.goal[i])
  /\ x.state = "no conversion" =>
       \E i \in 1 .. Len(x.goal) - 1 : ~Types!Possible(x.c, x.goal[i], x.goal[i + 1])

\* Whatever the converters, the types that are asked for and the type the server
\* sends: each converter is given what it takes, the result is of the last type
\* asked for by name, and no conversion that is possible is refused (ajaxConvert).
THEOREM TypesMade == Types!Spec => []ConvertsRight
<1>1. Types!Init => Conv(conversion)
  <2> SUFFICES ASSUME NEW c \in ConverterMaps, NEW wanted \in WantedTypes,
                      NEW content \in ContentTypes,
                      conversion = [c |-> c, prev |-> "text",
                        types |-> Tail(Types!DataTypes(wanted, content)),
                        goal |-> Types!DataTypes(wanted, content), is |-> "text",
                        fits |-> TRUE, state |-> "converting"]
               PROVE  Conv(conversion)
    BY DEF Types!Init, Types!Starts
  <2> DEFINE goal == Types!DataTypes(wanted, content)
  <2>1. wanted \in Seq(TypeNames) /\ content \in TypeNames /\ "text" \in TypeNames
    BY ConvertersAssumption DEF ConvertersAssumption
  <2>2. goal \in Seq(TypeNames) /\ Len(goal) >= 1 /\ goal[1] = "text"
    BY <2>1, GoalIsList
  <2> HIDE DEF goal
  <2>3. Len(goal) \in Nat /\ goal # <<>>
    BY <2>2, LenProperties, EmptySeq
  <2>4. Tail(goal) = SubSeq(goal, 2, Len(goal)) /\ Tail(goal) \in Seq(TypeNames)
    BY <2>2, <2>3, TailIsSubSeq, HeadTailProperties
  <2>5. Reached(goal, "text", Tail(goal))
    <3>1. 1 \in 1 .. Len(goal) /\ 1 + 1 = 2 /\ 1 + 1 .. 1 = {}
      BY <2>2, <2>3
    <3> QED
      BY <2>2, <2>4, <3>1 DEF Reached
  <2>6. Types!CountsAs(c, "text", "text")
    BY DEF Types!CountsAs
  <2>7. conversion = [c |-> c, prev |-> "text", types |-> Tail(goal), goal |-> goal,
                      is |-> "text", fits |-> TRUE, state |-> "converting"]
    BY DEF goal
  <2> QED
    BY <2>1, <2>2, <2>4, <2>5, <2>6, <2>7 DEF Conv, Converting, Conversions, Place
<1>2. Conv(conversion) /\ [Types!Next]_conversion => Conv(conversion)'
  <2> SUFFICES ASSUME Conv(conversion), [Types!Next]_conversion PROVE Conv(conversion)'
    OBVIOUS
  <2>1. CASE Types!Convert
    <3>1. Converting(conversion)
      BY <2>1 DEF Conv, Types!Convert, Types!Turn
    <3>2. CASE Converting(conversion') /\ conversion'.state \in {"converting", "parsererror"}
      BY <3>2 DEF Conv, Converting
    <3>3. CASE /\ \E i \in 1 .. Len(conversion.goal) - 1 :
                    ~Types!Possible(conversion.c, conversion.goal[i], conversion.goal[i + 1])
               /\ conversion' = [conversion EXCEPT !.state = "no conversion"]
      <4>1. /\ conversion'.state = "no conversion" /\ conversion'.fits = conversion.fits
            /\ conversion'.goal = conversion.goal /\ conversion'.c = conversion.c
        BY <3>1, <3>3 DEF Converting, Conversions
      <4> QED
        BY <3>3, <4>1 DEF Conv
    <3> QED
      BY <2>1, <3>1, <3>2, <3>3, ConvertKeeps
  <2>2. CASE Types!Succeed
    <3>1. /\ Converting(conversion) /\ conversion.types = <<>>
          /\ conversion.state = "converting" /\ conversion' = [conversion EXCEPT !.state = "success"]
      BY <2>2 DEF Conv, Types!Succeed
    <3>2. conversion \in Conversions /\ conversion.goal \in Seq(TypeNames)
      BY <3>1 DEF Converting, Conversions
    <3>3. /\ conversion'.state = "success" /\ conversion'.fits = conversion.fits
          /\ conversion'.goal = conversion.goal /\ conversion'.c = conversion.c
          /\ conversion'.is = conversion.is
      BY <3>1, <3>2 DEF Conversions
    <3>4. CASE Detour(conversion.c, conversion.goal, conversion.prev, conversion.types)
      <4>1. PICK i \in 1 .. Len(conversion.goal) :
              conversion.types = SubSeq(conversion.goal, i, Len(conversion.goal))
        BY <3>4 DEF Detour
      <4>2. Len(conversion.types) = Len(conversion.goal) - i + 1
        BY <3>2, <4>1
      <4> QED
        BY <3>1, <3>2, <4>1, <4>2
    <3>5. CASE Reached(conversion.goal, conversion.prev, conversion.types)
      <4>1. PICK k \in 1 .. Len(conversion.goal), i \in 1 .. Len(conversion.goal) :
              /\ k =< i
              /\ conversion.types = SubSeq(conversion.goal, i + 1, Len(conversion.goal))
              /\ conversion.prev = conversion.goal[k] /\ conversion.goal[k] # "*"
              /\ \A j \in k + 1 .. i : conversion.goal[j] = "*"
        BY <3>5 DEF Reached
      <4>2. Len(conversion.goal) \in Nat
        BY <3>2, LenProperties
      <4>3. i = Len(conversion.goal)
        <5>1. Len(conversion.types) = IF i + 1 =< Len(conversion.goal)
                                      THEN Len(conversion.goal) - (i + 1) + 1 ELSE 0
          BY <3>2, <4>1, <4>2
        <5> QED
          BY <3>1, <4>1, <4>2, <5>1
      <4>4. Types!CountsAs(conversion.c, conversion.is, conversion.goal[k])
        BY <3>1, <4>1 DEF Converting
      <4> QED
        BY <3>3, <4>1, <4>3, <4>4 DEF Conv
    <3> QED
      BY <3>1, <3>4, <3>5 DEF Converting, Place
  <2>3. CASE UNCHANGED conversion
    BY <2>3 DEF Conv, Converting
  <2> QED
    BY <2>1, <2>2, <2>3 DEF Types!Next
<1>3. Conv(conversion) => ConvertsRight
  BY DEF Conv, ConvertsRight, Types!ConvertsRight, Types!InputsFit, Types!RightType
<1> QED
  BY <1>1, <1>2, <1>3, PTL DEF Types!Spec
=============================================================================
