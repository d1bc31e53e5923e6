----------------------------- MODULE Panels_proofs -----------------------------
(***************************************************************************)
(* The panels of the example behave as their modules are proved to,        *)
(* whichever of them is in use.                                            *)
(***************************************************************************)
EXTENDS MCPanels, FiniteSetTheorems, TLAPS

-----------------------------------------------------------------------------
(* The puller: a page that is not loaded anew has one timer, however many     *)
(* requests, clicks and answers there are and whether or not answers overtake *)
(* each other.                                                                *)

\* In the first page only the timer in the field timeout can be pending; and
\* nothing is under way before the ready handler, which forgets it.
TimerKnown ==
  loads = 0 =>
    /\ inline = FALSE
    /\ pending \subseteq {timeout}
    /\ stage # "live" => pending = {} /\ \A s \in Slots : request[s] = Free
Inv == loads \in Nat /\ TimerKnown

LEMMA UpdateKeeps ==
  ASSUME NEW told, UpdatePull(told), pending \subseteq {timeout}
  PROVE  pending' \subseteq {timeout'}
BY DEF UpdatePull, StartTimer

LEMMA TimerKept == Inv /\ [Next]_vars => Inv'
<1> SUFFICES ASSUME Inv, [Next]_vars PROVE Inv'
  OBVIOUS
<1> USE DEF Inv, TimerKnown
<1>1. CASE Load
  BY <1>1 DEF Load
<1>2. CASE RunInline
  BY <1>2 DEF RunInline, UpdatePull, requests
<1>3. CASE Ready
  BY <1>3 DEF Ready, requests
<1>4. ASSUME NEW kind \in Clicks, Click(kind) PROVE Inv'
  BY <1>4 DEF Click, page
<1>5. ASSUME NEW s \in Slots, Serve(s) PROVE Inv'
  <2>1. request[s] # Free
    BY <1>5 DEF Serve, Free
  <2> QED
    BY <1>5, <2>1 DEF Serve, page
<1>6. ASSUME NEW s \in Slots, Answer(s) PROVE Inv'
  <2>1. request[s] # Free
    BY <1>6 DEF Answer, Free
  <2>2. loads' = loads /\ inline' = inline /\ stage' = stage
    BY <1>6 DEF Answer
  <2>3. pending \subseteq {timeout} => pending' \subseteq {timeout'}
    BY <1>6, UpdateKeeps DEF Answer
  <2> QED
    BY <2>1, <2>2, <2>3
<1>7. ASSUME NEW t \in Timers, Pull(t) PROVE Inv'
  <2>1. pending \subseteq {timeout} => pending' \subseteq {timeout'}
    BY <1>7 DEF Pull, StartTimer
  <2> QED
    BY <1>7, <2>1 DEF Pull
<1>8. CASE UNCHANGED vars
  BY <1>8 DEF vars, page, requests
<1> QED
  BY <1>1, <1>2, <1>3, <1>4, <1>5, <1>6, <1>7, <1>8 DEF Next

LEMMA InvInit == Init => Inv
BY DEF Init, Inv, TimerKnown

LEMMA InvOneTimer == Inv => OneTimer
<1> SUFFICES ASSUME Inv, loads = 0 PROVE Cardinality(pending) <= 1
  BY DEF OneTimer
<1>1. pending = {} \/ pending = {timeout}
  BY DEF Inv, TimerKnown
<1>2. Cardinality({}) = 0 /\ Cardinality({timeout}) = 1
  BY FS_EmptySet, FS_Singleton
<1> QED
  BY <1>1, <1>2

(* fbw.pull.js clears the timer it knows before it starts another, and the   *)
(* timer it knows is the only one: requests of the first page never come at  *)
(* twice the rate asked for.                                                 *)
THEOREM OneTimerOnly == Spec => []OneTimer
BY InvInit, InvOneTimer, TimerKept, PTL DEF Spec

-----------------------------------------------------------------------------
(* The generated table: for any number of push executors, however clicks and *)
(* push runs race in setPullEnabled() of fbw.Task2, the table is fed; its    *)
(* mode is the selected one while no push run fires the radio buttons again; *)
(* and until they are clicked the generator lives as long as its button says.*)

FeedApart == Servlet \notin Executors

Feeds == [puller : BOOLEAN, executor : Executors, live : SUBSET Executors,
          tasks : SUBSET Executors]
FeedPlaces == {"idle", "fire", "shutdown", "pollOn", "create", "schedule", "flag", "submit",
               "failed", "test", "show", "empty", "form"}
Buttons == {"push", "pull", "toggle"}

FeedTyped ==
  /\ selected \in {"push", "pull"} /\ mode \in Feeds
  /\ tableRefires \in Nat /\ queued \in Nat
  /\ tableDirty \subseteq Buttons
  /\ at \in [Feed!Threads -> FeedPlaces] /\ fires \in [Feed!Threads -> SUBSET Buttons]

\* Where the table has nothing to be fed from, a thread is about to give it
\* something; and an executor can be missing only where polls take its place.
Within(places) == \E t \in Feed!Threads : at[t] \in places
Fed ==
  /\ mode.tasks \subseteq mode.live
  /\ mode.puller \/ mode.executor \in mode.live \/ Within({"pollOn", "create"})
  /\ Feed!TableFed \/ Within({"pollOn", "create", "schedule"})

\* Only the servlet thread is in setPullEnabled(): the mode it has made so far.
Pushing == ~mode.puller /\ mode.live = {mode.executor}
Polling == mode.puller /\ mode.live = {}
ServletFeeds ==
  /\ at[Servlet] # "fire" => fires[Servlet] = {}
  /\ at[Servlet] = "fire" =>
       \/ fires[Servlet] \in {{}, {"toggle"}} /\ Feed!ModeIsSelected
       \/ fires[Servlet] = {"pull"} /\ selected = "pull" /\ Pushing
       \/ fires[Servlet] = {"push"} /\ selected = "push" /\ Polling
  /\ at[Servlet] \in {"idle", "flag", "submit"} => Feed!ModeIsSelected
  /\ at[Servlet] = "shutdown" => selected = "pull" /\ Pushing
  /\ at[Servlet] = "pollOn" => selected = "pull" /\ mode.live = {}
  /\ at[Servlet] = "create" => selected = "push" /\ ~mode.puller /\ mode.live = {}
  /\ at[Servlet] = "schedule" => selected = "push" /\ Pushing
  /\ at[Servlet] # "failed"
NoRadios(t) ==
  fires[t] \cap Feed!Radios = {} /\ at[t] \notin {"shutdown", "pollOn", "create", "schedule"}
Selected == tableRefires = 0 => ServletFeeds /\ \A e \in Executors : NoRadios(e)

\* Until the first click of a radio button the mode is push mode, and the
\* generator never sets a model itself.
Untouched ==
  ~clicked => /\ Feed!PushMode /\ tableDirty \cap Feed!Radios = {}
              /\ gpc \notin {"show", "empty"}
              /\ \A t \in Feed!Threads : NoRadios(t)

FeedInv == FeedTyped /\ Fed /\ Selected /\ Untouched /\ Feed!GeneratorAlive

LEMMA FeedInit == FeedApart /\ Feed!Init => FeedInv
<1> SUFFICES ASSUME FeedApart, Feed!Init PROVE FeedInv
  OBVIOUS
<1>1. PICK e \in Executors : mode = [puller |-> FALSE, executor |-> e, live |-> {e}, tasks |-> {e}]
  BY DEF Feed!Init
<1>2. mode \in Feeds /\ Pushing /\ mode.tasks = mode.live /\ mode.tasks # {}
  BY <1>1 DEF Feeds, Pushing
<1>3. FeedTyped
  BY <1>2 DEF Feed!Init, FeedTyped, Buttons, FeedPlaces
<1>4. Fed
  BY <1>2 DEF Fed, Feed!TableFed, Pushing
<1>5. Selected
  BY <1>2 DEF Feed!Init, Selected, ServletFeeds, NoRadios, Pushing, Feed!ModeIsSelected, Feed!Threads
<1>6. Untouched /\ Feed!GeneratorAlive
  BY <1>2 DEF Feed!Init, Untouched, Feed!GeneratorAlive, Feed!PushMode, NoRadios, Pushing
<1> QED
  BY <1>3, <1>4, <1>5, <1>6 DEF FeedInv

LEMMA FeedTestExecutorKeeps ==
  ASSUME FeedApart, FeedInv, NEW t \in Feed!Threads, Feed!TestExecutor(t)
  PROVE  FeedInv'
<1> USE DEF FeedApart, FeedInv, Feed!TestExecutor, Feed!Goto, Feed!Fired, Feed!Records,
            Feed!Threads, Feed!Radios, Feed!click, Feed!threads, Feed!generator
<1>1. FeedTyped'
  BY DEF FeedTyped, Feeds, FeedPlaces, Buttons
<1>2. Fed'
  BY DEF FeedTyped, Feeds, Fed, Within, Feed!TableFed, Feed!PushMode
<1>3. Selected'
  BY DEF FeedTyped, Feeds, Selected, ServletFeeds, NoRadios, Pushing, Polling,
         Feed!ModeIsSelected, Feed!PushMode
<1>4. Untouched'
  BY DEF FeedTyped, Feeds, Untouched, NoRadios, Feed!PushMode
<1>5. Feed!GeneratorAlive'
  BY DEF FeedTyped, Untouched, NoRadios, Feed!PushMode, Feed!GeneratorAlive
<1> QED
  BY <1>1, <1>2, <1>3, <1>4, <1>5

LEMMA FeedShutdownKeeps ==
  ASSUME FeedApart, FeedInv, NEW t \in Feed!Threads, Feed!Shutdown(t)
  PROVE  FeedInv'
<1> USE DEF FeedApart, FeedInv, Feed!Shutdown, Feed!Goto, Feed!Fired, Feed!Records,
            Feed!Threads, Feed!Radios, Feed!click, Feed!threads, Feed!generator
<1>1. FeedTyped'
  BY DEF FeedTyped, Feeds, FeedPlaces, Buttons
<1>2. Fed'
  BY DEF FeedTyped, Feeds, Fed, Within, Feed!TableFed, Feed!PushMode
<1>3. Selected'
  BY DEF FeedTyped, Feeds, Selected, ServletFeeds, NoRadios, Pushing, Polling,
         Feed!ModeIsSelected, Feed!PushMode
<1>4. Untouched'
  BY DEF FeedTyped, Feeds, Untouched, NoRadios, Feed!PushMode
<1>5. Feed!GeneratorAlive'
  BY DEF FeedTyped, Untouched, NoRadios, Feed!PushMode, Feed!GeneratorAlive
<1> QED
  BY <1>1, <1>2, <1>3, <1>4, <1>5

LEMMA FeedPollOnKeeps ==
  ASSUME FeedApart, FeedInv, NEW t \in Feed!Threads, Feed!PollOn(t)
  PROVE  FeedInv'
<1> USE DEF FeedApart, FeedInv, Feed!PollOn, Feed!Goto, Feed!Fired, Feed!Records,
            Feed!Threads, Feed!Radios, Feed!click, Feed!threads, Feed!generator
<1>1. FeedTyped'
  BY DEF FeedTyped, Feeds, FeedPlaces, Buttons
<1>2. Fed'
  BY DEF FeedTyped, Feeds, Fed, Within, Feed!TableFed, Feed!PushMode
<1>3. Selected'
  BY DEF FeedTyped, Feeds, Selected, ServletFeeds, NoRadios, Pushing, Polling,
         Feed!ModeIsSelected, Feed!PushMode
<1>4. Untouched'
  BY DEF FeedTyped, Feeds, Untouched, NoRadios, Feed!PushMode
<1>5. Feed!GeneratorAlive'
  BY DEF FeedTyped, Untouched, NoRadios, Feed!PushMode, Feed!GeneratorAlive
<1> QED
  BY <1>1, <1>2, <1>3, <1>4, <1>5

LEMMA FeedPollOffKeeps ==
  ASSUME FeedApart, FeedInv, NEW t \in Feed!Threads, Feed!PollOff(t)
  PROVE  FeedInv'
<1> USE DEF FeedApart, FeedInv, Feed!PollOff, Feed!Goto, Feed!Fired, Feed!Records,
            Feed!Threads, Feed!Radios, Feed!click, Feed!threads, Feed!generator
<1>1. FeedTyped'
  BY DEF FeedTyped, Feeds, FeedPlaces, Buttons
<1>2. Fed'
  BY DEF FeedTyped, Feeds, Fed, Within, Feed!TableFed, Feed!PushMode
<1>3. Selected'
  BY DEF FeedTyped, Feeds, Selected, ServletFeeds, NoRadios, Pushing, Polling,
         Feed!ModeIsSelected, Feed!PushMode
<1>4. Untouched'
  BY DEF FeedTyped, Feeds, Untouched, NoRadios, Feed!PushMode
<1>5. Feed!GeneratorAlive'
  BY DEF FeedTyped, Untouched, NoRadios, Feed!PushMode, Feed!GeneratorAlive
<1> QED
  BY <1>1, <1>2, <1>3, <1>4, <1>5

LEMMA FeedCreateKeeps ==
  ASSUME FeedApart, FeedInv, NEW t \in Feed!Threads, Feed!Create(t)
  PROVE  FeedInv'
<1> USE DEF FeedApart, FeedInv, Feed!Create, Feed!Spare, Feed!Goto, Feed!Fired, Feed!Records,
            Feed!Threads, Feed!Radios, Feed!click, Feed!threads, Feed!generator
<1>1. FeedTyped'
  BY DEF FeedTyped, Feeds, FeedPlaces, Buttons
<1>2. Fed'
  BY DEF FeedTyped, Feeds, Fed, Within, Feed!TableFed, Feed!PushMode
<1>3. Selected'
  BY DEF FeedTyped, Feeds, Selected, ServletFeeds, NoRadios, Pushing, Polling,
         Feed!ModeIsSelected, Feed!PushMode
<1>4. Untouched'
  BY DEF FeedTyped, Feeds, Untouched, NoRadios, Feed!PushMode
<1>5. Feed!GeneratorAlive'
  BY DEF FeedTyped, Untouched, NoRadios, Feed!PushMode, Feed!GeneratorAlive
<1> QED
  BY <1>1, <1>2, <1>3, <1>4, <1>5

LEMMA FeedScheduleKeeps ==
  ASSUME FeedApart, FeedInv, NEW t \in Feed!Threads, Feed!Schedule(t)
  PROVE  FeedInv'
<1> USE DEF FeedApart, FeedInv, Feed!Schedule, Feed!Goto, Feed!Fired, Feed!Records,
            Feed!Threads, Feed!Radios, Feed!click, Feed!threads, Feed!generator
<1>1. FeedTyped'
  BY DEF FeedTyped, Feeds, FeedPlaces, Buttons
<1>2. Fed'
  BY DEF FeedTyped, Feeds, Fed, Within, Feed!TableFed, Feed!PushMode
<1>3. Selected'
  BY DEF FeedTyped, Feeds, Selected, ServletFeeds, NoRadios, Pushing, Polling,
         Feed!ModeIsSelected, Feed!PushMode
<1>4. Untouched'
  BY DEF FeedTyped, Feeds, Untouched, NoRadios, Feed!PushMode
<1>5. Feed!GeneratorAlive'
  BY DEF FeedTyped, Untouched, NoRadios, Feed!PushMode, Feed!GeneratorAlive
<1> QED
  BY <1>1, <1>2, <1>3, <1>4, <1>5

LEMMA FeedSetTextKeeps ==
  ASSUME FeedApart, FeedInv, NEW t \in Feed!Threads, Feed!SetText(t)
  PROVE  FeedInv'
<1> USE DEF FeedApart, FeedInv, Feed!SetText, Feed!Goto, Feed!Fired, Feed!Records,
            Feed!Threads, Feed!Radios, Feed!click, Feed!threads, Feed!generator
<1>1. FeedTyped'
  BY DEF FeedTyped, Feeds, FeedPlaces, Buttons
<1>2. Fed'
  BY DEF FeedTyped, Feeds, Fed, Within, Feed!TableFed, Feed!PushMode
<1>3. Selected'
  BY DEF FeedTyped, Feeds, Selected, ServletFeeds, NoRadios, Pushing, Polling,
         Feed!ModeIsSelected, Feed!PushMode
<1>4. Untouched'
  BY DEF FeedTyped, Feeds, Untouched, NoRadios, Feed!PushMode
<1>5. Feed!GeneratorAlive'
  BY DEF FeedTyped, Untouched, NoRadios, Feed!PushMode, Feed!GeneratorAlive
<1> QED
  BY <1>1, <1>2, <1>3, <1>4, <1>5

LEMMA FeedSetFlagKeeps ==
  ASSUME FeedApart, FeedInv, NEW t \in Feed!Threads, Feed!SetFlag(t)
  PROVE  FeedInv'
<1> USE DEF FeedApart, FeedInv, Feed!SetFlag, Feed!Goto, Feed!Fired, Feed!Records,
            Feed!Threads, Feed!Radios, Feed!click, Feed!threads, Feed!generator
<1>1. FeedTyped'
  BY DEF FeedTyped, Feeds, FeedPlaces, Buttons
<1>2. Fed'
  BY DEF FeedTyped, Feeds, Fed, Within, Feed!TableFed, Feed!PushMode
<1>3. Selected'
  BY DEF FeedTyped, Feeds, Selected, ServletFeeds, NoRadios, Pushing, Polling,
         Feed!ModeIsSelected, Feed!PushMode
<1>4. Untouched'
  BY DEF FeedTyped, Feeds, Untouched, NoRadios, Feed!PushMode
<1>5. Feed!GeneratorAlive'
  BY DEF FeedTyped, Untouched, NoRadios, Feed!PushMode, Feed!GeneratorAlive
<1> QED
  BY <1>1, <1>2, <1>3, <1>4, <1>5

LEMMA FeedSubmitKeeps ==
  ASSUME FeedApart, FeedInv, NEW t \in Feed!Threads, Feed!Submit(t)
  PROVE  FeedInv'
<1> USE DEF FeedApart, FeedInv, Feed!Submit, Feed!Goto, Feed!Fired, Feed!Records,
            Feed!Threads, Feed!Radios, Feed!click, Feed!threads, Feed!generator
<1>1. FeedTyped'
  BY DEF FeedTyped, Feeds, FeedPlaces, Buttons
<1>2. Fed'
  BY DEF FeedTyped, Feeds, Fed, Within, Feed!TableFed, Feed!PushMode
<1>3. Selected'
  BY DEF FeedTyped, Feeds, Selected, ServletFeeds, NoRadios, Pushing, Polling,
         Feed!ModeIsSelected, Feed!PushMode
<1>4. Untouched'
  BY DEF FeedTyped, Feeds, Untouched, NoRadios, Feed!PushMode
<1>5. Feed!GeneratorAlive'
  BY DEF FeedTyped, Untouched, NoRadios, Feed!PushMode, Feed!GeneratorAlive
<1> QED
  BY <1>1, <1>2, <1>3, <1>4, <1>5

LEMMA FeedClickKeeps ==
  ASSUME FeedApart, FeedInv, Feed!Click
  PROVE  FeedInv'
<1> USE DEF FeedApart, FeedInv, Feed!Click, Feed!Begin, Feed!Goto, Feed!Fired, Feed!Records,
            Feed!Threads, Feed!Radios, Feed!click, Feed!threads, Feed!generator
<1>1. FeedTyped'
  BY DEF FeedTyped, Feeds, FeedPlaces, Buttons
<1>2. Fed'
  BY DEF FeedTyped, Feeds, Fed, Within, Feed!TableFed, Feed!PushMode
<1>3. Selected'
  BY DEF FeedTyped, Feeds, Selected, ServletFeeds, NoRadios, Pushing, Polling,
         Feed!ModeIsSelected, Feed!PushMode
<1>4. Untouched'
  BY DEF FeedTyped, Feeds, Untouched, NoRadios, Feed!PushMode
<1>5. Feed!GeneratorAlive'
  BY DEF FeedTyped, Untouched, NoRadios, Feed!PushMode, Feed!GeneratorAlive
<1> QED
  BY <1>1, <1>2, <1>3, <1>4, <1>5

LEMMA FeedToggleKeeps ==
  ASSUME FeedApart, FeedInv, Feed!Toggle
  PROVE  FeedInv'
<1> USE DEF FeedApart, FeedInv, Feed!Toggle, Feed!Begin, Feed!Goto, Feed!Fired, Feed!Records,
            Feed!Threads, Feed!Radios, Feed!click, Feed!threads, Feed!generator
<1>1. FeedTyped'
  BY DEF FeedTyped, Feeds, FeedPlaces, Buttons
<1>2. Fed'
  BY DEF FeedTyped, Feeds, Fed, Within, Feed!TableFed, Feed!PushMode
<1>3. Selected'
  BY DEF FeedTyped, Feeds, Selected, ServletFeeds, NoRadios, Pushing, Polling,
         Feed!ModeIsSelected, Feed!PushMode
<1>4. Untouched'
  BY DEF FeedTyped, Feeds, Untouched, NoRadios, Feed!PushMode
<1>5. Feed!GeneratorAlive'
  BY DEF FeedTyped, Untouched, NoRadios, Feed!PushMode, Feed!GeneratorAlive
<1> QED
  BY <1>1, <1>2, <1>3, <1>4, <1>5

LEMMA FeedEndRequestKeeps ==
  ASSUME FeedApart, FeedInv, Feed!EndRequest
  PROVE  FeedInv'
<1> USE DEF FeedApart, FeedInv, Feed!EndRequest, Feed!AllFired, Feed!Goto, Feed!Fired, Feed!Records,
            Feed!Threads, Feed!Radios, Feed!click, Feed!threads, Feed!generator
<1>1. FeedTyped'
  BY DEF FeedTyped, Feeds, FeedPlaces, Buttons
<1>2. Fed'
  BY DEF FeedTyped, Feeds, Fed, Within, Feed!TableFed, Feed!PushMode
<1>3. Selected'
  BY DEF FeedTyped, Feeds, Selected, ServletFeeds, NoRadios, Pushing, Polling,
         Feed!ModeIsSelected, Feed!PushMode
<1>4. Untouched'
  BY DEF FeedTyped, Feeds, Untouched, NoRadios, Feed!PushMode
<1>5. Feed!GeneratorAlive'
  BY DEF FeedTyped, Untouched, NoRadios, Feed!PushMode, Feed!GeneratorAlive
<1> QED
  BY <1>1, <1>2, <1>3, <1>4, <1>5

LEMMA FeedRunKeeps ==
  ASSUME FeedApart, FeedInv, NEW e \in Executors, Feed!Run(e)
  PROVE  FeedInv'
<1> USE DEF FeedApart, FeedInv, Feed!Run, Feed!Goto, Feed!Fired, Feed!Records,
            Feed!Threads, Feed!Radios, Feed!click, Feed!threads, Feed!generator
<1>1. FeedTyped'
  BY DEF FeedTyped, Feeds, FeedPlaces, Buttons
<1>2. Fed'
  BY DEF FeedTyped, Feeds, Fed, Within, Feed!TableFed, Feed!PushMode
<1>3. Selected'
  BY DEF FeedTyped, Feeds, Selected, ServletFeeds, NoRadios, Pushing, Polling,
         Feed!ModeIsSelected, Feed!PushMode
<1>4. Untouched'
  BY DEF FeedTyped, Feeds, Untouched, NoRadios, Feed!PushMode
<1>5. Feed!GeneratorAlive'
  BY DEF FeedTyped, Untouched, NoRadios, Feed!PushMode, Feed!GeneratorAlive
<1> QED
  BY <1>1, <1>2, <1>3, <1>4, <1>5

LEMMA FeedTestSlotKeeps ==
  ASSUME FeedApart, FeedInv, NEW e \in Executors, Feed!TestSlot(e)
  PROVE  FeedInv'
<1> USE DEF FeedApart, FeedInv, Feed!TestSlot, Feed!Goto, Feed!Fired, Feed!Records,
            Feed!Threads, Feed!Radios, Feed!click, Feed!threads, Feed!generator
<1>1. FeedTyped'
  BY DEF FeedTyped, Feeds, FeedPlaces, Buttons
<1>2. Fed'
  BY DEF FeedTyped, Feeds, Fed, Within, Feed!TableFed, Feed!PushMode
<1>3. Selected'
  BY DEF FeedTyped, Feeds, Selected, ServletFeeds, NoRadios, Pushing, Polling,
         Feed!ModeIsSelected, Feed!PushMode
<1>4. Untouched'
  BY DEF FeedTyped, Feeds, Untouched, NoRadios, Feed!PushMode
<1>5. Feed!GeneratorAlive'
  BY DEF FeedTyped, Untouched, NoRadios, Feed!PushMode, Feed!GeneratorAlive
<1> QED
  BY <1>1, <1>2, <1>3, <1>4, <1>5

LEMMA FeedShowSlotKeeps ==
  ASSUME FeedApart, FeedInv, NEW e \in Executors, Feed!ShowSlot(e)
  PROVE  FeedInv'
<1> USE DEF FeedApart, FeedInv, Feed!ShowSlot, Feed!Goto, Feed!Fired, Feed!Records,
            Feed!Threads, Feed!Radios, Feed!click, Feed!threads, Feed!generator
<1>1. FeedTyped'
  BY DEF FeedTyped, Feeds, FeedPlaces, Buttons
<1>2. Fed'
  BY DEF FeedTyped, Feeds, Fed, Within, Feed!TableFed, Feed!PushMode
<1>3. Selected'
  BY DEF FeedTyped, Feeds, Selected, ServletFeeds, NoRadios, Pushing, Polling,
         Feed!ModeIsSelected, Feed!PushMode
<1>4. Untouched'
  BY DEF FeedTyped, Feeds, Untouched, NoRadios, Feed!PushMode
<1>5. Feed!GeneratorAlive'
  BY DEF FeedTyped, Untouched, NoRadios, Feed!PushMode, Feed!GeneratorAlive
<1> QED
  BY <1>1, <1>2, <1>3, <1>4, <1>5

LEMMA FeedEmptySlotKeeps ==
  ASSUME FeedApart, FeedInv, NEW e \in Executors, Feed!EmptySlot(e)
  PROVE  FeedInv'
<1> USE DEF FeedApart, FeedInv, Feed!EmptySlot, Feed!Goto, Feed!Fired, Feed!Records,
            Feed!Threads, Feed!Radios, Feed!click, Feed!threads, Feed!generator
<1>1. FeedTyped'
  BY DEF FeedTyped, Feeds, FeedPlaces, Buttons
<1>2. Fed'
  BY DEF FeedTyped, Feeds, Fed, Within, Feed!TableFed, Feed!PushMode
<1>3. Selected'
  BY DEF FeedTyped, Feeds, Selected, ServletFeeds, NoRadios, Pushing, Polling,
         Feed!ModeIsSelected, Feed!PushMode
<1>4. Untouched'
  BY DEF FeedTyped, Feeds, Untouched, NoRadios, Feed!PushMode
<1>5. Feed!GeneratorAlive'
  BY DEF FeedTyped, Untouched, NoRadios, Feed!PushMode, Feed!GeneratorAlive
<1> QED
  BY <1>1, <1>2, <1>3, <1>4, <1>5

LEMMA FeedFormEventsKeeps ==
  ASSUME FeedApart, FeedInv, NEW e \in Executors, Feed!FormEvents(e)
  PROVE  FeedInv'
<1> USE DEF FeedApart, FeedInv, Feed!FormEvents, Feed!Goto, Feed!Fired, Feed!Records,
            Feed!Threads, Feed!Radios, Feed!click, Feed!threads, Feed!generator
<1>1. FeedTyped'
  BY DEF FeedTyped, Feeds, FeedPlaces, Buttons
<1>2. Fed'
  BY DEF FeedTyped, Feeds, Fed, Within, Feed!TableFed, Feed!PushMode
<1>3. Selected'
  BY DEF FeedTyped, Feeds, Selected, ServletFeeds, NoRadios, Pushing, Polling,
         Feed!ModeIsSelected, Feed!PushMode
<1>4. Untouched'
  BY DEF FeedTyped, Feeds, Untouched, NoRadios, Feed!PushMode
<1>5. Feed!GeneratorAlive'
  BY DEF FeedTyped, Untouched, NoRadios, Feed!PushMode, Feed!GeneratorAlive
<1> QED
  BY <1>1, <1>2, <1>3, <1>4, <1>5

LEMMA FeedFinishKeeps ==
  ASSUME FeedApart, FeedInv, NEW e \in Executors, Feed!Finish(e)
  PROVE  FeedInv'
<1> USE DEF FeedApart, FeedInv, Feed!Finish, Feed!AllFired, Feed!EndRun, Feed!Goto, Feed!Fired, Feed!Records,
            Feed!Threads, Feed!Radios, Feed!click, Feed!threads, Feed!generator
<1>1. FeedTyped'
  BY DEF FeedTyped, Feeds, FeedPlaces, Buttons
<1>2. Fed'
  BY DEF FeedTyped, Feeds, Fed, Within, Feed!TableFed, Feed!PushMode
<1>3. Selected'
  BY DEF FeedTyped, Feeds, Selected, ServletFeeds, NoRadios, Pushing, Polling,
         Feed!ModeIsSelected, Feed!PushMode
<1>4. Untouched'
  BY DEF FeedTyped, Feeds, Untouched, NoRadios, Feed!PushMode
<1>5. Feed!GeneratorAlive'
  BY DEF FeedTyped, Untouched, NoRadios, Feed!PushMode, Feed!GeneratorAlive
<1> QED
  BY <1>1, <1>2, <1>3, <1>4, <1>5

LEMMA FeedFailKeeps ==
  ASSUME FeedApart, FeedInv, NEW e \in Executors, Feed!Fail(e)
  PROVE  FeedInv'
<1> USE DEF FeedApart, FeedInv, Feed!Fail, Feed!AllFired, Feed!EndRun, Feed!Goto, Feed!Fired, Feed!Records,
            Feed!Threads, Feed!Radios, Feed!click, Feed!threads, Feed!generator
<1>1. FeedTyped'
  BY DEF FeedTyped, Feeds, FeedPlaces, Buttons
<1>2. Fed'
  BY DEF FeedTyped, Feeds, Fed, Within, Feed!TableFed, Feed!PushMode
<1>3. Selected'
  BY DEF FeedTyped, Feeds, Selected, ServletFeeds, NoRadios, Pushing, Polling,
         Feed!ModeIsSelected, Feed!PushMode
<1>4. Untouched'
  BY DEF FeedTyped, Feeds, Untouched, NoRadios, Feed!PushMode
<1>5. Feed!GeneratorAlive'
  BY DEF FeedTyped, Untouched, NoRadios, Feed!PushMode, Feed!GeneratorAlive
<1> QED
  BY <1>1, <1>2, <1>3, <1>4, <1>5

LEMMA FeedGeneratorKeeps ==
  ASSUME FeedInv, Feed!Generator
  PROVE  FeedInv'
<1>1. /\ selected' = selected /\ clicked' = clicked /\ mode' = mode /\ tableDirty' = tableDirty
      /\ tableRefires' = tableRefires /\ at' = at /\ fires' = fires
      /\ generating' = generating
      /\ queued \in Nat => queued' \in Nat
  BY DEF Feed!Generator, Feed!BeginRun, Feed!Loop, Feed!Generate, Feed!TestMode, Feed!ShowModel,
         Feed!ForgetModel, Feed!click, Feed!threads
<1>2. FeedTyped' /\ Fed' /\ Selected'
  BY <1>1 DEF FeedInv, FeedTyped, Fed, Within, Feed!TableFed, Selected, ServletFeeds, NoRadios,
              Pushing, Polling, Feed!ModeIsSelected
<1>3. Untouched' /\ Feed!GeneratorAlive'
  BY <1>1 DEF FeedInv, FeedTyped, Untouched, NoRadios, Feed!PushMode, Feed!GeneratorAlive, Feed!Generator, Feed!BeginRun,
              Feed!Loop, Feed!Generate, Feed!TestMode, Feed!ShowModel, Feed!ForgetModel
<1> QED
  BY <1>2, <1>3 DEF FeedInv

LEMMA FeedKept == FeedApart /\ FeedInv /\ [Feed!Next]_Feed!vars => FeedInv'
<1> SUFFICES ASSUME FeedApart, FeedInv, [Feed!Next]_Feed!vars PROVE FeedInv'
  OBVIOUS
<1>1. CASE UNCHANGED Feed!vars
  BY <1>1 DEF Feed!vars, Feed!click, Feed!threads, Feed!generator, FeedInv, FeedTyped, Fed, Within,
              Feed!TableFed, Selected, ServletFeeds, NoRadios, Pushing, Polling,
              Feed!ModeIsSelected, Untouched, Feed!PushMode, Feed!GeneratorAlive
<1>2. ASSUME NEW t \in Feed!Threads, Feed!Listeners(t) PROVE FeedInv'
  BY <1>2, FeedTestExecutorKeeps, FeedShutdownKeeps, FeedPollOnKeeps, FeedPollOffKeeps,
     FeedCreateKeeps, FeedScheduleKeeps, FeedSetTextKeeps, FeedSetFlagKeeps, FeedSubmitKeeps
     DEF Feed!Listeners
<1>3. ASSUME NEW e \in Executors, Feed!Pusher(e) PROVE FeedInv'
  BY <1>3, FeedRunKeeps, FeedTestSlotKeeps, FeedShowSlotKeeps, FeedEmptySlotKeeps,
     FeedFormEventsKeeps, FeedFinishKeeps, FeedFailKeeps DEF Feed!Pusher
<1>4. CASE Feed!Click \/ Feed!Toggle \/ Feed!EndRequest
  BY <1>4, FeedClickKeeps, FeedToggleKeeps, FeedEndRequestKeeps
<1> QED
  BY <1>1, <1>2, <1>3, <1>4, FeedGeneratorKeeps DEF Feed!Next

-----------------------------------------------------------------------------
(* The push panel: whatever clicks and runs of the Pushable of fbw.Task3 race *)
(* for its button, no scheduler is lost, and the panel follows its user.      *)

\* The panel and the monitor are nobody's scheduler, and no scheduler runs in the
\* servlet thread.
OthersApart == None \notin Schedulers /\ Servlet \notin Schedulers

TogglePlaces ==
  {"idle", "form", "clicked", "startLabels", "start", "stopLabels", "shutdown", "forget",
   "done", "failed"}

PanelTyped ==
  /\ scheduler \in Schedulers \cup {None} /\ panelLock \in Schedulers \cup {None}
  /\ live \subseteq Schedulers
  /\ text \in {"start", "stop"} /\ spinner = (text = "start")
  /\ panelDirty \in BOOLEAN /\ pushing \in BOOLEAN /\ panelRefired \in BOOLEAN
  /\ pc \in [Toggle!Threads -> TogglePlaces]

\* The monitor lets one push thread run, and the panel knows what is alive.
OneRun == \A s \in Schedulers : pc[s] # "idle" => panelLock = s
KnowsLive == live \subseteq {scheduler}

\* Where the servlet thread is, and where a push thread may be meanwhile.  Both
\* can be stopping the scheduler; only one of them can start another.
ServletAt ==
  /\ pc[Servlet] \in {"startLabels", "start", "failed"} => scheduler = None
  /\ pc[Servlet] # "form"
  /\ pc[Servlet] = "forget" => live = {}
RunAt(s) ==
  /\ pc[Servlet] \notin {"idle", "done"} /\ scheduler = None => pc[s] \in {"idle", "done"}
  /\ pc[s] \in {"startLabels", "start", "failed"} =>
       pc[Servlet] \in {"idle", "done"} /\ scheduler = None
  /\ pc[s] = "forget" => live = {}

\* What the button offers, except between its change and that of the field.
TextAt ==
  /\ \A t \in Toggle!Threads : /\ pc[t] = "start" => text = "stop"
                               /\ pc[t] \in {"shutdown", "forget"} => text = "start"
  /\ scheduler = None /\ (\A t \in Toggle!Threads : pc[t] # "start") => text = "start"
  /\ scheduler # None /\ (\A t \in Toggle!Threads : pc[t] \notin {"shutdown", "forget"}) =>
       text = "stop"

\* Only the servlet thread is in the listener, and does what was asked for.
Asked ==
  ~panelRefired =>
    /\ \A s \in Schedulers : pc[s] \in {"idle", "form", "done"}
    /\ pc[Servlet] # "failed"
    /\ pc[Servlet] \in {"stopLabels", "shutdown", "forget"} => scheduler # None
    /\ pushing <=> \/ pc[Servlet] \in {"startLabels", "start"}
                   \/ pc[Servlet] = "clicked" /\ scheduler = None
                   \/ pc[Servlet] \in {"idle", "done"} /\ scheduler # None

Runs == \A s \in Schedulers : RunAt(s)

ToggleInv == PanelTyped /\ OneRun /\ KnowsLive /\ ServletAt /\ Runs /\ TextAt /\ Asked

LEMMA DecideKeeps ==
  ASSUME OthersApart, ToggleInv, NEW t \in Toggle!Threads, Toggle!Decide(t)
  PROVE  ToggleInv'
<1> USE DEF OthersApart, ToggleInv, Toggle!Decide, Toggle!Goto, Toggle!Threads, TogglePlaces,
            Toggle!panel, Toggle!history
<1>1. PanelTyped'
  BY DEF PanelTyped
<1>2. OneRun' /\ KnowsLive'
  BY DEF PanelTyped, OneRun, KnowsLive
<1>3. ServletAt'
  BY DEF PanelTyped, OneRun, KnowsLive, ServletAt, Runs, RunAt, TextAt
<1>4. Runs'
  BY DEF PanelTyped, OneRun, KnowsLive, ServletAt, Runs, RunAt
<1>5. TextAt'
  BY DEF PanelTyped, OneRun, KnowsLive, ServletAt, Runs, RunAt, TextAt
<1>6. Asked'
  BY DEF PanelTyped, OneRun, KnowsLive, ServletAt, Runs, RunAt, TextAt, Asked
<1> QED
  BY <1>1, <1>2, <1>3, <1>4, <1>5, <1>6

LEMMA LabelsKeeps ==
  ASSUME OthersApart, ToggleInv, NEW t \in Toggle!Threads, Toggle!Labels(t)
  PROVE  ToggleInv'
<1> USE DEF OthersApart, ToggleInv, Toggle!Labels, Toggle!Goto, Toggle!Threads, TogglePlaces,
            Toggle!panel, Toggle!history
<1>1. PanelTyped'
  BY DEF PanelTyped
<1>2. OneRun' /\ KnowsLive'
  BY DEF PanelTyped, OneRun, KnowsLive
<1>3. ServletAt'
  BY DEF PanelTyped, OneRun, KnowsLive, ServletAt, Runs, RunAt, TextAt
<1>4. Runs'
  BY DEF PanelTyped, OneRun, KnowsLive, ServletAt, Runs, RunAt
<1>5. TextAt'
  BY DEF PanelTyped, OneRun, KnowsLive, ServletAt, Runs, RunAt, TextAt
<1>6. Asked'
  BY DEF PanelTyped, OneRun, KnowsLive, ServletAt, Runs, RunAt, TextAt, Asked
<1> QED
  BY <1>1, <1>2, <1>3, <1>4, <1>5, <1>6

LEMMA StartKeeps ==
  ASSUME OthersApart, ToggleInv, NEW t \in Toggle!Threads, Toggle!Start(t)
  PROVE  ToggleInv'
<1> USE DEF OthersApart, ToggleInv, Toggle!Start, Toggle!Goto, Toggle!Threads, TogglePlaces,
            Toggle!panel, Toggle!history
<1>1. PanelTyped'
  BY DEF PanelTyped
<1>2. OneRun' /\ KnowsLive'
  BY DEF PanelTyped, OneRun, KnowsLive, ServletAt, Runs, RunAt
<1>3. ServletAt'
  <2>1. CASE t = Servlet
    BY <2>1 DEF PanelTyped, ServletAt
  <2>2. CASE t \in Schedulers
    <3>1. pc[Servlet] \in {"idle", "done"} /\ panelLock = t
      BY <2>2 DEF PanelTyped, OneRun, Runs, RunAt
    <3> QED
      BY <2>2, <3>1 DEF PanelTyped, ServletAt
  <2> QED
    BY <2>1, <2>2
<1>4. Runs'
  BY DEF PanelTyped, OneRun, KnowsLive, ServletAt, Runs, RunAt
<1>5. TextAt'
  BY DEF PanelTyped, OneRun, KnowsLive, ServletAt, Runs, RunAt, TextAt
<1>6. Asked'
  BY DEF PanelTyped, OneRun, KnowsLive, ServletAt, Runs, RunAt, TextAt, Asked
<1> QED
  BY <1>1, <1>2, <1>3, <1>4, <1>5, <1>6

LEMMA ShutdownKeeps ==
  ASSUME OthersApart, ToggleInv, NEW t \in Toggle!Threads, Toggle!Shutdown(t)
  PROVE  ToggleInv'
<1> USE DEF OthersApart, ToggleInv, Toggle!Shutdown, Toggle!Goto, Toggle!Threads, TogglePlaces,
            Toggle!panel, Toggle!history
<1>1. PanelTyped'
  BY DEF PanelTyped
<1>2. OneRun' /\ KnowsLive'
  BY DEF PanelTyped, OneRun, KnowsLive
<1>3. ServletAt'
  BY DEF PanelTyped, OneRun, KnowsLive, ServletAt, Runs, RunAt, TextAt
<1>4. Runs'
  BY DEF PanelTyped, OneRun, KnowsLive, ServletAt, Runs, RunAt
<1>5. TextAt'
  BY DEF PanelTyped, OneRun, KnowsLive, ServletAt, Runs, RunAt, TextAt
<1>6. Asked'
  BY DEF PanelTyped, OneRun, KnowsLive, ServletAt, Runs, RunAt, TextAt, Asked
<1> QED
  BY <1>1, <1>2, <1>3, <1>4, <1>5, <1>6

LEMMA ForgetKeeps ==
  ASSUME OthersApart, ToggleInv, NEW t \in Toggle!Threads, Toggle!Forget(t)
  PROVE  ToggleInv'
<1> USE DEF OthersApart, ToggleInv, Toggle!Forget, Toggle!Goto, Toggle!Threads, TogglePlaces,
            Toggle!panel, Toggle!history
<1>1. PanelTyped'
  BY DEF PanelTyped
<1>2. OneRun' /\ KnowsLive'
  BY DEF PanelTyped, OneRun, KnowsLive, ServletAt, Runs, RunAt
<1>3. ServletAt'
  BY DEF PanelTyped, OneRun, KnowsLive, ServletAt, Runs, RunAt, TextAt
<1>4. Runs'
  BY DEF PanelTyped, OneRun, KnowsLive, ServletAt, Runs, RunAt
<1>5. TextAt'
  BY DEF PanelTyped, OneRun, KnowsLive, ServletAt, Runs, RunAt, TextAt
<1>6. Asked'
  BY DEF PanelTyped, OneRun, KnowsLive, ServletAt, Runs, RunAt, TextAt, Asked
<1> QED
  BY <1>1, <1>2, <1>3, <1>4, <1>5, <1>6

LEMMA ClickKeeps ==
  ASSUME OthersApart, ToggleInv, Toggle!Click
  PROVE  ToggleInv'
<1> USE DEF OthersApart, ToggleInv, Toggle!Click, Toggle!Goto, Toggle!Threads, TogglePlaces,
            Toggle!panel, Toggle!history
<1>1. PanelTyped'
  BY DEF PanelTyped
<1>2. OneRun' /\ KnowsLive'
  BY DEF PanelTyped, OneRun, KnowsLive
<1>3. ServletAt'
  BY DEF PanelTyped, OneRun, KnowsLive, ServletAt, Runs, RunAt, TextAt
<1>4. Runs'
  BY DEF PanelTyped, OneRun, KnowsLive, ServletAt, Runs, RunAt
<1>5. TextAt'
  BY DEF PanelTyped, OneRun, KnowsLive, ServletAt, Runs, RunAt, TextAt
<1>6. Asked'
  BY DEF PanelTyped, OneRun, KnowsLive, ServletAt, Runs, RunAt, TextAt, Asked
<1> QED
  BY <1>1, <1>2, <1>3, <1>4, <1>5, <1>6

LEMMA EndRequestKeeps ==
  ASSUME OthersApart, ToggleInv, Toggle!EndRequest
  PROVE  ToggleInv'
<1> USE DEF OthersApart, ToggleInv, Toggle!EndRequest, Toggle!Goto, Toggle!Threads, TogglePlaces,
            Toggle!panel, Toggle!history
<1>1. PanelTyped'
  BY DEF PanelTyped
<1>2. OneRun' /\ KnowsLive'
  BY DEF PanelTyped, OneRun, KnowsLive
<1>3. ServletAt'
  BY DEF PanelTyped, OneRun, KnowsLive, ServletAt, Runs, RunAt, TextAt
<1>4. Runs'
  BY DEF PanelTyped, OneRun, KnowsLive, ServletAt, Runs, RunAt
<1>5. TextAt'
  BY DEF PanelTyped, OneRun, KnowsLive, ServletAt, Runs, RunAt, TextAt
<1>6. Asked'
  BY DEF PanelTyped, OneRun, KnowsLive, ServletAt, Runs, RunAt, TextAt, Asked
<1> QED
  BY <1>1, <1>2, <1>3, <1>4, <1>5, <1>6

LEMMA RunKeeps ==
  ASSUME OthersApart, ToggleInv, NEW s \in Schedulers, Toggle!Run(s)
  PROVE  ToggleInv'
<1> USE DEF OthersApart, ToggleInv, Toggle!Run, Toggle!Goto, Toggle!Threads, TogglePlaces,
            Toggle!panel, Toggle!history
<1>1. PanelTyped'
  BY DEF PanelTyped
<1>2. OneRun' /\ KnowsLive'
  BY DEF PanelTyped, OneRun, KnowsLive
<1>3. ServletAt'
  BY DEF PanelTyped, OneRun, KnowsLive, ServletAt, Runs, RunAt, TextAt
<1>4. Runs'
  BY DEF PanelTyped, OneRun, KnowsLive, ServletAt, Runs, RunAt
<1>5. TextAt'
  BY DEF PanelTyped, OneRun, KnowsLive, ServletAt, Runs, RunAt, TextAt
<1>6. Asked'
  BY DEF PanelTyped, OneRun, KnowsLive, ServletAt, Runs, RunAt, TextAt, Asked
<1> QED
  BY <1>1, <1>2, <1>3, <1>4, <1>5, <1>6

LEMMA FormEventsKeeps ==
  ASSUME OthersApart, ToggleInv, NEW s \in Schedulers, Toggle!FormEvents(s)
  PROVE  ToggleInv'
<1> USE DEF OthersApart, ToggleInv, Toggle!FormEvents, Toggle!Goto, Toggle!Threads, TogglePlaces,
            Toggle!panel, Toggle!history
<1>1. PanelTyped'
  BY DEF PanelTyped
<1>2. OneRun' /\ KnowsLive'
  BY DEF PanelTyped, OneRun, KnowsLive
<1>3. ServletAt'
  BY DEF PanelTyped, OneRun, KnowsLive, ServletAt, Runs, RunAt, TextAt
<1>4. Runs'
  BY DEF PanelTyped, OneRun, KnowsLive, ServletAt, Runs, RunAt
<1>5. TextAt'
  BY DEF PanelTyped, OneRun, KnowsLive, ServletAt, Runs, RunAt, TextAt
<1>6. Asked'
  BY DEF PanelTyped, OneRun, KnowsLive, ServletAt, Runs, RunAt, TextAt, Asked
<1> QED
  BY <1>1, <1>2, <1>3, <1>4, <1>5, <1>6

LEMMA FinishKeeps ==
  ASSUME OthersApart, ToggleInv, NEW s \in Schedulers, Toggle!Finish(s)
  PROVE  ToggleInv'
<1> USE DEF OthersApart, ToggleInv, Toggle!Finish, Toggle!Goto, Toggle!Threads, TogglePlaces,
            Toggle!panel, Toggle!history
<1>1. PanelTyped'
  BY DEF PanelTyped
<1>2. OneRun' /\ KnowsLive'
  BY DEF PanelTyped, OneRun, KnowsLive
<1>3. ServletAt'
  BY DEF PanelTyped, OneRun, KnowsLive, ServletAt, Runs, RunAt, TextAt
<1>4. Runs'
  BY DEF PanelTyped, OneRun, KnowsLive, ServletAt, Runs, RunAt
<1>5. TextAt'
  BY DEF PanelTyped, OneRun, KnowsLive, ServletAt, Runs, RunAt, TextAt
<1>6. Asked'
  BY DEF PanelTyped, OneRun, KnowsLive, ServletAt, Runs, RunAt, TextAt, Asked
<1> QED
  BY <1>1, <1>2, <1>3, <1>4, <1>5, <1>6

LEMMA FailKeeps ==
  ASSUME OthersApart, ToggleInv, NEW s \in Schedulers, Toggle!Fail(s)
  PROVE  ToggleInv'
<1> USE DEF OthersApart, ToggleInv, Toggle!Fail, Toggle!Goto, Toggle!Threads, TogglePlaces,
            Toggle!panel, Toggle!history
<1>1. PanelTyped'
  BY DEF PanelTyped
<1>2. OneRun' /\ KnowsLive'
  BY DEF PanelTyped, OneRun, KnowsLive
<1>3. ServletAt'
  BY DEF PanelTyped, OneRun, KnowsLive, ServletAt, Runs, RunAt, TextAt
<1>4. Runs'
  BY DEF PanelTyped, OneRun, KnowsLive, ServletAt, Runs, RunAt
<1>5. TextAt'
  BY DEF PanelTyped, OneRun, KnowsLive, ServletAt, Runs, RunAt, TextAt
<1>6. Asked'
  BY DEF PanelTyped, OneRun, KnowsLive, ServletAt, Runs, RunAt, TextAt, Asked
<1> QED
  BY <1>1, <1>2, <1>3, <1>4, <1>5, <1>6

LEMMA ToggleKept == OthersApart /\ ToggleInv /\ [Toggle!Next]_Toggle!vars => ToggleInv'
<1> SUFFICES ASSUME OthersApart, ToggleInv, [Toggle!Next]_Toggle!vars PROVE ToggleInv'
  OBVIOUS
<1>1. CASE UNCHANGED Toggle!vars
  BY <1>1 DEF Toggle!vars, Toggle!panel, Toggle!history, ToggleInv, PanelTyped, OneRun, KnowsLive,
              ServletAt, Runs, RunAt, TextAt, Asked
<1>2. CASE Toggle!Next
  BY <1>2, DecideKeeps, LabelsKeeps, StartKeeps, ShutdownKeeps, ForgetKeeps, ClickKeeps,
     EndRequestKeeps, RunKeeps, FormEventsKeeps, FinishKeeps, FailKeeps
     DEF Toggle!Next, Toggle!OnPushButtonClicked
<1> QED
  BY <1>1, <1>2

LEMMA ToggleInit == OthersApart /\ Toggle!Init => ToggleInv
BY DEF OthersApart, Toggle!Init, ToggleInv, PanelTyped, OneRun, KnowsLive, ServletAt, Runs, RunAt,
       TextAt, Asked,
       Toggle!Threads, TogglePlaces

-----------------------------------------------------------------------------
(* The panels together.                                                      *)

(* A step of the panels is a step of the panel in use and none of the others. *)
LEMMA PanelsStep ==
  [PanelsNext]_allVars => [Next]_vars /\ [Toggle!Next]_Toggle!vars /\ [Feed!Next]_Feed!vars
<1> SUFFICES ASSUME [PanelsNext]_allVars
             PROVE  [Next]_vars /\ [Toggle!Next]_Toggle!vars /\ [Feed!Next]_Feed!vars
  OBVIOUS
<1>1. UNCHANGED toggleVars => UNCHANGED Toggle!vars
  BY DEF toggleVars, Toggle!vars, Toggle!panel, Toggle!history
<1>2. UNCHANGED feedVars => UNCHANGED Feed!vars
  BY DEF feedVars, Feed!vars, Feed!click, Feed!threads, Feed!generator
<1>3. CASE UNCHANGED allVars
  BY <1>1, <1>2, <1>3 DEF allVars
<1>4. CASE PanelsNext
  BY <1>1, <1>2, <1>4
     DEF PanelsNext, PullNext, ToggleNext, FeedNext, SearchNext
<1> QED
  BY <1>3, <1>4

(* Whichever clicks and push runs race for the button of Task3, and whatever *)
(* else the example does: a scheduler that runs can be stopped.              *)
THEOREM NothingLeaks ==
  ASSUME None \notin Schedulers, Servlet \notin Schedulers
  PROVE  PanelsSpec => []NoLeak
<1>1. OthersApart
  BY DEF OthersApart
<1>2. PanelsInit => ToggleInv
  BY <1>1, ToggleInit DEF PanelsInit
<1>3. ToggleInv => NoLeak
  BY DEF ToggleInv, KnowsLive, NoLeak, Toggle!NoLeak
<1> QED
  BY <1>1, <1>2, <1>3, ToggleKept, PanelsStep, PTL DEF PanelsSpec

(* In the example, too, the push panel shows what it does, and does what the *)
(* user has asked for unless a push run has fired its listener again.        *)
THEOREM UserFollowed ==
  ASSUME None \notin Schedulers, Servlet \notin Schedulers
  PROVE  PanelsSpec => []PanelFollowsUser
<1>1. OthersApart
  BY DEF OthersApart
<1>2. PanelsInit => ToggleInv
  BY <1>1, ToggleInit DEF PanelsInit
<1>3. ToggleInv => PanelFollowsUser
  <2> SUFFICES ASSUME ToggleInv, Toggle!Quiet PROVE Toggle!PanelShowsState /\ Toggle!UserDecides
    BY DEF PanelFollowsUser, Toggle!PanelFollowsUser, Toggle!PanelShowsState,
           Toggle!UserDecides
  <2>1. \A t \in Toggle!Threads : pc[t] = "idle"
    BY DEF Toggle!Quiet
  <2>2. Toggle!PanelShowsState
    BY <2>1 DEF ToggleInv, PanelTyped, TextAt, Toggle!PanelShowsState
  <2>3. Toggle!UserDecides
    BY <2>1 DEF ToggleInv, PanelTyped, Asked, Toggle!UserDecides, Toggle!Threads
  <2> QED
    BY <2>2, <2>3
<1> QED
  BY <1>1, <1>2, <1>3, ToggleKept, PanelsStep, PTL DEF PanelsSpec

(* However clicks and push runs race in setPullEnabled(), the table is fed; *)
(* and the mode is the selected one between two requests, unless a push run  *)
(* has fired the radio buttons again.                                        *)
THEOREM SelectionFollowed ==
  ASSUME Servlet \notin Executors
  PROVE  PanelsSpec => []ModeFollowsSelection
<1>1. FeedApart
  BY DEF FeedApart
<1>2. PanelsInit => FeedInv
  BY <1>1, FeedInit DEF PanelsInit
<1>3. FeedInv => ModeFollowsSelection
  BY DEF FeedInv, Fed, Within, Selected, ServletFeeds, ModeFollowsSelection,
         Feed!ModeFollowsSelection, Feed!Settled
<1> QED
  BY <1>1, <1>2, <1>3, FeedKept, PanelsStep, PTL DEF PanelsSpec

(* As long as the button of the generator is on and the mode was never       *)
(* changed, a run of it is at work or about to begin.                        *)
THEOREM GeneratorKept ==
  ASSUME Servlet \notin Executors
  PROVE  PanelsSpec => []GeneratorAlive
<1>1. FeedApart
  BY DEF FeedApart
<1>2. PanelsInit => FeedInv
  BY <1>1, FeedInit DEF PanelsInit
<1>3. FeedInv => GeneratorAlive
  BY DEF FeedInv, GeneratorAlive
<1> QED
  BY <1>1, <1>2, <1>3, FeedKept, PanelsStep, PTL DEF PanelsSpec

(* The first page of the example has at most one timer of fbw.pull.js.       *)
THEOREM TimerAlone == PanelsSpec => []OneTimer
BY InvInit, InvOneTimer, TimerKept, PanelsStep, PTL DEF PanelsSpec, PanelsInit
=============================================================================
