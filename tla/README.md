# Formal models of the fly-by-wings demo

The repository is a web application built on the wingS component framework. It
adds to it: server push (`fbw.serverpush`, on Atmosphere), polling
(`fbw.serverpull`), and three demo panels that use them (`Task1`–`Task3`).
wingS collects the state changes of one request and sends them as partial
updates with the answer; a *Pushable* does the same in a thread of the server,
with no request, and sends the updates over a push channel. In the browser the
channel is `jquery.atmosphere.js`, and everything there runs on `jquery.js`; both
lie in the source tree beside the scripts of the demo.

Two things make the code delicate. On the server a second kind of thread works
on structures that were made for one request at a time. In the browser there is
one thread, but calls nest: a callback aborts, settles or starts what its caller
is still working on, and timers, answers and events come in any order.

This directory holds TLA+ models of those parts, the TLC configurations that
check them on small instances, and proofs checked by TLAPS. `PROJECT.json`
relates every definition to the lines it models and lists runs, findings,
hazards and theorems.

## 1. Inventory

| Component | State it keeps | Operations | Interacts with |
|---|---|---|---|
| `Pushable` | the session it belongs to, two options | `run()`: in a request's thread just `push()`; in a push thread attach session, update mode, `push()`, form events, epochs, render, broadcast, wait, clear, detach | `ReloadManager` and frames of wingS, the HTTP session's monitor, the broadcaster of the session |
| `ServerPushHandler` | none (broadcaster factory) | `onOpen()`: make or find the broadcaster of the session, attach the resource; `onMessage()`: write | Atmosphere, called by its threads |
| `ServerPushSessionListener` | none | `sessionDestroyed()`: remove and destroy the broadcaster | the container, the broadcaster factory |
| `fbw.serverpush.js` | the connection | `connect()` when the document is ready, `disconnect()`, `onTransportFailure()`, evaluation of the updates of a message | the page, Atmosphere's client |
| `jquery.atmosphere.js` | request, response, handles of connections, one timer id | subscribe, the transports, fallback, inactivity and connect timeouts, reconnection, push, unsubscribe | events of the browser, callbacks of the page |
| `Task3` | scheduler, labels of the button and of the spinner | `OnPushButtonClicked()`, `push()` of its Pushable | its listener is called by servlet *and* push threads |
| `Task2` | slot `generatedTableModel`, table, push executor, generator's flag, Puller | generator loop, `push()`, `setPullEnabled()`, start/stop | three kinds of threads share the fields, none synchronised |
| `Puller`, `fbw.pull.js` | enabled (server); `enabled`, `timeout` (page) | script at each rendering; `updatePull()`, `pull()`, ready handler | wingS' queue of requests, which polls bypass |
| `Task1`, `fbw.search.js` | label (server); current and submitted text (page) | key-up, timer, `processLowLevelEvent()` | requests in parallel, no epoch check |
| jQuery: `Callbacks`, `Deferred`, `when`, `ready` | lists of functions and their loops; states of deferreds; `readyWait` | add, remove, fire, lock, disable; settle, then, when; ready, holdReady | functions of the page, called in the loops; the document |
| jQuery: effects | queue, its hooks, list of timers, interval | queue, dequeue, delay, animate, show/hide/toggle, stop, finish, promise | interval and timeouts of the browser, complete functions |
| jQuery: requests | per request: state, timer, transport; `active`; functions in `window` | ajax, abort, the transports for xhr and scripts, jsonp, conversion | the server, functions of the page |
| jQuery: events and data | `cache`, ids of elements, native listeners | add, remove, trigger, dispatch, one, cleanData, data | the browser's events, handlers |
| `Example`, `Task4`, `web.xml` | none | build the frame and its tabs; configuration | – |
| wingS, Atmosphere on the server | reload manager, epochs, monitors; resources, queues, futures | external, modelled from how the code uses them | – |

What is hard about each of them, and what makes it correct:

* **Pushable**: interleaving with requests on one reload manager; runs that fail
  half-way; connections that come late or break under the wait for the broadcast;
  epochs and stale events. Correct means: no state change is lost on its way to the
  browser, messages do not overtake each other, the reload manager is handed back
  clean, form events reach only what the push changed, the monitor is given back.
  Where the code keeps less than that, the properties name what it loses.
* **Push channel**: a broadcast future counts resources, and tabs connect, are
  cancelled and are removed between the call and the write. Correct means: a
  waiting push is served, the browser has been sent the message when `get()`
  returns, messages arrive in order and once, the broadcaster ends with its
  session.
* **Atmosphere's client**: seven transports with a dozen handlers share the fields
  of one subscription; `abort()` calls handlers before it returns. Correct means:
  one connection and one timer at a time, opening told before the first message,
  the end always told, and nothing after it.
* **Task3, Task2**: events fired a second time by a push run; non-atomic use
  of fields. Correct means: the panel shows and does what the user chose, no
  scheduler is lost, the generator lives exactly as long as it should.
* **Puller, search**: order of scripts and handlers in a page, timers, answers
  that overtake each other. Correct means: one timer per page, polling exactly
  while enabled, the last text is the one searched for and shown.
* **jQuery**: callbacks that work on what is calling them. Correct means: a fired
  list calls each function once and in order; a deferred settles once and says
  so to everybody; ready is neither early nor forgotten; the queue of an element
  runs in turn and never stops; a request ends once; handlers, listeners and
  cache agree.

## 2. Modules

| Module | Models | Checked through |
|---|---|---|
| `PushCycle` | Pushables, client requests, reload manager and one page of a session | `MCPushCycle`, `MCPushTeams` |
| `PushCycle_proofs` | theorems about `PushCycle`, three of them without client requests | – |
| `PushLog` | abstract: what pushing promises about the messages of a session | (refined) |
| `PushChannel` | broadcaster, tabs, session end; implements `PushLog` | `MCPushChannel`, `MCPushScenes` |
| `PushChannel_proofs` | theorems about `PushChannel`, and about the scene of `MCPushScenes` with one tab | – |
| `Atmosphere` | one subscription of `jquery.atmosphere.js`, with the options and callbacks of `fbw.serverpush.js` | `MCAtmosphere` |
| `Atmosphere_proofs` | theorems about `Atmosphere` | – |
| `PushToggle` | push button of `Task3` | `MCPanels` |
| `TableFeed` | generator, slot and modes of `Task2` | `MCPanels` |
| `PullTimer` | `Puller` and `fbw.pull.js` | `MCPullTimer`, `MCPanels` |
| `Panels_proofs` | a theorem about `PullTimer`, and those about the panels, `PushToggle` and `TableFeed` among them, as `MCPanels` puts them together | – |
| `SearchField` | `Task1` and `fbw.search.js` | `MCPanels` |
| `CallbackList` | the operations of a `jQuery.Callbacks` list, as operators | `Callbacks`, `Deferreds` |
| `Callbacks` | one such list and a page whose functions change and fire it | `MCJQuery` |
| `Callbacks_proofs` | theorems about `Callbacks`, and lemmas about the operators of `CallbackList` | – |
| `Deferreds` | deferreds, `then()`, `when()`, made of three lists each | `MCJQuery` |
| `Deferreds_proofs` | theorems about `Deferreds` | – |
| `DocumentReady` | `ready()`, `holdReady()` and the ways to learn that a document is there | `MCJQuery` |
| `Effects` | the queue "fx" of one element, animations, delays, stop, finish, promise | `MCJQuery` |
| `Ajax`, `Conversion` | requests from the prefilters to "complete"; the loop of `ajaxConvert()` | `MCJQuery` |
| `Ajax_proofs` | theorems about `Ajax` | – |
| `Events` | handlers, native listeners, the data cache, dispatch and trigger | `MCJQuery` |
| `JQueryParts` | the parts of jQuery but for effects: what the page does with each, and their properties | `MCJQuery` |
| `JQuery_proofs` | theorems about `DocumentReady` and `Conversion`, and those about callback lists, deferreds and requests as the run states them | – |

The MC modules name the model values, the small functions and the options a
configuration needs. `MCPanels` and `MCJQuery` hold several modules that share no
state: in a behaviour one of them is at work, chosen in the initial state, and the
others stay as they begin. Each module keeps its own `Spec` and fairness.
`MCJQuery` is `JQueryParts` and `Effects`; the two are apart because `Effects` has
`RECURSIVE` operators and the theorems reach `JQueryParts`.
Operators under a comment "Faulty: ..." are no part of any specification; each
is the variant with which a property must fail.

### PushCycle

A component is a version number, an update is the version it carries; texts and
HTML are left out. Variables follow the code: the reload manager's fields
(`pending` for recorded updates, `toReload`, `frameFull`, `epochUpdate`,
`updateMode`, `acceptChanges`), the frame's `epoch`, the two monitors, and for
every thread its position, its bound session, its armed components and message.
One action is one step between which other threads can act:
`Begin`, `Push`, `FormEvents`, `Invalidate`, `Render`, `Broadcast` /
`NoBroadcaster`, `Await`, `Finish` are `Pushable.run()` from top to bottom,
`Abort` its catch block: whatever the application throws in `push()` or in a listener, or an
iteration over the manager's collections that a request changes meanwhile (`Thrown`), ends
the run there. `NoUpdateMessage` is `getUpdateMessage()` returning null: nothing is
broadcast and nothing cleared. `Lookup` ... `FinishRequest` are a request through
`WingServlet` and `SessionServlet.doGet()` — in the library, but they share every
variable with the push. `RunInClientRequestCycle` is the branch of `run()` in a
thread that has a session.

The monitors are the point. A push thread holds the monitor of the HTTP session
from `Begin` to its end. `WingServlet` takes that monitor only to look the
`SessionServlet` up (`Lookup` needs it free and does not keep it); the request
then holds the monitor of the `SessionServlet`.

The channel is reduced to one tab: `never`, `open` or `away`, a message handed
over (`outbox`), and messages on the connection (`wire`). A connection that has ended
leaves its resource listed (`stale`) until the container removes it (`Remove`); a message
dispatched before that leaves a future nobody completes (`lost`), and the run that
waits for it keeps the monitor for good.

Four history variables record what has gone wrong, or might have, and the properties name
them: the last cycle that ended was a run without `clear()` (`failed`), such a run has left
the manager refusing changes (`stuck`), a message found no page (`missed`), a request and
a push were under way at once (`met`).

### PushChannel and PushLog

The reload manager is left out and the channel is in detail: `onOpen()` in its
steps (`OnOpen` reads the session's id, `Attach` looks the broadcaster up with
create = true and attaches the resource), suspension, cancellation and removal of
a connection by the container, `broadcast()` with its counting future, the
dispatcher's pass over the resources, the write queue of each resource,
`sessionDestroyed()`.

`PushLog` is the promise: messages are begun one at a time, a tab is sent the
message begun last, only before the push has proceeded. `PushChannel` with one
tab implements it under the mapping *begun* ← messages broadcast, *done* ← all
but the one that is waited for, *written* ← last message written to each tab
(`OneTabOneByOne`).

### Atmosphere

The script runs to completion between two events of the browser, so an action is
one event: a connection opens, delivers, fails or closes, a timer fires, the page
pushes or unsubscribes. A function of the script is an operator from one state of
the subscription to the next, and calls are applied in the order of the code.
That order is where the difficulties are: `AbortActive` and `AbortJquery` are
`abort()` calling its handlers, which start another request, before the field is
set to null. `s` holds the fields of `_request` and `_response` and the handles;
connections and timers of the browser outlive the handles.

`opt` is what the page asks for and the browser has. Web sockets and server-sent
events use one object per connection, long polling and streaming one
XMLHttpRequest per answer, JSONP and ajax `jQuery.ajax()`; two old transports of
the Internet Explorer are there too. A message is "data", "space" (padding) or
"empty". `onTransportFailure()` of `fbw.serverpush.js` is part of each fallback.

### PushToggle, TableFeed

A click's request makes the clicked component dirty, and clears the reload
manager at its end. A push run that starts in between finds the component dirty
and fires its action event again, because a Pushable fires events of every dirty
listener unless it prevents form events, and neither of the panels does. The
models keep the dirty flag, the HTTP session's monitor of the push thread and the
fields of the panel; the listeners, `OnPushButtonClicked(t)` of `PushToggle` and `Listeners(t)` of
`TableFeed`, are the same operators for both kinds of threads. A run that throws, or finds no
broadcaster, ends without clearing the flag (`Fail`).

The fields of `TableFeed` are not synchronised, so that every access is a step:
`setPullEnabled()` tests the executor, shuts it down and enables the puller, or disables the
puller, creates an executor and schedules the push; the toggle button's listener sets its text and the
flag and submits a run; `push()` and the generator test the slot, show what it holds and
empty it. Of a table model only matters whether the slot holds one: `setModel()` of wingS' table
refuses null with an exception. Clicking one radio button changes both, and a push run
may find either or both dirty.

### PullTimer, SearchField

One page at a time: scripts run one by one, inline scripts before the functions
given to `$(document).ready`. Requests travel on connections of their own; the
server handles them one at a time. `Overtaking` says whether answers may arrive
in another order than the server gave them. Both scripts send with
`followLink()`, which does not wait in wingS' queue of requests, while clicks do.

### The modules of jQuery

Each has one variable `s`, a record with the fields of the code, and operators
from one such record to the next for the functions of the library. They differ
in where a call may be interrupted by the page:

* `Callbacks` and `Deferreds` cut the loop of `fire()` at each call. While a
  function of the page runs (`calling`, `user`) the page may do whatever it may do
  elsewhere, including to the list that is calling. `Deferreds` keeps the stack of
  loops under way (`frames`); functions of the library are records that say what
  they do, from the state-setting functions at the head of each list to those
  that `then()` and `when()` add. The function `then()` adds calls `done()`, `fail()` and
  `progress()` of the deferred it was given one after the other; as each may call
  functions, `PassNotes` is the last of them as a step of its own, between the loop that `done()`
  or `fail()` has begun and the rest of its own.
* `DocumentReady` has one action for each source of `ready()`.
* `Effects` runs a call to its end, as the functions it calls (`dequeue`,
  `complete`) are the library's, or call `stop()`. It is the one module with
  `RECURSIVE` operators: the end of an animation dequeues the next, which may be
  over at once, and loops over the timers change the list they walk through.
* `Ajax` keeps a stack of calls of `ajax()` and `done()` that wait for a function
  of the page; `Continue` goes on with the innermost.
* `Conversion` takes one turn of the loop as a step.
* `Events` keeps a stack of events under way, each with the elements it has still
  to reach and the handlers queued at the last one.

## 3. Runs

| Run | Instance | Shows |
|---|---|---|
| `push` | two pushers, or one and a request thread whose listeners may run a Pushable themselves; one pusher prevents epoch updates as `Task3` does, nobody prevents form events; the connection comes late or breaks, runs and requests fail | types; no update is lost but in the ways the property names; messages are in order, and there before the monitor is released; the manager is handed back clean; form events reach only what was changed; the browser never goes back to an older text and catches up; every request is answered |
| `channel` | two pushers with one tab that comes and goes until the session ends, or with two tabs that connect at any time and stay | types; messages once and in order; a broadcaster exists while a tab is connected; with one tab: sent before the monitor is released, and `PushLog` is refined; with tabs that stay: every push returns |
| `panels` | `PullTimer`, `PushToggle`, `TableFeed`, `SearchField`: mode, tab and page change; clicks, and clicks fired again by push runs; generator and mode switched; typing | one timer, polling as told; no scheduler leaks, the push panel shows what it does; the table is fed whoever races for the mode; both follow the user as long as no run fires her click again; the generator lives and stops as told; the last text is searched for and shown |
| `atmosphere` | 31 sets of options: six ways to connect, with interval, without reconnection, without protocol, with connect timeout, calling back first, with messages of the page | one connection, one timer; open told first; the end told; the end final |
| `jquery` | one of seven parts, under all a page may do to it, from its callbacks too | callbacks called once; outcomes agree and settle once; ready in time; the queue in turn and going on; requests end once and jsonp requests stay apart; conversion to the type wanted; handlers, listeners and cache consistent |

Seven runs state what a comment of the code says and are expected to fail; each
counterexample was read against the code:

| Run | What happens |
|---|---|
| `interference` | A push and a request change one label; the `clear()` of one drops the update of the other. `Task3` says that they do not interfere, but they hold different monitors. |
| `retained` | A run that finds no broadcaster throws after `invalidateFrames()` and before `clear()`: the manager goes on refusing changes, and those of the next run are dropped. `Task2` does this when its first push precedes the connection of the browser. |
| `hanging_push` | A tab cancelled but not removed when the dispatcher passes is never counted; `get()` waits for ever with the monitor that every request needs. |
| `undone` | A push run that begins before the request of a click on `Task3`'s button is over finds the button dirty and fires its listener again: the scheduler just started is shut down. |
| `pull_reloaded` | After a frame reload the ready handler of `fbw.pull.js` resets what the inline script has set: one poll, then silence. |
| `disconnect` | With the options of `fbw.serverpush.js`, `disconnect()` while the web socket is still connecting forgets the socket instead of closing it: it opens, and its messages are delivered. |
| `falls_back` | `onTransportFailure()` names server-sent events as fallback for every failure, their own included: they are tried again, and long polling is not. |

`interference` and `retained` check `EveryUpdateReaches`, which `push` checks in the form
`NoLostUpdate`: with these losses, and messages without a page, excused by name. `undone` checks
`ClickCounts`, which is `UserDecides` without its condition.

Properties that belong together are one definition, a conjunction of named parts
(`PanelFollowsUser` is `PanelShowsState` and `UserDecides`, `EndIsFinal` is
`ErrorIsFinal` and `QuietAfterUnsubscribe`, and so on); the parts are stated and
commented where they are defined.

### Conditions of the passing properties

Some properties hold under a condition, by the instance or in the formula. The
condition is where the code ends, and dropping it gives a counterexample:

| Property | Holds because | Without |
|---|---|---|
| `NoLostUpdate`, `Converges` | `~stuck`, `~missed`, `~met` | `stuck`: a run that fails after `invalidateFrames()` leaves the manager refusing changes, and those of the next run are dropped (run `retained`); `missed`: a message is dispatched while no page is connected, or is on a connection that breaks; `met`: a request and a push clear each other's records (run `interference`) |
| `Converges` | `~failed` in the end | runs that only fail from some time on deliver nothing more |
| `UpdatedBeforeUnlock` (`PushCycle`) | `~missed`, `~met` | the connection is away, `get()` returns and nothing was sent; the answer of a request is applied between |
| `NeverRegresses` | `~met` | an answer on a connection of its own overtakes a push, or the other way round |
| `OneTabUpdated` (`UpdatedBeforeUnlock` of `PushChannel`) | one tab | a tab listed between `broadcast()` and dispatch is written to, and counts, for another |
| `CleanWhenQuiet` | `~failed` | a run that failed leaves update mode, records and the refusal of changes behind, until a cycle clears them |
| `ArmedOnlyByPush` | `~failed`; changes of a request at work are allowed | what a failed run leaves dirty, or a request has just changed, gets form events from the run |
| `RequestsAnswered` | `~lost` | a future nobody completes: the run keeps the monitor that every request needs (run `hanging_push`) |
| `UserDecides` | `~refired` | a push run that begins before the click's request is over fires the click again and undoes it (run `undone`) |
| `ModeIsSelected` | `refires = 0` | a push run fires both radio buttons, in any order, and the mode may end as the other one; that the table is fed in one mode or the other (`TableFed`) holds always |
| `GeneratorAlive` | `~clicked` | a push run that outlives the switch to pull mode empties the slot between the generator's test and its `setModel()`, which refuses null |
| `OneTimer` (`PullTimer`), `FirstPagePolls` | `loads = 0` | the ready handler forgets the timer |
| `StopsPolling`, `LabelFollowsField` | `Overtaking = FALSE` | an older answer arrives last: polling goes on, the label keeps an older text |
| `OneConnection` | `~cut`; no messages of the page over a web socket | an HTTP error at the headers, or a full stream, ends a request by `abort()`, whose handlers start one besides the one that follows; `push()` on a connecting socket opens the fallback, and the socket may open all the same |
| `OneTimer` (`Atmosphere`) | no interval in the hidden document | `reopenFrame` is set without clearing the inactivity timer |
| `OpenedFirst` | not JSONP | `response.error` is never reset after a failed request, and opening is not told |
| `EndIsTold` | no `reconnectInterval`; not XDomainRequest; JSONP reconnects | a network error clears the timer of the reconnection it has just set; an XDomainRequest ends without a call; JSONP just does not go on |
| `ErrorIsFinal` | not long polling, streaming | `abort()` calls a handler that reconnects |
| `QuietAfterUnsubscribe` | long polling, streaming | the other transports do not ask for `_abordingConnection`: the run `disconnect` |
| `NoneSkipped` (`Callbacks`) | `~emptied` | after `empty()` in the loop, functions added in the same loop are skipped |
| `OneAtATime`, `PromiseIsTrue` (`Effects`) | `Tame` | `stop(true)` and `clearQueue()` take the sentinel and the hooks with the queue; `animate({})` dequeues out of turn; a complete function that calls `stop()` dequeues twice |
| `NotBlocked` | no page combines a delay, `queue: false` and `gotoEnd` | the delay is ended, the animation outside the queue keeps `stop()` from dequeuing, and nothing runs on |
| `PromiseIsKept` | `~FinishesDelays` | `finish()` during a delay ends its timeout and empties the queue (`jquery.js` 9384–9388), and if no animation follows nobody resolves the promise |
| `FocusCaptured` | one direction only | the listener of the document that captures focus outlives handlers removed by the name "focus" (`remove()` tears down by that name, `jquery.js` 4875–4904) or with their element |
| `RequestsEndOnce` | `AbortsIn` has no "send" | `abort()` by a function for `ajaxSend`: `ajax()` goes on to send, and `done()` runs twice |
| `JsonpApart` | generated names | two requests with the same name of their own share one function |

Further behaviours are in the models and contradict no property checked. A model
the generator hands over between `setModel()` and the emptying of the slot is lost
(`TableFeed`); an `onOpen()` at work when the session is destroyed brings its
broadcaster back (`PushChannel`); the inactivity timeout of the Atmosphere client
closes and never reconnects; `_close()` forbids reconnection and the call of the
application that follows permits it again; without `reconnectInterval` the
"fallback" timer is cleared by the next state cleared; a script that cannot be
loaded is noticed by its timeout only.

### Bounds, and why they are enough

* Threads: two pushers, or a pusher and a request thread. A third pusher only repeats the
  second, as all hold the same monitor; with a request the monitors let one of each
  be inside at once. `MCPushTeams` lets one of these two teams work in a behaviour.
* Components: a label and a button whose listeners change both; the label's calls a Pushable.
  The two pushers differ in what they change and in whether they prevent epoch updates.
* `MaxVersion` 3, `MaxEpoch` 2 in `push`; 2 to 5, with `MaxMessage`, elsewhere. A lost or
  reordered update needs two versions beyond the first, a stale event two epochs; a run after
  a failed run needs the third version, which a pusher that prevents epoch updates reaches in
  the first epoch.
  At the bound components no longer change and no new cycle with changes begins;
  cycles under way complete, so liveness is about what the bound lets begin.
* `MaxWire`: the connection blocks at 2 or 3 messages, which is also a behaviour.
* Tabs: two; a future counts one tab's write for another's with two already.
* Schedulers: three, one more than can be at work at once. Executors: two, the one in use and
  the one a click creates; an executor is created only while one is left. They
  differ by name only, so that the first is `e1`.
* `MaxQueued` 1: a run of the generator waiting while its single thread is busy.
  `MaxRefires` 1: one push run fires radio buttons again; with that the mode may be any, and
  a second only moves it once more.
* `PullTimer`: two requests under way, four clicks, one load, and a loaded page
  starts when no request waits at the server. `SearchField`: four keystrokes over
  texts of which two have one upper case, one page load, under the same condition.
* `Atmosphere`: six slots for connections and six timers; an event happens when
  there is room for all it may start (`Room`). `MaxReconnectOnClose` is 2 where the
  script has 5: the count and its reset are the same.
* `Callbacks`: two functions in a list of at most three (so that one is there
  twice), two values. `Deferreds`: two subordinates, an outcome passed on by
  `then()` directly and by way of a third. `DocumentReady`: three holds.
* `Effects`: three animations or delays and two calls that stop; six pages that
  combine kinds whose interplay matters, one of them with `finish()` and delays.
* `Ajax`: two requests, of five kinds, each answered in one of five ways (a failed answer
  may bring a script). `Conversion`: five converters, each missing,
  there, or an equivalence, and six lists of types.
* `Events`: a branch of two elements, two handlers of a type, one event inside
  another, three attaches.
* `CHECK_DEADLOCK FALSE` stands where the system may stop: users stop clicking,
  sessions end, subscriptions are given up, versions or messages reach their
  bound.

### Fairness

Weak fairness for each thread of the server: executors run what is scheduled, a
thread that has a step takes it. `PushCycle` adds strong fairness of `Lookup` and
`Enter`: a request contends for a monitor that is released again and again, and
pushers pause between two runs (they are scheduled at a fixed rate of at least
tens of milliseconds). It assumes that the browser connects, and nothing of the container: the
resource of a connection that has ended may stay listed for ever. `TableFeed` asks for the
generator's thread only. `PullTimer` adds strong fairness of a timer, because timers
and clicks share the bounded slots. `Write` and `DropToken` are threads of
Atmosphere.

In the browser: a function of the page that jQuery has called returns, the library
goes on, timers and intervals that are set fire, the browser goes on parsing and
tells of it, and a script releases what it holds. The fairness of `Effects` is
weak fairness with its enabling conditions written out (the interval is set; a
delay is under way), which is cheaper for TLC than `ENABLED` of actions that walk
through the timers. `Atmosphere` states none: its properties are about safety.
Nothing is assumed of users and servers: clicks, keystrokes, disconnections, page
loads, answers and session ends need not happen.

## 4. Proofs

### PushCycle

`PushCycle_proofs` proves, from `PushCycleAssumption` alone, for any sets of
pushers, requests and components:

* **TypeCorrect**: `Spec => []TypeOK`. Lemmas give the types of what the helper
  operators build (messages, updates after `Touch`, `Clear`), then one step per
  action.
* **PushOrder**: `Spec => []PushesInOrder`. Of two messages on the way the later
  one is newer in every component both update — although requests interleave,
  clear the manager under a running push, connections break and runs abort.

`PushesInOrder` is not inductive: it says nothing of where messages come from.
`OrderInv` adds the chain behind it:

1. `Exclusive`: a thread in a run holds the HTTP session's monitor, so that there
   is one such thread.
2. `OutboxOwned`: a message at the broadcaster belongs to a thread in `Await`.
3. `VersionsExist`: nothing on the way carries a version that the server
   has not reached.
4. `RecordedIsNewer`: what the manager records is newer than everything sent,
   unless it is the very update of a message handed over and not cleared yet.
5. `RenderedIsNewer`: the message a thread has rendered is newer than
   everything sent.

A pusher hands its message over only when it is the only one (1) and nothing is
left at the broadcaster (2), and by 5 it is newer than what was sent; it was
rendered from records (4) or from current values (3). Requests and connections
only remove records and messages or create newer versions. TLC checks
`PushesInOrder` in `push`, and `OrderInv` was checked on that instance before it was
proved.

Two more hold for any pushers, requests, options and failures:

* **CleanAfterRuns** (`CleanWhenQuiet`) and **ArmsOwnChanges** (`ArmedOnlyByPush`). `CycleInv`
  adds to the two properties what makes them inductive: a request at work holds the monitor of
  the `SessionServlet` (`ServletExclusive`), `changed` is empty outside of its cycle
  (`OwnChanges`), and what the manager records belongs to a thread at work, to what its
  `push()` or event has changed or to anything once form events have been fired
  (`DirtyOwned`), unless a run has failed since the last `clear()`. A `clear()` by either thread
  empties everything, the other's records included; that is what makes these two true
  with requests and `EveryUpdateReaches` false.

The last three have the hypothesis `Requests = {}`, and no other: the connection may come
late and break, and runs may fail. Run `interference` shows that requests break
`EveryUpdateReaches`, and with requests the properties say nothing once `met` is true.

* `SectionInv` says what the monitor protects: nobody else changes the manager (`NobodyElse`), it
  accepts changes until the frames are invalidated unless a run has failed after that (`Accepts`),
  and is in update mode in a run (`Collects`).
* **NoWayBack** (`NeverRegresses`): `ShownIsOlder` continues the chain of `OrderInv`
  to the page: what it shows is older than everything sent, rendered or recorded.
* **NothingLost** (`NoLostUpdate`) and **UpdatedFirst** (`UpdatedBeforeUnlock`):
  `ArrivalInv` says that the newest version is shown, sent or recorded, unless changes were refused
  or a message missed the page (`NewestSomewhere`), and that from rendering to `clear()` the records
  are those of the message (`Carried`). When they are cleared the message is on the connection or
  applied, as `get()` has returned.

### PushChannel

`PushChannel_proofs`, from `PushChannelAssumption`, for any pushers, tabs and
number of messages:

* **ChannelTypes**: `Spec => []TypeOK`; that counts and latches are natural numbers
  is the part that needs the finiteness of `Tabs` and `1 .. Len(q)`.
* **Registered**: `Spec => []OpenIsRegistered`. Strengthened to
  `AttachedIsRegistered`: the broadcaster is there from the step that attaches a
  resource, before it is suspended, and goes only with the session.
* **Delivered**: `Spec => []DeliveredInOrder`. `OrderInv` lays the places a message
  goes through behind each other: what is on the wire of a tab is older than what
  waits in its write queue, that older than what the broadcaster has not yet
  dispatched; each of the three is sorted, all is newer than what the tab has
  applied, and none is newer than the last message sent. Every step takes the
  first message of one place to the end of the next, or drops messages.

The scene of run `channel` with one tab, for any pushers and any number of messages;
`t1` is the tab, and `t2`, the only other one, never connects. Hypothesis of both: `Tabs = {t1, t2}`, `t1 # t2`.

* **TabUpdated**: `SceneSpec => []OneTabUpdated`. When a push goes on, its message has been
  written to the tab if the tab was there at the broadcast and still is. The
  future counts what is done, and not for whom; with one tab that comes to the same
  because of `OnePusher` (one push at a time has the monitor and waits for the last
  message) and `OneMessage`: the last message is at one place only — fresh with
  the dispatcher, queued for the tab, void as its resource has gone, or settled — and
  its future is done exactly when the place says so. With two tabs the property is
  false: one that connects late is counted for the other.
* **SessionIsLog**: `SceneSpec => OneTabOneByOne`, the refinement of `PushLog`. The
  broadcast is the step that begins a message, the write the step that writes it,
  the end of the wait the one that lets the push proceed, which `OneMessage` allows after the write
  only; all other steps leave the log alone. With two tabs at any time the
  mapping is constant.

### Atmosphere

`Atmosphere_proofs`, for any slots and bounds and for every set of options that meets
`OptionsAssumption`: the transports are those of the model, the fallback is none,
long polling or streaming, old Internet Explorers have neither `WebSocket` nor
`EventSource`, and XDomainRequest is not asked for long polling (not modelled).

* **TimerIsNamed**: `Spec => []OneTimer`. A function of the script that sets a timer
  is reached only where `request.id` has been cleared, or the timer has fired.
* **ConnectionIsOne**: `Spec => []OneConnection`, under the conditions that the property
  states (`~cut`; no messages of the page over a web socket).

Neither is inductive: which handler runs depends on handles, on `readyState` and on
what the pending timer will do. The invariant is `Fit /\ Named /\ Single`, and TLC found no
violation of it on the instance of the run `atmosphere`:

1. `Fit`: connections, handles and timers are of a kind that the options and the current
   transport admit (`KindFits`, `TimerFits`): no XMLHttpRequest while the subscription
   is still on its web socket, no EventSource without the browser's, and so on. It
   excludes handlers of one transport that meet a connection of another.
2. `Named`: there is no timer, or only the one that `request.id` names.
3. `Single`: connections and timers that are to open one (`Waits`) are at most
   one in all. A socket that closes while the subscription is being given up does not count.

The functions of the script call each other deeply (a handler reports an error, which
aborts, which calls handlers, which reconnect), so the proof has one lemma for each
function, from the innermost on, that says what the function does to connections and timers:

| Class | Meaning |
|---|---|
| `Same` | neither connections nor timers change: a call of the application |
| `Less` | nothing is opened, no timer that opens is set |
| `Keeps` | one stays one, none stays none |
| `Opens`, `Sends` | from none, with no timer named, makes at most one |
| `Follows` | what comes after the end of a connection: from none makes at most one |

Three places need more than that. `abort()` calls handlers that send another request
while the handle is still set; one stays one because the aborted request has been ended
first. The connect timer of a web socket calls `onclose` while the socket is there, and
the timer for the fallback that this sets is cleared again by `_clearState()`. After a network error
both the handler for the answer and the one for errors run: a request that the first sends does
not outlive the second, or `errorHandled` keeps the second from acting. Every action then
preserves the invariant by the lemma for its handler (`Moves`).

### DocumentReady

* **ReadyInTime** (`JQuery_proofs`): `Spec => []NotTooEarly`, for any number
  of holds. `Counted` says what the counter of the code means: `readyWait` is the
  number of scripts that hold the event back, and one more until the event has
  come. `OnlyParsed` says that the event and the calls that are put off come in
  parsed documents only. So when `readyWait` reaches 0 nobody holds and the document
  is parsed.

### Callbacks

* **EachOnce** (`Callbacks_proofs`): `Spec => CallsEachOnce`, for any functions, options and
  values and any length of the list, without an assumption. The property is about steps and
  mostly about a ghost, what is owed; the invariant ties that to the position of the loop.
  `LoopFits`: the loop runs to the length the list has now, and a function that takes itself out
  leaves the loop at most one before the first. `OwedFits`: what is owed is ahead of the loop
  (`OwedAhead`), so that a loop that has come to its end owes nothing; and what is
  ahead is owed unless the list has another copy of it (`AheadOwed`), so that nothing is called twice.
  After `empty()` in the loop only the second holds, and the index may be behind the end of the list.
  `ValuesFit`: the values that wait are in order and later than the one being fired, and there
  are none once the list is locked.
  `remove()` is a loop, and the model has it as a recursive function. That the function is there
  is proved from its definition (`RemovesOneByOne`), and that every round keeps what the proof needs
  (`RoundKeeps`, `SpliceKeeps`) becomes a fact about the loop (`RemoveKeeps`) by the least
  round that would break it: there is one, as `<` is well-founded.
* **CallsOnce** (`JQuery_proofs`): the same for the functions and options of the run `jquery`.

### Deferreds

`Deferreds_proofs`, for any number of arguments of `when()`, any functions of the page for lists
that there are (`HandlersFit`) and any nesting of the calls:

* **OutcomesHold**: `Spec => []OutcomesAgree`, whatever `then()` chains.
* **SettlesForGood**: `Spec => SettledForGood`, the part of `SettlesOnce` that is safety.

Both rest on one invariant. The property says nothing of calls under way; `Shape` and `Duty` do.

`Shape` is about each list and each deferred. The list of an outcome is not fired yet, is in its
loop at one of the three functions that settle the deferred, is behind them, is fired and
empty, or is disabled (`OutcomeFits`), and what is in it behind those three belongs there (`InBody`).
A loop on the stack is one of a list that fires, no list is there twice (`FramesFit`), and while one of
the first three functions is about to run its loop is on top (`TopFits`), as
none of them calls others. So the state, the list of the outcome and the list of the opposite one
change in a fixed order (`StatesFit`), and no second outcome can begin between two of these steps.

`Duty` says what is still to be called and what follows from what has been. A function of the page
waits in its list exactly if it has been added and not called, as long as the list is not disabled
(`HandlersHeard`). `remaining` is the number of subordinates without those whose function for `when()` has
been called, and the master is fired when it is 0, or refused when one has been refused (`Reports`). What
`then()` returned is fired by the outcome of the master or, if the function given to
`then()` has returned `Inner`, by that of `Inner`, once the function that waits for it has been called (`Passes`).
When no call is under way nothing waits in a fired list, and the conjuncts of the property
follow (`HeardInTheEnd`, `WhenInTheEnd`, `ThenInTheEnd`). `Duty` is proved from views of a list (`Alive`, `Fired`,
`Wait`), so that each step says only how it changes these.

* **OutcomesHold** (`JQuery_proofs`): `OutcomesAgree` as the run `jquery` states it, for the functions
  of its page, any number of arguments of `when()` and of notes.

### Ajax

`Ajax_proofs`, for any number of requests, of any kinds, begun and aborted in each
other's functions to any depth:

* **EndOnce**: `Spec => []RequestsEndOnce`. The only assumption besides types is that no function for
  `ajaxSend` aborts its own request (`"send" \notin AbortsIn`), with which the property is
  false. The property says nothing of the stack of calls; `LifeInv` does. `AtFits`: while `ajax()` waits for
  a function of the page its request is not sent, before `ajaxSend` it may have ended, at `ajaxSend` it
  has not, and `done()` waits only for requests that have ended. `FramesApart`: a request is twice
  on the stack only as `done()` inside `ajax()`, so it ends in one call of
  `done()`. `Counted` is the set behind `active`: those with global events that have not ended or whose
  `done()` is still at work. Each step adds or removes at most one member.
* **NamesKept**: `Spec => []JsonpApart`, if the names of the functions in `window` are
  generated (`jsonp` is not "own") and a synchronous request is not one for a script (`Generated`).
  `NamesInv` says who holds a name: a request under way that is answered
  by jsonp has a name below the counter, its own function is in `window` under it, it has
  overwritten nothing, and the name is not among the free ones, which are all
  different (`Held`, `Freed`); and whatever is in `window` under a generated name is the function
  of such a request (`InWindow`). So the prefilter finds nothing under the name it takes, and
  the clean-up restores nothing. `Delivers` is about late answers: one that comes
  when its request is over finds it ended with an error, and one
  that comes in order is given by the function of its own request.

`JQuery_proofs` has both for the requests of the run `jquery` (their kinds, and any
number of them); its lemmas show that these kinds meet the assumptions, and that the
definitions of the two instances of `Ajax` agree.

### Conversion

* **TypesMade** (`JQuery_proofs`): `ConvertsRight` for any converters, equivalences among
  them, any lists of data types and any type the server sends
  (`ConvertersAssumption` says that they are types and that "text", what every
  response is first, is one). A value counts as every type equivalences lead to, in any number
  of steps (`CountsAs`). The invariant `Place` says where the loop is in the list of types:
  after the last type asked for by name, with nothing but "*" since (`Reached`); or at
  the type between two converters, before a type for which a converter is known
  (`Detour`). So the loop cannot fail in a detour or end in one, and where it gives up no
  "*" between two types would have helped (`StarsHelpNot`).

### PullTimer, PushToggle, TableFeed

* **OneTimerOnly** (`Panels_proofs`): `Spec => []OneTimer`, for any number of
  timers, requests and clicks, and for answers that overtake each other. In the
  first page the pending timers are at most the one in the field `timeout`, as
  every start clears that one, and the ready handler, which forgets it, comes before
  any request is sent.
* **SelectionFollowed**, **GeneratorKept** (`Panels_proofs`): `PanelsSpec => []ModeFollowsSelection`
  and `PanelsSpec => []GeneratorAlive`, for any set of executors; the hypothesis says that
  `Servlet` is none of them. `FeedInv` has a part for each claim. `Fed`: the puller polls, or the
  executor in the field is alive, or somebody in `setPullEnabled()` is about to enable the one or
  create the other, whichever threads are in it at once. `Selected`: as long as no run has fired
  radio buttons only the servlet thread is in `setPullEnabled()`, and where it is tells the mode.
  `Untouched`: until a radio button is clicked the mode is push mode, none of its buttons is
  dirty, and the generator never sets a model itself.
* **NothingLeaks**, **UserFollowed** (`Panels_proofs`): `PanelsSpec => []NoLeak` and
  `PanelsSpec => []PanelFollowsUser`, for any set of schedulers. The hypothesis says
  that `None` and `Servlet` are no schedulers. The monitor lets one push run at a time,
  and a click starts only between two runs. Both threads can be in the listener
  only to stop: the click has made the button dirty, and a run that began meanwhile
  fires its listener again. The invariant lists where they can be together
  (`ServletAt`, `RunAt`); through all of it the field names what is alive
  (`KnowsLive`). `TextAt` and `Asked` tie what the button says and what the
  user wants to these places.
* **TimerAlone** (`Panels_proofs`): `OneTimer` as the run `panels` states it.

A step of `PanelsSpec` is a step of one panel or leaves its variables alone
(`PanelsStep`), so the invariant of each panel holds whichever is in use.

### What is only model-checked

* Liveness under fairness, and `ENABLED`, are outside the prover's reach: `Converges`,
  `RequestsAnswered`, `StayersReturn`, `GeneratorStops`, `PollsAsTold`, `SearchFollowsField`,
  `EventuallyReady`, `QueueGoesOn`, `Completes`, and of `SettlesOnce` the half
  that says that `when()` settles (the other is `SettlesForGood`).
* `Effects` declares `RECURSIVE` operators, for which the prover has no arithmetic; no
  module with a theorem reaches it. So `QueueInTurn` stays with TLC.
* Induction over data: `HandlersConsistent` folds over sets of handlers and sequences. What
  the folds compute for every input cannot be proved here.
* `OpenedFirst`, `EndIsTold` and `EndIsFinal` of `Atmosphere`. They hold for the options
  of the run and not for all that `OptionsAssumption` admits: which call of the
  application comes last depends on the transport, its fallback and the browser together.
* `NoLostUpdate`, `UpdatedBeforeUnlock` and `NeverRegresses` with requests: there they speak of the
  time until a request and a push meet, and TLC checks that much in `push`.

`PROJECT.json` maps no operator that takes an operator as a parameter (`Later`,
`ExecuteOr` of `Atmosphere`, `Turn` of `Conversion`): the lines belong to the
definitions that use them.

## 5. Not modelled

* `Example`, `Task4`, the descriptors: no state after construction.
* Contents: HTML, texts, cursor position, the rows of a table, time itself
  (rates and intervals are interleavings).
* On the server, transports and caches of Atmosphere beyond what a push waits for.
* Of `jquery.atmosphere.js`: connections shared between tabs by local storage,
  messages with a length (`trackMessageLength`), XDomainRequest for long polling,
  the polling of Opera, URLs, headers and logging. `fbw.serverpush.js` asks for
  none of them.
* Of `jquery.js`: the selector engine, manipulation of documents, styles, offsets
  and tests of the browser (functions over documents without state of their own);
  tweens, easing and `overflow` of animations; headers, URLs and caching of
  requests; default actions of events, form events and cloning. `jquery.min.js` is
  the same program.
* Failing HTTP requests of the pages of the panels.
* Sessions that come and go around the panels: nothing shuts their executors
  down, which the hazard list records without a property so far; and a generator
  that calls `setModel()` without a session while a request renders.

The generated build files (`nbproject/`) and the distribution of Tomcat (`tools/`)
are configuration.

## 6. Plan

Done, in order: `PushCycle` with its proofs, `PushLog` and `PushChannel`, `PushToggle`,
`TableFeed`, `PullTimer`, `SearchField`; `Atmosphere`; the parts of jQuery; proofs of
`PushChannel`, `DocumentReady`, `PullTimer`, `PushToggle`, `TableFeed`, and of what
pushes do without requests; then the refinement of `PushLog`, the panels together,
`Ajax`, `Atmosphere`, callback lists and deferreds. What is left:

1. Sessions around the panels: end of a session with schedulers at work,
   composing `PushChannel`'s session with `PushToggle` (hazard at `Task2.java:118`).
2. The generator's `setModel()` without a session against a rendering request
   (hazard at `Task2.java:223`), on `PushCycle`'s reload manager.
