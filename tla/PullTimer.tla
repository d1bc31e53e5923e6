------------------------------- MODULE PullTimer -------------------------------
(***************************************************************************)
(* Polling: fbw.serverpull.Puller renders a call of updatePull() into the  *)
(* page or into the answer of a request; fbw.pull.js keeps a timer that    *)
(* sends a request and starts itself anew.                                 *)
(*                                                                         *)
(* The page's scripts run one at a time.  Clicks go through wingS' queue   *)
(* of requests, which the polls bypass; the answer of any request makes    *)
(* the queue believe that none is on its way.  The server handles requests *)
(* one at a time, but each is answered on a connection of its own.         *)
(***************************************************************************)
EXTENDS Naturals, Sequences, FiniteSets

CONSTANTS
  Slots,      \* bound: requests on their way
  Timers,     \* ids of timers; a page has few at a time
  None,       \* no timer, no script
  Overtaking, \* may an answer arrive before one the server gave earlier?
  MaxClicks,  \* bound: clicks on radio buttons and tabs
  MaxLoads    \* bound: how often the page is loaded anew

ASSUME PullTimerAssumption ==
  /\ IsFiniteSet(Timers)
  /\ None \notin Timers \cup BOOLEAN
  /\ Overtaking \in BOOLEAN
  /\ MaxClicks \in Nat /\ MaxLoads \in Nat

VARIABLES
  enabled,      \* Puller.isEnabled() on the server
  stage,        \* of the page: "script", "ready", "live"
  inline,       \* argument of the updatePull() call in the page
  jsEnabled,    \* wingS.serverpull.enabled
  timeout,      \* wingS.serverpull.timeout
  pending,      \* timers of the page that have not fired
  request,      \* request[s]: what the slot is used for
  active,       \* wingS.ajax.requestIsActive
  waiting,      \* the click in wingS' queue, if any
  answers,      \* slots with an answer on its way, in the order given
  clicks, loads \* counted for the bounds

page == <<stage, inline, jsEnabled, timeout, pending>>
requests == <<request, active, waiting, answers>>
vars == <<enabled, page, requests, clicks, loads>>

\* Clicks: on the two radio buttons, and on another tab and back.
Clicks == {"push", "pull", "tab"}
Free == [kind |-> "free", at |-> "browser", script |-> None]
Sent(kind) == [kind |-> kind, at |-> "way", script |-> None]
FreeSlots == {s \in Slots : request[s] = Free}
Unused == Timers \ (pending \cup {timeout})

-----------------------------------------------------------------------------
(* fbw.pull.js                                                               *)

\* setTimeout(): a new timer is pending, and its id is stored.
StartTimer(others) ==
  \E t \in Unused : timeout' = t /\ pending' = others \cup {t}

\* Faulty: no timer is cleared.
UpdatePullAgain(on) ==
  /\ jsEnabled' = on
  /\ IF on THEN StartTimer(pending) ELSE UNCHANGED <<timeout, pending>>

UpdatePull(on) ==
  /\ jsEnabled' = on
  /\ IF on THEN StartTimer(pending \ {timeout})
           ELSE pending' = pending \ {timeout} /\ UNCHANGED timeout

\* pull(), called when timer t fires.
Pull(t) ==
  /\ t \in pending
  /\ \E s \in FreeSlots : request' = [request EXCEPT ![s] = Sent("poll")]
  /\ active' = TRUE
  /\ IF jsEnabled THEN StartTimer(pending \ {t})
                  ELSE pending' = pending \ {t} /\ UNCHANGED timeout
  /\ UNCHANGED <<enabled, stage, inline, jsEnabled, waiting, answers, clicks, loads>>

-----------------------------------------------------------------------------
(* A page: its inline scripts run while it is read, the functions given to   *)
(* $(document).ready afterwards.                                             *)

\* The user reloads, or is told to, when no request waits to be handled;
\* nobody reads the answers that are still on their way.
Load ==
  /\ loads < MaxLoads /\ loads' = loads + 1
  /\ stage = "live"
  /\ \A s \in Slots : request[s].at # "way"
  /\ stage' = "script"
  /\ inline' = enabled
  /\ jsEnabled' = FALSE /\ timeout' = None /\ pending' = {}
  /\ request' = [s \in Slots |-> Free]
  /\ active' = FALSE /\ waiting' = "none" /\ answers' = <<>>
  /\ UNCHANGED <<enabled, clicks>>

RunInline ==
  /\ stage = "script"
  /\ UpdatePull(inline)
  /\ stage' = "ready"
  /\ UNCHANGED <<enabled, inline, requests, clicks, loads>>

Ready ==
  /\ stage = "ready"
  /\ timeout' = None /\ jsEnabled' = FALSE
  /\ stage' = "live"
  /\ UNCHANGED <<enabled, inline, pending, requests, clicks, loads>>

-----------------------------------------------------------------------------
(* Requests.                                                                 *)

\* A click is sent, or queued while a request is active.
Click(kind) ==
  /\ clicks < MaxClicks /\ clicks' = clicks + 1
  /\ stage = "live" /\ waiting = "none"
  /\ IF active
       THEN waiting' = kind /\ UNCHANGED <<request, active>>
       ELSE /\ \E s \in FreeSlots : request' = [request EXCEPT ![s] = Sent(kind)]
            /\ active' = TRUE
            /\ UNCHANGED waiting
  /\ UNCHANGED <<enabled, page, answers, loads>>

\* Faulty: the puller is only rendered with its tab.
HandleSilently(s) ==
  LET kind == request[s].kind IN
  /\ enabled' = IF kind \in {"push", "pull"} THEN kind = "pull" ELSE enabled
  /\ request' = [request EXCEPT
       ![s].at = "answered", ![s].script = IF kind = "tab" THEN enabled' ELSE None]

\* What the server does with a request.  setEnabled() marks the puller for
\* rendering when its state changes, a tab is rendered with all it contains;
\* rendering adds the script to the answer.
Handle(s) ==
  LET kind == request[s].kind IN
  /\ enabled' = IF kind \in {"push", "pull"} THEN kind = "pull" ELSE enabled
  /\ request' = [request EXCEPT
       ![s].at = "answered",
       ![s].script = IF enabled' # enabled \/ kind = "tab" THEN enabled' ELSE None]

Serve(s) ==
  /\ request[s].at = "way"
  /\ Handle(s)
  /\ answers' = Append(answers, s)
  /\ UNCHANGED <<page, active, waiting, clicks, loads>>

\* The page evaluates the answer and sends the next queued request.
Answer(s) ==
  /\ request[s].at = "answered"
  /\ Overtaking \/ s = Head(answers)
  /\ IF request[s].script = None THEN UNCHANGED <<jsEnabled, timeout, pending>>
                                 ELSE UpdatePull(request[s].script)
  /\ request' = [request EXCEPT ![s] = IF waiting = "none" THEN Free ELSE Sent(waiting)]
  /\ active' = (waiting # "none")
  /\ waiting' = "none"
  /\ answers' = SelectSeq(answers, LAMBDA q : q # s)
  /\ UNCHANGED <<enabled, stage, inline, clicks, loads>>

-----------------------------------------------------------------------------
Init ==
  /\ enabled = FALSE
  /\ stage = "script" /\ inline = FALSE
  /\ jsEnabled = FALSE /\ timeout = None /\ pending = {}
  /\ request = [s \in Slots |-> Free]
  /\ active = FALSE /\ waiting = "none" /\ answers = <<>>
  /\ clicks = 0 /\ loads = 0

Next ==
  \/ Load \/ RunInline \/ Ready
  \/ \E kind \in Clicks : Click(kind)
  \/ \E s \in Slots : Serve(s) \/ Answer(s)
  \/ \E t \in Timers : Pull(t)

Spec == Init /\ [][Next]_vars

\* Timers fire, the server answers, pages finish loading.  Timers and clicks
\* share the bounded slots, so that a timer may have to try again and again.
FairSpec ==
  /\ Spec
  /\ WF_vars(RunInline) /\ WF_vars(Ready)
  /\ \A s \in Slots : WF_vars(Serve(s)) /\ WF_vars(Answer(s))
  /\ \A t \in Timers : SF_vars(Pull(t))

-----------------------------------------------------------------------------
(* A page polls with one timer: requests never come at twice the rate asked *)
(* for (fbw.pull.js clears the timer it has before it starts another).  The *)
(* ready handler of a page loaded anew forgets the timer.                   *)
OneTimer == loads = 0 => Cardinality(pending) <= 1

(* A puller that stays enabled is polled for again and again (Puller: "A    *)
(* component which once added to the component hierarchy will execute pull  *)
(* requests").                                                              *)
Polls == []<>(\E s \in Slots : request[s].kind = "poll")
KeepsPolling == <>[]enabled => Polls

(* The same of a page that is not loaded anew (fbw.pull.js).                *)
FirstPagePolls == [](loads = 0) /\ <>[]enabled => Polls

(* A puller that stays disabled is not polled for (Puller, fbw.pull.js).    *)
StopsPolling == <>[]~enabled => <>[](pending = {})

(* The page polls as the puller told it last (Puller, fbw.pull.js).         *)
PollsAsTold == FirstPagePolls /\ StopsPolling
=============================================================================
