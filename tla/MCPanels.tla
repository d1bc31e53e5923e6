------------------------------ MODULE MCPanels -------------------------------
(***************************************************************************)
(* The panels of the example for TLC: the puller (PullTimer), the push     *)
(* panel (PushToggle), the generated table (TableFeed) and the search      *)
(* field (SearchField).  They share no state; in a behaviour, one of them  *)
(* is in use and the others stay as they begin.                            *)
(***************************************************************************)
EXTENDS MCPullTimer

CONSTANTS s1, s2, s3, Servlet, Schedulers,            \* of the push panel
          e1, e2, Executors, MaxQueued, MaxRefires, \* of the table
          MaxKeys                                     \* of the search field

VARIABLES
  panel,                                              \* the one in use
  scheduler, live, text, spinner, panelDirty, panelLock, pc, pushing, panelRefired,
  selected, on, mode, tableDirty, tableRefires, clicked, at, fires, tableLock,
  generating, queued, gpc, slot,
  field, down, current, submitted, timers, way, label, labels, shown, keys, searchLoads

Toggle == INSTANCE PushToggle WITH
  dirty <- panelDirty, lock <- panelLock, refired <- panelRefired
Feed == INSTANCE TableFeed WITH
  dirty <- tableDirty, lock <- tableLock, refires <- tableRefires, enabled <- generating
Search == INSTANCE SearchField WITH answers <- labels, loads <- searchLoads

toggleVars == <<scheduler, live, text, spinner, panelDirty, panelLock, pc, pushing, panelRefired>>
feedVars == <<selected, on, mode, tableDirty, tableRefires, clicked, at, fires, tableLock,
              generating, queued, gpc, slot>>
searchVars == <<field, down, current, submitted, timers, way, label, labels, shown, keys, searchLoads>>
allVars == <<panel, vars, toggleVars, feedVars, searchVars>>

PanelsInit ==
  /\ panel \in {"pull", "toggle", "feed", "search"}
  /\ Init /\ Toggle!Init /\ Feed!Init /\ Search!Init
  /\ mode.executor = e1

PullNext == panel = "pull" /\ Next /\ UNCHANGED <<toggleVars, feedVars, searchVars>>
ToggleNext == panel = "toggle" /\ Toggle!Next /\ UNCHANGED <<vars, feedVars, searchVars>>
FeedNext == panel = "feed" /\ Feed!Next /\ UNCHANGED <<vars, toggleVars, searchVars>>
SearchNext == panel = "search" /\ Search!Next /\ UNCHANGED <<vars, toggleVars, feedVars>>
PanelsNext == (PullNext \/ ToggleNext \/ FeedNext \/ SearchNext) /\ UNCHANGED panel

\* The fairness of each module, of the panel in use.
Pulling(A) == panel = "pull" /\ A
Feeding(A) == panel = "feed" /\ A
Searching(A) == panel = "search" /\ A

PanelsSpec ==
  /\ PanelsInit /\ [][PanelsNext]_allVars
  /\ WF_vars(Pulling(RunInline)) /\ WF_vars(Pulling(Ready))
  /\ \A s \in Slots : WF_vars(Pulling(Serve(s))) /\ WF_vars(Pulling(Answer(s)))
  /\ \A t \in Timers : SF_vars(Pulling(Pull(t)))
  /\ WF_(feedVars)(Feeding(Feed!Generator))
  /\ WF_(searchVars)(Searching(Search!KeyUp))
  /\ WF_(searchVars)(Searching(Search!MaybeHandleSearchEvent))
  /\ WF_(searchVars)(Searching(Search!ProcessLowLevelEvent))
  /\ WF_(searchVars)(Searching(Search!ApplyAnswer))

(* The properties of the panels, which their modules state.                  *)

(* A scheduler that runs can be stopped (Task3.OnPushButtonClicked).         *)
NoLeak == Toggle!NoLeak
(* Every click of the push button counts (Task3.OnPushButtonClicked).        *)
ClickCounts == Toggle!ClickCounts
(* The push panel shows what it does, and does what the user has asked for   *)
(* unless a push run has fired the listener of its button again (Task3).     *)
PanelFollowsUser == Toggle!PanelFollowsUser
(* The table is fed, and in the selected way unless a push run has fired the *)
(* radio buttons again (Task2.setPullEnabled).                               *)
ModeFollowsSelection == Feed!ModeFollowsSelection
(* In push mode the generator lives as long as its flag says (Task2).        *)
GeneratorAlive == Feed!GeneratorAlive
(* A stopped generator stops some time (Task2.stopThread).                   *)
GeneratorStops == Feed!GeneratorStops
(* The search is for what the field ends with, and shown (Task1).            *)
SearchFollowsField == Search!SearchFollowsField
=============================================================================
