----------------------------- MODULE MCPushTeams -----------------------------
(***************************************************************************)
(* Two teams of threads for TLC: the two pushers of a session in which     *)
(* nobody clicks, or one of them and a thread that serves requests.        *)
(***************************************************************************)
EXTENDS MCPushCycle

VARIABLE team

Teams == {{p1, p2}, {p2, r1}}
TeamInit == Init /\ team \in Teams
TeamNext ==
  /\ Next
  /\ \A t \in Threads \ team : pc'[t] = "idle"
  /\ UNCHANGED team

\* The fairness of PushCycle, for the threads of the team.
TeamSpec ==
  /\ TeamInit /\ [][TeamNext]_<<vars, team>>
  /\ \A p \in Pushers : WF_system(p \in team /\ Pusher(p))
  /\ \A r \in Requests : /\ WF_system(r \in team /\ GoesOn(r))
                         /\ SF_system(r \in team /\ Lookup(r))
                         /\ SF_system(r \in team /\ Enter(r))
  /\ WF_system(Write)
  /\ WF_system(Connect)
  /\ WF_system(OnMessage)
=============================================================================
