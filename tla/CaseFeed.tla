------------------------------- MODULE CaseFeed -------------------------------
(***************************************************************************)
(* What the forensic pipeline promises, without processes, files or        *)
(* restarts (docs/adr/0014-forensic-trigger.md as the code keeps it): an   *)
(* alerting episode becomes known, then has a case, for good; a case       *)
(* belongs to a known alert; and the knowledge base learns the verdict of  *)
(* a case at most once.                                                    *)
(***************************************************************************)
EXTENDS Naturals

CONSTANT Alerting    \* the episodes whose prediction alerts

VARIABLES
  alerts,   \* the episodes known to alert
  cases,    \* the episodes with a report
  learnt    \* how often the verdict of an episode was learnt

vars == <<alerts, cases, learnt>>

Init ==
  /\ alerts = {}
  /\ cases = {}
  /\ learnt = [e \in Alerting |-> 0]

Alert(e) ==
  /\ e \notin alerts
  /\ alerts' = alerts \cup {e}
  /\ UNCHANGED <<cases, learnt>>

Open(e) ==
  /\ e \in alerts \ cases
  /\ cases' = cases \cup {e}
  /\ UNCHANGED <<alerts, learnt>>

Learn(e) ==
  /\ e \in cases
  /\ learnt[e] = 0
  /\ learnt' = [learnt EXCEPT ![e] = 1]
  /\ UNCHANGED <<alerts, cases>>

Next == \E e \in Alerting : Alert(e) \/ Open(e) \/ Learn(e)

Spec == Init /\ [][Next]_vars
=============================================================================
