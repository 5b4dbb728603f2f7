--------------------------- MODULE MCPathSelection ---------------------------
(* Three hubs and two VRFs with different preferences.  The metrics lie on *)
(* each side of every threshold: of 3x and 5x the base latency, of 5%      *)
(* loss, and of a score 15% better.                                        *)
EXTENDS PathSelection

MCVrf == {"CORP", "GUEST"}
MCPref == [v \in MCVrf |-> IF v = "CORP" THEN 1 ELSE 2]

M(loss, latency) == [loss |-> loss, latency |-> latency, base |-> 20]
MCMetric == {M(0, 20), M(0, 52), M(0, 60), M(0, 120), M(4, 20), M(5, 20)}
=============================================================================
