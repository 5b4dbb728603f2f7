---------------------------- MODULE PathSelection ----------------------------
(***************************************************************************)
(* Path selection for one spoke site (controller/controller.py: tick and   *)
(* select_paths).  Every tick recomputes the metrics of the site's         *)
(* tunnels, one tunnel for each hub, and then takes the VRFs of the site   *)
(* in turn: each stays on its hub, fails over or recovers to its           *)
(* preference.                                                             *)
(*                                                                         *)
(* The tick thread alone writes metrics and paths; the drift of the site,  *)
(* which moves the latency threshold of the failover test, is posted and   *)
(* cleared by HTTP threads, also between two VRFs of one round.            *)
(***************************************************************************)
EXTENDS Naturals

CONSTANTS
  Hubs,     \* the hubs are 1..Hubs, in the order of the tunnels of the site
  Vrf,      \* the VRFs of the site
  Pref,     \* [Vrf -> hub]: VRF_PREFERRED_HUB
  Metric,   \* the metrics a tunnel may have after an update
  Mult,     \* the latency_threshold_mult a caller may post
  NoDrift   \* no drift for the site

Hub == 1..Hubs

ASSUME PathAssumption ==
  /\ Hubs \in Nat \ {0}
  /\ Pref \in [Vrf -> Hub]
  /\ Metric \subseteq [loss: Nat, latency: Nat, base: Nat] /\ Metric # {}
  /\ Mult \subseteq Nat
  /\ NoDrift \notin Nat

FAILOVER_LOSS_PCT == 5
FAILOVER_LATENCY_MULT == 3

VARIABLES
  metric,     \* loss_pct, latency_ms and base_ms of the tunnel to each hub
  active,     \* active: the hub each VRF is on
  siteDrift,  \* the site's multiplier in _drift, or NoDrift
  waiting     \* the VRFs this round of select_paths has still to look at

pathVars == <<metric, active, siteDrift, waiting>>

PathTypeOK ==
  /\ metric \in [Hub -> Metric]
  /\ active \in [Vrf -> Hub]
  /\ siteDrift \in Mult \cup {NoDrift}
  /\ waiting \subseteq Vrf

(* A tunnel starts at its base latency, without loss.                      *)
PathInit ==
  /\ metric \in [Hub -> {m \in Metric : m.loss = 0 /\ m.latency = m.base}]
  /\ active = Pref
  /\ siteDrift = NoDrift
  /\ waiting = {}

-----------------------------------------------------------------------------
(* The tests of select_paths.                                              *)

Score(h) == metric[h].loss * 10 + metric[h].latency

(* min() keeps the first of equals.                                        *)
Best == CHOOSE h \in Hub : \A g \in Hub :
          Score(h) < Score(g) \/ (Score(h) = Score(g) /\ h <= g)

(* "score(best) < score(cur_t) * 0.85"                                     *)
ClearlyBetter(h, cur) == Score(h) * 100 < Score(cur) * 85

Exceeds(h, mult) ==
  \/ metric[h].loss >= FAILOVER_LOSS_PCT
  \/ metric[h].latency >= metric[h].base * mult

(* Mutant: a drift suppresses every failover of the site.                  *)
DegradedBarDrift(h) == siteDrift = NoDrift /\ Exceeds(h, FAILOVER_LATENCY_MULT)

Degraded(h) ==
  Exceeds(h, IF siteDrift = NoDrift THEN FAILOVER_LATENCY_MULT ELSE siteDrift)

(* The recovery test ignores the drift.                                    *)
Healthy(h) == ~Exceeds(h, FAILOVER_LATENCY_MULT)

(* Mutant: a better hub is reason enough.                                  *)
MustLeaveForBetter(v) == Best # active[v] /\ ClearlyBetter(Best, active[v])

MustLeave(v) ==
  Best # active[v] /\ Degraded(active[v]) /\ ClearlyBetter(Best, active[v])

(* Mutant: no recovery while the site drifts.                              *)
MayRecoverUndrifted(v) ==
  siteDrift = NoDrift /\ active[v] # Pref[v] /\ Healthy(Pref[v])

MayRecover(v) == active[v] # Pref[v] /\ Healthy(Pref[v])

-----------------------------------------------------------------------------
(* The tick thread.                                                        *)

(* The metrics follow the measured RTT, the diurnal load, the faults and   *)
(* the overlay: any value may come next.  Expired drifts have been pruned  *)
(* just before.                                                            *)
Update ==
  /\ waiting = {}
  /\ metric' \in [Hub -> Metric]
  /\ siteDrift' \in {siteDrift, NoDrift}
  /\ waiting' = Vrf
  /\ UNCHANGED active

Taken(v) ==
  /\ v \in waiting
  /\ waiting' = waiting \ {v}
  /\ UNCHANGED <<metric, siteDrift>>

FailOver(v) ==
  /\ Taken(v)
  /\ MustLeave(v)
  /\ active' = [active EXCEPT ![v] = Best]

Recover(v) ==
  /\ Taken(v)
  /\ ~MustLeave(v)
  /\ MayRecover(v)
  /\ active' = [active EXCEPT ![v] = Pref[v]]

Stay(v) ==
  /\ Taken(v)
  /\ ~MustLeave(v)
  /\ ~MayRecover(v)
  /\ UNCHANGED active

Select(v) == FailOver(v) \/ Recover(v) \/ Stay(v)

(* HTTP threads.                                                           *)
DriftSite(m) == siteDrift' = m /\ UNCHANGED <<metric, active, waiting>>

UndriftSite == siteDrift' = NoDrift /\ UNCHANGED <<metric, active, waiting>>

PathNext ==
  \/ Update
  \/ \E v \in Vrf : Select(v)
  \/ \E m \in Mult : DriftSite(m)
  \/ UndriftSite

(* The tick loop runs for ever; nobody has to post or clear a drift.       *)
PathFairness == WF_pathVars(Update) /\ \A v \in Vrf : WF_pathVars(Select(v))

PathSpec == PathInit /\ [][PathNext]_pathVars
FairPathSpec == PathSpec /\ PathFairness

-----------------------------------------------------------------------------
(* Properties.                                                             *)

(* "Only fail over when degraded (loss >= 5% or latency >= 3x baseline)":  *)
(* with multipliers above the 3x of the policy, as the orchestrator posts, *)
(* no drift makes a VRF leave a preferred hub that is healthy.             *)
LeavesOnlyUnhealthy ==
  [][\A v \in Vrf :
       active[v] = Pref[v] /\ active'[v] # Pref[v] => ~Healthy(Pref[v])]_pathVars

(* "Recover to preference when it is healthy again": once a round is past  *)
(* a VRF, the VRF is off its preference only while that hub is unhealthy,  *)
(* or because it has just gone on from a third hub to the best there is,   *)
(* whatever drifts came and went before and during the round.              *)
OffPreferenceIsJustified ==
  \A v \in Vrf \ waiting :
    active[v] # Pref[v] => ~Healthy(Pref[v]) \/ active[v] = Best

(* No drift, recovery or preference holds a VRF on a lossy path: once a    *)
(* round is past it, a VRF on a tunnel at 5% loss or more has no hub that  *)
(* is 15% better.                                                          *)
LossyMeansNoBetter ==
  \A v \in Vrf \ waiting :
    metric[active[v]].loss >= FAILOVER_LOSS_PCT =>
      \A h \in Hub : ~ClearlyBetter(h, active[v])

(* The inputs of select_paths no longer change.                            *)
Calm == <>[][UNCHANGED <<metric, siteDrift>>]_pathVars

(* "Hysteresis (to avoid flapping between paths)" and "recover to          *)
(* preference when it is healthy again": under metrics and drifts that no  *)
(* longer change every path stops changing too, and on its preference if   *)
(* that hub is healthy.                                                    *)
SettlesWhenCalm ==
  Calm =>
    /\ <>[][UNCHANGED active]_pathVars
    /\ \A v \in Vrf : <>[]Healthy(Pref[v]) => <>[](active[v] = Pref[v])
=============================================================================
