------------------------------- MODULE Lab -------------------------------
(***************************************************************************)
(* The containerlab network as the fault injectors see it, and what one    *)
(* injector call does to it (faults/injectors.py).  A resource is anything *)
(* an injector puts in a faulty state and takes out of it again: the qdisc *)
(* of an uplink, the admin state of a link, a route-map in a VRF.          *)
(*                                                                         *)
(* The lab is the set of resources that are impaired now.  Every injector  *)
(* is idempotent and stateless: apply() puts its resources in the faulty   *)
(* state and revert() in the baseline state, whoever impaired them.  A     *)
(* killed routing daemon comes back by itself too: watchfrr respawns it.   *)
(***************************************************************************)
EXTENDS Naturals, FiniteSets

CONSTANTS
  Scenario,    \* the scenario names of orchestrator.SCENARIOS
  Target,      \* the target strings a caller may name
  Resource,    \* the lab resources the injectors mutate
  Footprint,   \* [Scenario -> [Target -> SUBSET Resource]]: spec["injector"]
  ExtraOf,     \* [Scenario -> [Target -> SUBSET Resource]]: spec["extra"]
  Daemon,      \* the resources watchfrr respawns: killed routing daemons
  Pulse,       \* scenarios whose apply() ends with the link back up (LinkFlap)
  Probing,     \* scenarios whose builder may raise: NetemImpair's constructor
               \* probes the device, mpls_underlay_failure rejects an ABR
  CanFail      \* the external calls that may fail, see each module's Failure

ASSUME LabAssumption ==
  /\ Scenario # {} /\ Target # {}
  /\ Footprint \in [Scenario -> [Target -> SUBSET Resource]]
  /\ ExtraOf \in [Scenario -> [Target -> SUBSET Resource]]
  /\ \A s \in Scenario, t \in Target : Footprint[s][t] \cap ExtraOf[s][t] = {}
  /\ Daemon \subseteq Resource
  /\ Pulse \subseteq Scenario /\ Probing \subseteq Scenario

(* A complete injector.apply(): a LinkFlap ends with its link up.          *)
Applied(lab, s, t) ==
  IF s \in Pulse THEN lab \ Footprint[s][t] ELSE lab \cup Footprint[s][t]

(* An apply() that raises may already have issued some of its commands, so *)
(* any part of the footprint may be impaired; a LinkFlap may also have     *)
(* brought a link up.                                                      *)
ApplyRaised(lab, s, t) ==
  LET parts == SUBSET Footprint[s][t]
  IN  {lab \cup part : part \in parts}
      \cup (IF s \in Pulse THEN {lab \ part : part \in parts} ELSE {})

(* No injector looks at a return code (_sh never raises on one): with      *)
(* refused commands a call returns although only part of it took effect.   *)
Returned(full, parts) ==
  IF "refused" \in CanFail THEN {full} \cup parts ELSE {full}

Reverted(lab, s, t) == lab \ Footprint[s][t]

(* A revert() that raises has undone some part of its footprint.           *)
RevertRaised(lab, s, t) == {lab \ part : part \in SUBSET Footprint[s][t]}

(* watchfrr does not wait for the revert of the fault that killed r.       *)
Respawned(lab, r) == lab \ {r}

HasExtra(s, t) == ExtraOf[s][t] # {}

(* WgRekeyAnomaly bounces wg0 and leaves it up, as its revert() does;      *)
(* raising, the bounce may leave wg0 down.                                 *)
ExtraApplied(lab, s, t) == lab \ ExtraOf[s][t]

ExtraReverted(lab, s, t) == lab \ ExtraOf[s][t]

ExtraRaised(lab, s, t) ==
  {lab, lab \cup ExtraOf[s][t], lab \ ExtraOf[s][t]}

(* The resources a scenario may leave impaired on a target.                *)
Touched(s, t) == Footprint[s][t] \cup ExtraOf[s][t]
==========================================================================
