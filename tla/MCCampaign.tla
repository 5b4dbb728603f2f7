----------------------------- MODULE MCCampaign -----------------------------
(* Instances of Campaign for TLC: a CE and its scenarios on one uplink, in *)
(* one VRF and on the whole device; and the core, where an ABR's links     *)
(* belong to an SRLG conduit too.                                          *)
EXTENDS Campaign, TLC

CEScenario == {"tunnel_degrade", "policy_drift", "node_failure"}
CETarget == {"ce1", "ce2"}
CEResource == {"ce1.eth1", "ce1.wg0", "ce1.vrf", "ce1.bgpd", "ce2.vrf"}
CEPool == (CEScenario \X {"ce1"}) \cup {<<"policy_drift", "ce2">>}
CEFootprint ==
  [s \in CEScenario |-> [t \in CETarget |->
     CASE <<s, t>> = <<"tunnel_degrade", "ce1">> -> {"ce1.eth1"}
       [] <<s, t>> = <<"policy_drift", "ce1">> -> {"ce1.vrf"}
       [] <<s, t>> = <<"policy_drift", "ce2">> -> {"ce2.vrf"}
       [] <<s, t>> = <<"node_failure", "ce1">> -> {"ce1.bgpd"}
       [] OTHER -> {}]]
CEExtraOf ==
  [s \in CEScenario |-> [t \in CETarget |->
     IF <<s, t>> = <<"tunnel_degrade", "ce1">> THEN {"ce1.wg0"} ELSE {}]]
CEKeyOf ==
  [s \in CEScenario |-> [t \in CETarget |->
     CASE s = "tunnel_degrade" -> "interface:eth1"
       [] s = "policy_drift" -> "vrf:vrf_CORP"
       [] OTHER -> "process:bgpd"]]
CEExclusive == {"node_failure"}

CoreScenario == {"p_node_failure", "srlg_cut", "ospf_area_flap",
                 "core_congestion"}
CoreTarget == {"p1", "srlg1"}
CoreResource == {"p1.eth1", "p1.eth2", "p2.eth1", "p1.eth1.qdisc"}
CorePool == {<<"p_node_failure", "p1">>, <<"ospf_area_flap", "p1">>,
             <<"core_congestion", "p1">>, <<"srlg_cut", "srlg1">>}
CoreFootprint ==
  [s \in CoreScenario |-> [t \in CoreTarget |->
     CASE <<s, t>> = <<"p_node_failure", "p1">> -> {"p1.eth1", "p1.eth2"}
       [] <<s, t>> = <<"ospf_area_flap", "p1">> -> {"p1.eth1"}
       [] <<s, t>> = <<"core_congestion", "p1">> -> {"p1.eth1.qdisc"}
       [] <<s, t>> = <<"srlg_cut", "srlg1">> -> {"p1.eth1", "p2.eth1"}
       [] OTHER -> {}]]
CoreExtraOf == [s \in CoreScenario |-> [t \in CoreTarget |-> {}]]
CoreKeyOf ==
  [s \in CoreScenario |-> [t \in CoreTarget |->
     CASE s = "p_node_failure" -> "scenario:p_node_failure"
       [] s = "srlg_cut" -> "scenario:srlg_cut"
       [] OTHER -> "interface:eth1"]]
CorePulse == {"ospf_area_flap"}

CEProbing == {"tunnel_degrade"}
CoreProbing == {"core_congestion"}

(* Every failure but commands refused in silence.                          *)
RaisedFailures == Failure \ {"refused"}

Symmetry == Permutations(Fault)
=============================================================================
