--------------------------- MODULE MCFaultInjection ---------------------------
(* An instance of FaultInjection for TLC: a spoke CE with a netem fault    *)
(* (overlay, and the WireGuard extra), a killed daemon on the same CE,     *)
(* and two core targets whose link sets overlap.                           *)
EXTENDS FaultInjection, TLC

MCScenario == {"tunnel_degrade", "srlg_cut", "ospf_area_flap"}
MCPulse == {"ospf_area_flap"}

MCTarget == {"ce1", "p1", "srlg1"}

MCResource == {"ce1.eth1", "ce1.wg0", "ce1.bgpd", "p1.eth2", "p2.eth1"}

MCValidRole == {<<"tunnel_degrade", "ce1">>, <<"srlg_cut", "srlg1">>,
                <<"ospf_area_flap", "p1">>}

MCFootprint ==
  [s \in MCScenario |-> [t \in MCTarget |->
     CASE <<s, t>> = <<"tunnel_degrade", "ce1">> -> {"ce1.eth1"}
       [] <<s, t>> = <<"srlg_cut", "srlg1">> -> {"p1.eth2", "p2.eth1"}
       [] <<s, t>> = <<"ospf_area_flap", "p1">> -> {"p1.eth2"}
       [] OTHER -> {}]]

MCExtraOf ==
  [s \in MCScenario |-> [t \in MCTarget |->
     IF <<s, t>> = <<"tunnel_degrade", "ce1">> THEN {"ce1.wg0"} ELSE {}]]

MCOverlay == {"tunnel_degrade"}

(* The CE alone.                                                           *)
CEScenario == {"tunnel_degrade", "node_failure"}
CETarget == {"ce1"}
CEFootprint ==
  [s \in CEScenario |-> [t \in CETarget |->
     IF s = "tunnel_degrade" THEN {"ce1.eth1"} ELSE {"ce1.bgpd"}]]
CEExtraOf ==
  [s \in CEScenario |-> [t \in CETarget |->
     IF s = "tunnel_degrade" THEN {"ce1.wg0"} ELSE {}]]
CEValidRole == CEScenario \X CETarget

MCProbing == {"tunnel_degrade"}

(* Every failure but commands refused in silence.                          *)
RaisedFailures == Failure \ {"refused"}

Symmetry == Permutations(Id)
===============================================================================
