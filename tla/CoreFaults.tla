----------------------------- MODULE CoreFaults -----------------------------
(***************************************************************************)
(* The core scenarios of faults/orchestrator.py on the core that           *)
(* generator/generate.py builds: which interfaces each scenario takes      *)
(* down, slows or re-costs, which of them a campaign lets run together,    *)
(* and what is left of the network meanwhile.                              *)
(*                                                                         *)
(* A fault is <<name, target>>.  A campaign draws from CampaignFaults and  *)
(* skips what its lock keys forbid; the two region scenarios and faults on *)
(* internal routers are run by name, beside a campaign or not, under no    *)
(* lock.  Fault handling itself is in Campaign and FaultInjection.         *)
(***************************************************************************)
EXTENDS Topology

CONSTANTS
  Knobs,       \* knob records to build
  Faulted,     \* the ones among them whose lab is exercised
  MaxRunning   \* bound: faults at a time (none starts beside a disturbed one)

ASSUME BoundsAssumption == Faulted \subseteq Knobs /\ MaxRunning \in Nat

(* build() asks for two ABRs and a PE-facing router in every POP; the      *)
(* other bounds are those of the ranks.                                    *)
ASSUME SizesAssumption ==
  \A b \in Knobs :
    /\ {b.pops, b.perPop, b.pes, b.redundancy, b.branch, b.hub, b.dc} \subseteq Nat
    /\ b.pops >= 1 /\ b.perPop >= 3 /\ b.pops * b.perPop < 100
    /\ b.pes < 1000 /\ b.redundancy < 10 /\ b.pops + Len(b.chords) < 1000

(* The ring and the chords join POPs, none to itself, and rr_nodes names   *)
(* PEs of the lab; the generator checks neither.                           *)
ASSUME NamesAssumption ==
  \A b \in Knobs :
    /\ b.pops # 1 /\ b.chords \in Seq(Pops(b) \X Pops(b))
    /\ \A n \in DOMAIN b.chords : b.chords[n][1] # b.chords[n][2]
    /\ b.rr \subseteq 1..b.pes

VARIABLES
  knobs,       \* the knobs of the lab
  meta,        \* topology-meta.json, with the links it is about
  running,     \* faults applied and not reverted
  pulsing,     \* of these, link flaps whose apply() is still at work
  down,        \* interfaces that are down
  cost,        \* interfaces whose OSPF cost is not the generated one: the cost
  killed,      \* PEs whose bgpd is dead
  disturbed    \* running faults whose links another fault brought up
               \* (read by the properties only)

coreVars == <<knobs, meta, running, pulsing, down, cost, killed, disturbed>>

-----------------------------------------------------------------------------
(* What the scenarios compute from the meta data.                          *)

RankOf(iface) == iface[2]
FirstIface(S) == CHOOSE i \in S : \A j \in S : RankOf(i) <= RankOf(j)
LastIface(S) == CHOOSE i \in S : \A j \in S : RankOf(i) >= RankOf(j)

InterIfaces(p) == meta.p_inter_ifaces[p]

(* An inter-POP interface on an ABR, the last core interface elsewhere.    *)
BackboneIface(p) ==
  IF InterIfaces(p) # {} THEN FirstIface(InterIfaces(p))
  ELSE LastIface(meta.p_core_ifaces[p])

(* Mutant: the first core interface of a P, a link of the POP's mesh.       *)
UnderlayFirst(p) == FirstIface(meta.p_core_ifaces[p])

UnderlayIface(p) == LastIface(meta.p_core_ifaces[p])

(* The P of the PE's primary uplink.                                       *)
LdpNeighbor(pe) == Facing(knobs, PePop(knobs, pe[2]), pe[2] - 1)

Half(pop) == {((pop - 1 + n) % knobs.pops) + 1 : n \in 0..(knobs.pops \div 2 - 1)}

(* Mutant: the ring edges at the two ends of the half.                     *)
PartitionRingOnly(pop) ==
  Ifaces({l \in meta.inter_pop_links :
            /\ Cardinality(l.joins \cap Half(pop)) = 1
            /\ l.rank < 10000 + 10 * (knobs.pops + 1)})

PartitionIfaces(pop) ==
  Ifaces({l \in meta.inter_pop_links : Cardinality(l.joins \cap Half(pop)) = 1})

(* The interfaces a fault holds down.                                      *)
LinksOf(f) ==
  CASE f[1] = "p_node_failure"        -> meta.p_core_ifaces[f[2]]
    [] f[1] = "srlg_cut"              -> meta.srlgs[f[2]]
    [] f[1] = "mpls_underlay_failure" -> {UnderlayIface(f[2])}
    [] f[1] = "pop_isolation"         -> meta.pop_inter_links[f[2][2]]
    [] f[1] = "core_partition"        -> PartitionIfaces(f[2][2])
    [] f[1] = "ospf_area_flap"        -> {BackboneIface(f[2])}
    [] OTHER                          -> {}

(* Mutant: the inter-POP cost everywhere.                                  *)
OrigCostFixed(p) == 100

(* The cost path_asymmetry restores on its interface.                      *)
OrigCost(p) == IF InterIfaces(p) # {} THEN 100 ELSE 10

LinkOf(iface) == meta.link_of[iface]

-----------------------------------------------------------------------------
(* Pools and lock keys.                                                    *)

OnAbr == {"core_congestion", "ospf_area_flap", "path_asymmetry", "gray_failure"}

(* Mutant: whole regions are drawn, too.                                   *)
CampaignWithRegions ==
  ({"p_node_failure"} \X Ps(knobs))
  \cup (OnAbr \X meta.abrs)
  \cup ({"pop_isolation"} \X {<<"pop", n>> : n \in Pops(knobs)})

CampaignFaults ==
  ({"p_node_failure"} \X Ps(knobs))
  \cup ({"srlg_cut"} \X DOMAIN meta.srlgs)
  \cup ({"mpls_underlay_failure"} \X (Ps(knobs) \ meta.abrs))
  \cup (OnAbr \X meta.abrs)
  \cup ({"rr_failure"} \X {Pe(i) : i \in knobs.rr})

NamedFaults ==
  ({"pop_isolation", "core_partition"} \X {<<"pop", n>> : n \in Pops(knobs)})
  \cup ({"path_asymmetry"} \X (Ps(knobs) \ meta.abrs))

(* The key is (target, resource); an interface for faults that name one,   *)
(* the whole device for rr_failure, the scenario itself otherwise.         *)
LockResource(f) ==
  CASE f[1] \in OnAbr                  -> {BackboneIface(f[2])}
    [] f[1] = "mpls_underlay_failure"  -> {UnderlayIface(f[2])}
    [] OTHER                           -> {<<f, 0>>}

Blocks(f, g) ==
  f[2] = g[2] /\ (LockResource(f) = LockResource(g) \/ "rr_failure" \in {f[1], g[1]})

-----------------------------------------------------------------------------
CoreTypeOK ==
  /\ knobs \in Knobs
  /\ running # {} => running \subseteq CampaignFaults \cup NamedFaults
  /\ Cardinality(running) <= MaxRunning
  /\ pulsing \subseteq running /\ disturbed \subseteq running
  /\ knobs \in Faulted => down \cup DOMAIN cost \subseteq DOMAIN meta.link_of
  /\ killed \subseteq Pes(knobs)

CoreInit ==
  /\ knobs \in Knobs
  /\ meta = TopoMeta(knobs)
  /\ running = {} /\ pulsing = {} /\ down = {} /\ killed = {} /\ disturbed = {}
  /\ cost = <<>>

Shifted(f) == BackboneIface(f[2])

Start(f) ==
  /\ Cardinality(running) < MaxRunning /\ disturbed = {}
  /\ f \notin running
  /\ f \in CampaignFaults => \A g \in running \cap CampaignFaults : ~Blocks(f, g)
  /\ running' = running \cup {f}
  /\ down' = down \cup LinksOf(f)
  /\ pulsing' = IF f[1] = "ospf_area_flap" THEN pulsing \cup {f} ELSE pulsing
  /\ cost' = IF f[1] = "path_asymmetry"
             THEN [i \in DOMAIN cost \cup {Shifted(f)} |->
                     IF i = Shifted(f) THEN 2000 ELSE cost[i]]
             ELSE cost
  /\ killed' = IF f[1] = "rr_failure" THEN killed \cup {f[2]} ELSE killed
  /\ UNCHANGED <<knobs, meta, disturbed>>

BringUp(f) ==
  /\ down' = down \ LinksOf(f)
  /\ disturbed' =
       (disturbed \cup {g \in running \ {f} : g \notin pulsing
                                              /\ LinksOf(g) \cap LinksOf(f) # {}})
       \cap running'

(* A flap ends with its link up; the fault is held until it is reverted.   *)
FlapReturns(f) ==
  /\ f \in pulsing
  /\ pulsing' = pulsing \ {f}
  /\ UNCHANGED <<knobs, meta, running, cost, killed>>
  /\ BringUp(f)

Settled(f) == f \in running \ pulsing

Stop(f) ==
  /\ Settled(f)
  /\ running' = running \ {f}
  /\ BringUp(f)
  /\ cost' = IF f[1] = "path_asymmetry"
             THEN IF LinkOf(Shifted(f)).cost = OrigCost(f[2])
                  THEN [i \in DOMAIN cost \ {Shifted(f)} |-> cost[i]]
                  ELSE [i \in DOMAIN cost \cup {Shifted(f)} |->
                          IF i = Shifted(f) THEN OrigCost(f[2]) ELSE cost[i]]
             ELSE cost
  /\ killed' = IF f[1] = "rr_failure" THEN killed \ {f[2]} ELSE killed
  /\ UNCHANGED <<knobs, meta, pulsing>>

CoreNext ==
  /\ knobs \in Faulted
  /\ \/ \E f \in CampaignFaults \cup NamedFaults : Start(f)
     \/ \E f \in running : FlapReturns(f) \/ Stop(f)

CoreSpec == CoreInit /\ [][CoreNext]_coreVars

-----------------------------------------------------------------------------
(* Properties.                                                             *)

(* Whatever ran beside whatever, nothing stays down, re-costed or dead     *)
(* once every fault is reverted: the cost put back by path_asymmetry is    *)
(* the one the generator gave the link, on an ABR and elsewhere.           *)
CoreRestored == running = {} => down = {} /\ cost = <<>> /\ killed = {}

(* The lock keys do not keep campaign faults off each other's links, but   *)
(* nearly: one fault's revert brings up a link another one is still        *)
(* labelled as holding down only if a whole P or a whole conduit is among  *)
(* the two, or a fault run by name outside the campaign.                   *)
OverlapNeedsWholeCut ==
  \A f, g \in running :
    /\ f # g /\ LinksOf(f) \cap LinksOf(g) # {}
    /\ {f, g} \subseteq CampaignFaults
    => {f[1], g[1]} \cap {"p_node_failure", "srlg_cut"} # {}

-----------------------------------------------------------------------------
(* The customer edge, for every lab the generator's own checks accept.     *)

(* No octet of a site overflows, those that are counted do not up to 128   *)
(* links of each kind and 154 nodes, no two addresses collide; and the     *)
(* blocks are laid out for what the comments promise, so up to 64 sites    *)
(* with up to 10 hubs are accepted, whether their nodes are 154 or more.   *)
AddressesFit == running = {} =>
  /\ Accepted(knobs) => \A a \in EdgeAddresses(knobs) :
       a[3] \in (IF a[1] = "lan" THEN 0..255 ELSE 1..254)
  /\ /\ Cardinality(MeshLinks(knobs) \cup BackboneLinks(knobs)) <= 128
     /\ Cardinality(PeLinks(knobs)) <= 128
     /\ NodeCount(knobs) <= 154
     => \A a \in CoreAddresses(knobs) :
          a[3] \in (IF a[1] \in {"p_p", "pe_p"} THEN 0..255 ELSE 1..254)
  /\ knobs.branch + knobs.hub + knobs.dc <= 64 /\ knobs.hub <= 10 => Accepted(knobs)

(* What the controller steers over and the prediction graph are about this *)
(* lab: the controller's tunnels are exactly the WireGuard peerings of     *)
(* spokes with hubs, at the hubs' overlay addresses, peerings are mutual,  *)
(* and every BGP session and every adjacency of the core is an edge of the *)
(* graph, but that from ten POPs on the uplinks of all PEs outside the     *)
(* first POP are not: the graph has them at the routers of another POP.    *)
DerivedTablesAgree == running = {} =>
  /\ {<<t.site, t.hub>> : t \in Tunnels(knobs)}
       = {sh \in Sites(knobs) \X Sites(knobs) : sh[2] \in WgPeers(knobs, sh[1]) /\ ~IsHub(sh[1])}
  /\ \A t \in Tunnels(knobs) : t.hub_wg = WgHost(t.hub)
  /\ \A s, t \in Sites(knobs) : t \in WgPeers(knobs, s) <=> s \in WgPeers(knobs, t)
  /\ {l.ends : l \in MeshLinks(knobs) \cup BackboneLinks(knobs)} \subseteq GraphAdjacent(knobs)
  /\ \A l \in PeLinks(knobs) :
       l.ends \in GraphAdjacent(knobs) <=> knobs.pops < 10 \/ l.area = 1
  /\ \A i \in 1..knobs.pes : \A j \in IbgpPeers(knobs, i) : {i, j} \in GraphIbgp(knobs)

(* A lab that is only replayed has the interfaces the generator would have *)
(* given it: eth1, eth2, ... of every node lead to the same neighbours in  *)
(* the same order, and its overlay, like the live graph's, is the one the  *)
(* controller steers over.                                                 *)
ReplayAgrees == running = {} =>
  /\ LET built == Ends(knobs)
         replayed == Replayed(knobs)
     IN  \A n \in Routers(knobs) \cup {Ce(s) : s \in Sites(knobs)} :
           Numbered(built, n) = Numbered(replayed, n)
  /\ {ReplayedTunnels(knobs), LiveGraphTunnels(knobs)}
       = {{<<t.site, t.hub>> : t \in Tunnels(knobs)}}

(* A revert undoes its own fault, of another's at most a whole cut, and    *)
(* nothing is left when all are done.                                      *)
RevertsUndoTheirOwn == CoreTypeOK /\ CoreRestored /\ OverlapNeedsWholeCut

(* Generator, controller, prediction graph and replay agree on the lab.    *)
LabTablesAgree == AddressesFit /\ DerivedTablesAgree /\ ReplayAgrees
=============================================================================
