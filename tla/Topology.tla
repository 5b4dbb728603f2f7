------------------------------ MODULE Topology ------------------------------
(***************************************************************************)
(* What generator/generate.py builds from the knobs of topology-spec.yaml: *)
(* the POP-structured core, PE homing, iBGP with route reflectors, the     *)
(* customer edge and the WireGuard overlay, with the addresses derived     *)
(* from node indices; and the tables other programs derive from the same   *)
(* knobs (controller/topo.py, synthetic/topology_paths.py,                 *)
(* synthetic/topologies.py, dataapi/topology_edges.py).                    *)
(*                                                                         *)
(* k is the record of knobs: pops, perPop, pes, dual, redundancy, chords,  *)
(* rr (the indices in rr_nodes, {} when route_reflector is off), branch,   *)
(* hub, dc, hubhub.  multi_area is on.                                     *)
(*                                                                         *)
(* A router is <<"p", i>> or <<"pe", i>>.  A link is a record; the order   *)
(* in which the generator numbers interfaces is its rank, and an interface *)
(* is <<router, rank>>.                                                    *)
(***************************************************************************)
EXTENDS Integers, Sequences, FiniteSets

CONSTANTS
  CostIntra,  \* igp_cost_intra
  CostInter   \* igp_cost_inter

Least(S) == CHOOSE x \in S : \A y \in S : x <= y
Greatest(S) == CHOOSE x \in S : \A y \in S : x >= y

-----------------------------------------------------------------------------
(* The core.                                                               *)

Pops(k) == 1..k.pops
P(i) == <<"p", i>>
Pe(i) == <<"pe", i>>
Ps(k) == {P(i) : i \in 1..(k.pops * k.perPop)}
Pes(k) == {Pe(i) : i \in 1..k.pes}
Routers(k) == Ps(k) \cup Pes(k)

PopRouters(k, pop) == {P(i) : i \in ((pop - 1) * k.perPop + 1)..(pop * k.perPop)}
Border(k, pop, n) == P((pop - 1) * k.perPop + n)
Borders(k, pop) == {Border(k, pop, 1), Border(k, pop, 2)}
Internals(k, pop) == PopRouters(k, pop) \ Borders(k, pop)
Abrs(k) == UNION {Borders(k, pop) : pop \in Pops(k)}

PePop(k, i) == ((i - 1) * k.pops) \div k.pes + 1
PopOf(k, router) ==
  IF router[1] = "p" THEN (router[2] - 1) \div k.perPop + 1
  ELSE PePop(k, router[2])

NoSrlg == <<"srlg", 0>>

(* Intra-POP mesh: the ABR pair is in the backbone, the rest in the area   *)
(* of the POP.                                                             *)
MeshLinks(k) ==
  LET link(pop, a, b) ==
        [ends |-> {a, b}, cost |-> CostIntra, srlg |-> NoSrlg, joins |-> {},
         area |-> IF {a, b} = Borders(k, pop) THEN 0 ELSE pop,
         rank |-> a[2] * 100 + b[2]]
  IN  UNION {{link(pop, ab[1], ab[2]) :
                ab \in {pq \in PopRouters(k, pop) \X PopRouters(k, pop) :
                        pq[1][2] < pq[2][2]}} : pop \in Pops(k)}

(* The ring of POPs, then the chords.                                      *)
Adjacency(k, n) ==
  IF n <= k.pops THEN {n, (n % k.pops) + 1}
  ELSE {k.chords[n - k.pops][1], k.chords[n - k.pops][2]}

Adjacencies(k) == 1..(k.pops + Len(k.chords))

(* An SRLG is named after the two POPs; its parallel links share a duct.   *)
SrlgOf(joined) == <<"srlg", Least(joined) * 100 + Greatest(joined)>>

BackboneLinks(k) ==
  {[ends |-> {Border(k, pop, (r % 2) + 1) : pop \in Adjacency(k, n)},
    cost |-> CostInter, area |-> 0,
    srlg |-> SrlgOf(Adjacency(k, n)), joins |-> Adjacency(k, n),
    rank |-> 10000 + 10 * n + r] :
     n \in Adjacencies(k), r \in 0..(k.redundancy - 1)}

(* The n-th PE-facing P of a POP, counted from 0 and around.               *)
Facing(k, pop, n) ==
  P((pop - 1) * k.perPop + 3 + (n % (k.perPop - 2)))

(* Mutant: both uplinks of a PE go to its first P.                         *)
PeLinksSamePe(k) ==
  {[ends |-> {Pe(i), Facing(k, PePop(k, i), i - 1)},
    cost |-> CostIntra, srlg |-> NoSrlg, joins |-> {}, area |-> PePop(k, i),
    rank |-> 20000 + 10 * i + h] : i \in 1..k.pes, h \in {0, 1}}

PeLinks(k) ==
  {[ends |-> {Pe(i), Facing(k, PePop(k, i), i - 1 + h)},
    cost |-> CostIntra, srlg |-> NoSrlg, joins |-> {}, area |-> PePop(k, i),
    rank |-> 20000 + 10 * i + h] :
     i \in 1..k.pes, h \in IF k.dual /\ k.perPop > 3 THEN {0, 1} ELSE {0}}

CoreLinks(k) == MeshLinks(k) \cup BackboneLinks(k) \cup PeLinks(k)

Ifaces(links) == UNION {{<<r, l.rank>> : r \in l.ends} : l \in links}

-----------------------------------------------------------------------------
(* topology-meta.json, which the fault scenarios read.                     *)

TopoMeta(k) ==
  LET links == CoreLinks(k)
      inter == BackboneLinks(k)
      own(all, r) == {i \in Ifaces(all) : i[1] = r}
  IN  [core_links      |-> links,
       link_of         |-> [i \in Ifaces(links) |->
                              CHOOSE l \in links : i[1] \in l.ends /\ l.rank = i[2]],
       abrs            |-> Abrs(k),
       p_core_ifaces   |-> [p \in Ps(k) |-> own(links, p)],
       p_inter_ifaces  |-> [p \in Ps(k) |-> own(inter, p)],
       inter_pop_links |-> inter,
       srlgs           |-> [g \in {l.srlg : l \in inter} |->
                              Ifaces({l \in inter : l.srlg = g})],
       (* only the POP's own ends of its inter-POP links *)
       pop_inter_links |-> [pop \in Pops(k) |->
                              {i \in Ifaces({l \in inter : pop \in l.joins}) :
                                 i[1] \in Borders(k, pop)}]]

-----------------------------------------------------------------------------
(* iBGP sessions: clients peer the reflectors, everybody else everybody.   *)
IbgpPeers(k, i) ==
  IF k.rr # {} /\ i \notin k.rr THEN k.rr \cap 1..k.pes ELSE (1..k.pes) \ {i}

RrClient(k, i, j) == k.rr # {} /\ i \in k.rr /\ j \notin k.rr

-----------------------------------------------------------------------------
(* The customer edge.  A site is [type, idx]; sites are numbered from 0,   *)
(* branches first, then hubs, then data centres.                           *)

Site(type, idx) == [type |-> type, idx |-> idx]
SitesOf(type, count) == {Site(type, i) : i \in 1..count}
Sites(k) ==
  SitesOf("branch", k.branch) \cup SitesOf("hub", k.hub) \cup SitesOf("dc", k.dc)

Lin(k, s) ==
  s.idx - 1 + (CASE s.type = "branch" -> 0
                 [] s.type = "hub"    -> k.branch
                 [] s.type = "dc"     -> k.branch + k.hub)

(* VRF indices: CORP 0, VOICE 1, GUEST 2; branches have no GUEST.          *)
Vrfs(s) == IF s.type = "branch" THEN {0, 1} ELSE {0, 1, 2}

LanOctet(k, s, v) == Lin(k, s) * 4 + v

WgHost(s) ==
  CASE s.type = "hub"    -> s.idx
    [] s.type = "branch" -> 10 + s.idx
    [] s.type = "dc"     -> 100 + s.idx

(* The octets of the edge that vary, by block: CE-PE link ends, LANs,      *)
(* overlay.                                                                *)
EdgeAddresses(k) ==
  (UNION {UNION {{<<"pe_side", v, Lin(k, s) * 4 + 1, s>>,
                  <<"ce_side", v, Lin(k, s) * 4 + 2, s>>,
                  <<"lan", 0, LanOctet(k, s, v), <<s, v>>>>} :
                    v \in Vrfs(s)} : s \in Sites(k)})
  \cup {<<"wg", 0, WgHost(s), s>> : s \in Sites(k)}

(* One host per site and VRF.                                              *)
NodeCount(k) ==
  k.pops * k.perPop + k.pes + 3 * k.branch + 4 * (k.hub + k.dc)

(* The octets that are numbered from a first one on: the ends of the /31s  *)
(* of the core, the loopbacks, and the management addresses.               *)
Counters(k) ==
  {[block |-> "p_p", first |-> 0,
    count |-> 2 * Cardinality(MeshLinks(k) \cup BackboneLinks(k))],
   [block |-> "pe_p", first |-> 0, count |-> 2 * Cardinality(PeLinks(k))],
   [block |-> "p_lo", first |-> 1, count |-> k.pops * k.perPop],
   [block |-> "pe_lo", first |-> 1, count |-> k.pes],
   [block |-> "branch_lo", first |-> 1, count |-> k.branch],
   [block |-> "hub_lo", first |-> 1, count |-> k.hub],
   [block |-> "dc_lo", first |-> 1, count |-> k.dc],
   [block |-> "mgmt", first |-> 101, count |-> NodeCount(k)]}

CoreAddresses(k) ==
  UNION {{<<c.block, 0, c.first + n, n>> : n \in 0..(c.count - 1)} :
           c \in Counters(k)}

Addresses(k) == EdgeAddresses(k) \cup CoreAddresses(k)

Collides(k) ==
  Cardinality({<<a[1], a[2], a[3]>> : a \in Addresses(k)})
    < Cardinality(Addresses(k))

(* Mutant: nobody looks.                                                   *)
FitsUnchecked(k) == TRUE

(* build()'s assertions, on the octets of a site only: nothing bounds a    *)
(* counter.                                                                *)
Fits(k) ==
  \A s \in Sites(k) : /\ Lin(k, s) * 4 + 2 < 256
                      /\ \A v \in Vrfs(s) : LanOctet(k, s, v) < 256

-----------------------------------------------------------------------------
(* The WireGuard overlay: spokes peer every hub and hubs every spoke, and  *)
(* the hubs are paired 1-2, 3-4, ...                                       *)

IsHub(s) == s.type = "hub"

(* Mutant: only the first of a pair of hubs lists the other.               *)
HubPairOneWay(k, s, t) ==
  k.hubhub /\ IsHub(s) /\ IsHub(t) /\ s.idx % 2 = 1 /\ t.idx = s.idx + 1

HubPair(k, s, t) ==
  /\ k.hubhub /\ IsHub(s) /\ IsHub(t)
  /\ {s.idx, t.idx} \in {{i, i + 1} : i \in {n \in 1..(k.hub - 1) : n % 2 = 1}}

WgPeers(k, s) ==
  {t \in Sites(k) : IsHub(s) # IsHub(t) \/ HubPair(k, s, t)}

(* check(): the peer counts it expects.                                    *)
ExpectedIbgp(k, i) ==
  IF k.rr # {} /\ i \notin k.rr THEN Cardinality(k.rr) ELSE k.pes - 1

ExpectedWg(k, s) ==
  IF ~IsHub(s) THEN k.hub
  ELSE k.branch + k.dc
       + (IF k.hubhub /\ (s.idx < k.hub \/ s.idx % 2 = 0) THEN 1 ELSE 0)

CheckPasses(k) ==
  /\ ~Collides(k)
  /\ \A i \in 1..k.pes : Cardinality(IbgpPeers(k, i)) = ExpectedIbgp(k, i)
  /\ \A s \in Sites(k) : Cardinality(WgPeers(k, s)) = ExpectedWg(k, s)

Accepted(k) == Fits(k) /\ CheckPasses(k)

-----------------------------------------------------------------------------
(* The controller derives the tunnels it steers from the same knobs.       *)
Tunnels(k) ==
  {[site |-> s, hub |-> h, hub_wg |-> h.idx] :
     s \in SitesOf("branch", k.branch) \cup SitesOf("dc", k.dc),
     h \in SitesOf("hub", k.hub)}

(* The prediction service's graph numbers the POPs in the order of their   *)
(* names, and "pop10" comes before "pop2".  (Of fewer than 100 POPs.)      *)
NamedBefore(pop, q) ==
  LET digit(n) == IF n < 10 THEN n ELSE n \div 10
  IN  digit(pop) < digit(q) \/ (digit(pop) = digit(q) /\ pop < q)

GraphArea(k, pop) ==
  Cardinality({q \in Pops(k) : q = pop \/ NamedBefore(q, pop)})

(* Its adjacencies: every pair of Ps of a POP, every PE with every P of    *)
(* the POP whose number is that of the PE's, and the inter-POP links.      *)
GraphAdjacent(k) ==
  (UNION {{{ab[1], ab[2]} : ab \in {pq \in PopRouters(k, pop) \X PopRouters(k, pop) :
                                     pq[1] # pq[2]}} : pop \in Pops(k)})
  \cup (UNION {{{Pe(i), p} : p \in UNION {PopRouters(k, pop) :
                   pop \in {q \in Pops(k) : GraphArea(k, q) = PePop(k, i)}}} : i \in 1..k.pes})
  \cup {l.ends : l \in BackboneLinks(k)}

(* topology-meta.json does not say which PEs are reflectors: full mesh.    *)
GraphIbgp(k) == UNION {{{i, j} : j \in (1..k.pes) \ {i}} : i \in 1..k.pes}

-----------------------------------------------------------------------------
(* Interface numbers.  A node's interfaces are numbered in the order its   *)
(* links are made; <<at, node, to>> is the end at node of a link to to,    *)
(* made at at.  A site has, per VRF, an uplink to its PE and then its LAN. *)

HomePe(k, s) == Pe((Lin(k, s) % k.pes) + 1)

Ce(s) == <<s.type, s.idx>>
Lan(v) == <<"lan", v>>

SiteEnds(k) ==
  UNION {UNION {{<<30000 + 10 * Lin(k, s) + 2 * v, Ce(s), HomePe(k, s)>>,
                 <<30000 + 10 * Lin(k, s) + 2 * v, HomePe(k, s), Ce(s)>>,
                 <<30001 + 10 * Lin(k, s) + 2 * v, Ce(s), Lan(v)>>} :
                   v \in Vrfs(s)} : s \in Sites(k)}

BothEnds(at, a, b) == {<<at, a, b>>, <<at, b, a>>}

Ends(k) ==
  (UNION {UNION {BothEnds(l.rank, ab[1], ab[2]) :
                   ab \in {pq \in l.ends \X l.ends : pq[1] # pq[2]}} : l \in CoreLinks(k)})
  \cup SiteEnds(k)

(* What eth1, eth2, ... of a node lead to.                                 *)
Numbered(ends, node) ==
  LET mine == {e \in ends : e[2] = node}
  IN  [n \in 1..Cardinality(mine) |->
         (CHOOSE e \in mine : Cardinality({d \in mine : d[1] <= e[1]}) = n)[3]]

(* synthetic/topologies.py replays the generator's loops on indices, to    *)
(* know the interfaces of labs that are never deployed.  The rounds of its *)
(* loops are numbered as above.                                            *)
ReplayedMesh(k) ==
  LET p(pop, i) == (pop - 1) * k.perPop + i
  IN  UNION {UNION {BothEnds(100 * p(pop, i) + p(pop, j), P(p(pop, i)), P(p(pop, j))) :
                      j \in (i + 1)..k.perPop} : pop \in Pops(k), i \in 1..k.perPop}

ReplayedBackbone(k) ==
  LET joined == [n \in 1..k.pops |-> <<n, (n % k.pops) + 1>>] \o k.chords
      first(n) == Least({joined[n][1], joined[n][2]})
      last(n) == Greatest({joined[n][1], joined[n][2]})
  IN  UNION {BothEnds(10000 + 10 * n + r,
                     P((first(n) - 1) * k.perPop + (r % 2) + 1),
                     P((last(n) - 1) * k.perPop + (r % 2) + 1)) :
               n \in DOMAIN joined, r \in 0..(k.redundancy - 1)}

(* Mutant: the secondary uplink of a PE first.                             *)
ReplayedPesSwapped(k) ==
  LET pop(i) == ((i - 1) * k.pops) \div k.pes + 1
      facing == [i \in 1..k.pes |->
                   [n \in 1..(k.perPop - 2) |-> P((pop(i) - 1) * k.perPop + 2 + n)]]
      up(i, n) == facing[i][(n % Len(facing[i])) + 1]
  IN  UNION {BothEnds(20000 + 10 * i, Pe(i), up(i, i))
             \cup (IF k.dual /\ Len(facing[i]) > 1
                   THEN BothEnds(20001 + 10 * i, Pe(i), up(i, i - 1)) ELSE {}) :
               i \in 1..k.pes}

ReplayedPes(k) ==
  LET pop(i) == ((i - 1) * k.pops) \div k.pes + 1
      facing == [i \in 1..k.pes |->
                   [n \in 1..(k.perPop - 2) |-> P((pop(i) - 1) * k.perPop + 2 + n)]]
      up(i, n) == facing[i][(n % Len(facing[i])) + 1]
  IN  UNION {BothEnds(20000 + 10 * i, Pe(i), up(i, i - 1))
             \cup (IF k.dual /\ Len(facing[i]) > 1
                   THEN BothEnds(20001 + 10 * i, Pe(i), up(i, i)) ELSE {}) :
               i \in 1..k.pes}

SitesInOrder(k) ==
  [i \in 1..k.branch |-> Site("branch", i)] \o [i \in 1..k.hub |-> Site("hub", i)]
  \o [i \in 1..k.dc |-> Site("dc", i)]

ReplayedSites(k) ==
  LET sites == SitesInOrder(k)
      pe(n) == Pe(((n - 1) % k.pes) + 1)
  IN  UNION {UNION {BothEnds(30000 + 10 * (n - 1) + 2 * v, pe(n), Ce(sites[n]))
                    \cup {<<30001 + 10 * (n - 1) + 2 * v, Ce(sites[n]), Lan(v)>>} :
                      v \in Vrfs(sites[n])} : n \in DOMAIN sites}

Replayed(k) ==
  ReplayedMesh(k) \cup ReplayedBackbone(k) \cup ReplayedPes(k)
  \cup ReplayedSites(k)

(* The overlay in the replay and in the live graph: spokes with every hub. *)
ReplayedTunnels(k) ==
  {sh \in Sites(k) \X SitesOf("hub", k.hub) : sh[1].type \in {"branch", "dc"}}

LiveGraphTunnels(k) ==
  LET spokes == {t.site : t \in Tunnels(k)}
      hubs == {t.hub : t \in Tunnels(k)}
  IN  spokes \X hubs
=============================================================================
