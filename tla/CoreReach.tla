----------------------------- MODULE CoreReach ------------------------------
(***************************************************************************)
(* What is left of the network under the core scenarios: reachability by   *)
(* OSPF with areas and the VPN routes the reflectors pass on, with the     *)
(* links that CoreFaults has down.                                         *)
(***************************************************************************)
EXTENDS CoreFaults

-----------------------------------------------------------------------------
(* OSPF with areas: within an area over its links, between areas over the  *)
(* backbone only.                                                          *)

Works(l) == \A r \in l.ends : <<r, l.rank>> \notin down

(* What the links reach of a set of routers, with the routers beyond them. *)
Flooded(links, from) ==
  from \cup UNION {l.ends : l \in {m \in links : m.ends \cap from # {}}}

Spread(links, from) ==
  LET spread[known \in SUBSET Routers(knobs)] ==
        LET more == Flooded(links, known)
        IN  IF more = known THEN known ELSE spread[more]
  IN  spread[from]

InArea == {l \in meta.core_links : l.area # 0 /\ Works(l)}
InBackbone == {l \in meta.core_links : l.area = 0 /\ Works(l)}

ReachFrom(r, area, backbone) ==
  LET near == Spread(area, {r})
  IN  near \cup Spread(area, Spread(backbone, near \cap meta.abrs))

Reach ==
  LET area == InArea
      backbone == InBackbone
  IN  UNION {{r} \X ReachFrom(r, area, backbone) : r \in Routers(knobs)}

(* Without areas: any path of links that work.                             *)
Wired ==
  LET links == InArea \cup InBackbone
  IN  UNION {{r} \X Spread(links, {r}) : r \in Routers(knobs)}

(* VPN routes: over a session, or reflected: a reflector passes a client's *)
(* routes to everybody and other routes to its clients.                    *)
Sessions(reach) ==
  {ij \in (1..knobs.pes) \X (1..knobs.pes) :
     /\ ij[2] \in IbgpPeers(knobs, ij[1]) /\ ij[1] \in IbgpPeers(knobs, ij[2])
     /\ {Pe(ij[1]), Pe(ij[2])} \cap killed = {}
     /\ <<Pe(ij[1]), Pe(ij[2])>> \in reach}

Learns(j, i, sessions) ==
  \/ <<i, j>> \in sessions
  \/ \E x \in knobs.rr \cap 1..knobs.pes :
       /\ <<i, x>> \in sessions /\ RrClient(knobs, x, i)
       /\ \/ <<x, j>> \in sessions
          \/ \E y \in knobs.rr \cap 1..knobs.pes :
               {<<x, y>>, <<y, j>>} \subseteq sessions /\ RrClient(knobs, y, j)

-----------------------------------------------------------------------------
(* The knobs that make a core redundant: two lanes around a ring of three  *)
(* POPs or more, two routers for each PE, and no single reflector.         *)
Redundant(b) ==
  /\ b.pops >= 3 /\ b.perPop >= 4 /\ b.dual /\ b.redundancy >= 2
  /\ b.rr = {} \/ \E i, j \in b.rr : i # j

(* There are PEs enough for every PE-facing router.                        *)
Served(b) ==
  \A p \in Ps(b) \ Abrs(b) : \E l \in PeLinks(b) : p \in l.ends

-----------------------------------------------------------------------------
(* Properties.                                                             *)

Only(f) == running = {f} /\ f \notin disturbed

(* "The redundant POP mesh + PE dual-homing must reroute around it": under *)
(* any one fault of a campaign, every two routers that are not themselves  *)
(* the failed one reach each other, and every two PEs with bgpd alive have *)
(* each other's VPN routes.                                                *)
OneFaultIsSurvived ==
  \A f \in running : running = {f} /\ f \in CampaignFaults =>
    LET lost == IF f[1] = "p_node_failure" THEN {f[2]} ELSE {}
        alive == {i \in 1..knobs.pes : Pe(i) \notin killed}
        reach == Reach
        sessions == Sessions(reach)
    IN  /\ (Routers(knobs) \ lost) \X (Routers(knobs) \ lost) \subseteq reach
        /\ \A i, j \in alive : i # j => Learns(j, i, sessions)

(* Pop isolation cuts exactly the POP off, and its routers still reach     *)
(* each other; a core partition leaves exactly two islands, the halves.    *)
RegionFaultsCut ==
  \A f \in running : Only(f) =>
    /\ f[1] = "pop_isolation" =>
         Reach = {rx \in Routers(knobs) \X Routers(knobs) :
                    PopOf(knobs, rx[1]) = f[2][2] <=> PopOf(knobs, rx[2]) = f[2][2]}
    /\ f[1] = "core_partition" =>
         Wired = {rx \in Routers(knobs) \X Routers(knobs) :
                    PopOf(knobs, rx[1]) \in Half(f[2][2]) <=> PopOf(knobs, rx[2]) \in Half(f[2][2])}

(* The failure domain a label names is the real one: mpls_underlay_failure *)
(* takes down a link to a PE, and only PEs of the target's POP lose one;   *)
(* ldp_session_flap's neighbour is adjacent to the PE.                     *)
DomainsAreReal ==
  /\ \A f \in running : f[1] = "mpls_underlay_failure" =>
       \A i \in LinksOf(f) :
         \E pe \in LinkOf(i).ends \cap Pes(knobs) : PopOf(knobs, pe) = PopOf(knobs, f[2])
  /\ knobs \in Faulted => \A pe \in Pes(knobs) :
       {pe, LdpNeighbor(pe)} \in {l.ends : l \in PeLinks(knobs)}

(* The failure domains are those the scenarios and labels name.            *)
FaultsHitWhatTheyName == RegionFaultsCut /\ DomainsAreReal
=============================================================================
