---------------------------- MODULE MCCoreFaults ----------------------------
(* The lab of topology-spec.yaml with its faults; smaller and larger cores *)
(* and customer edges around every limit of the generator's checks.        *)
EXTENDS CoreReach

Lab ==
  [pops |-> 6, perPop |-> 4, pes |-> 12, dual |-> TRUE, redundancy |-> 2,
   chords |-> <<<<1, 4>>, <<2, 5>>, <<3, 6>>>>, rr |-> {1, 2},
   branch |-> 24, hub |-> 6, dc |-> 4, hubhub |-> TRUE]

(* Five POPs of five, three PE-facing routers each, one chord, full mesh.  *)
Five ==
  [Lab EXCEPT !.pops = 5, !.perPop = 5, !.pes = 10, !.chords = <<<<1, 3>>>>,
              !.rr = {}]

Small == [Lab EXCEPT !.pops = 3, !.pes = 3, !.chords = <<>>]

Edges ==
  {[Small EXCEPT !.branch = b, !.hub = h, !.dc = d, !.hubhub = hh,
                 !.rr = IF hh THEN {1} ELSE {}] :
     b \in {0, 24, 50, 54}, h \in {1, 3, 10, 11}, d \in {0, 4}, hh \in BOOLEAN}

(* More than nine POPs, whose names sort in another order.                 *)
Many ==
  {[Small EXCEPT !.pops = n, !.pes = m, !.branch = 2, !.hub = 1, !.dc = 0,
                 !.rr = {1}] : n \in {9, 10, 21}, m \in {9, 24}}

MCKnobs == {Lab, Five} \cup Edges \cup Many
MCFaulted == {Lab, Five}

(* What the theorems of OrchestratorProofs ask of a core that faults hit.  *)
(* Both cores are Served too: the two PEs of a POP have uplinks to all its *)
(* PE-facing routers.                                                      *)
ASSUME RedundancyAssumption == \A b \in MCFaulted : Redundant(b)
=============================================================================
