--------------------------- MODULE MCFaultRegistry ---------------------------
(* Two sites whose calls interleave with the tick thread.                  *)
EXTENDS FaultRegistry, TLC

Symmetry == Permutations(Site)
=============================================================================
