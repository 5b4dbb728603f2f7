----------------------------- MODULE MCDataset -----------------------------
(* A branch with two hubs and one PE; six buckets of two ticks.            *)
EXTENDS Dataset

CONSTANTS b1, h1, h2, pe1

MCHubs == <<h1, h2>>

(* On a bucket and between two; one outage can lie within another.         *)
MCSpans == {<<2, 5>>, <<3, 2>>}

MCFaults == {"gray_failure", "path_asymmetry", "bgp_flap", "srlg_cut"}

(* What the theorem about the tables takes for granted.                    *)
ASSUME HubsAssumption == TwoHubs
=============================================================================
