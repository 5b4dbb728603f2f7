----------------------------- MODULE MCAgentLoop -----------------------------
(* Two concurrent faults on two devices.  The window has two rows of the   *)
(* first device and one of the second, so a read by pattern brings an      *)
(* off-topic row, a second page another id, and reads of the two devices   *)
(* the same id.                                                            *)
EXTENDS AgentLoop

MCWorld == <<1, 1, 2>>
MCFocus == <<{1}, {1, 2}>>

Read(d, o) == [kind |-> "read", dev |-> d, off |-> o]
MCCalls == {Read(1, 0), Read(2, 0), Read(Any, 1),
            [kind |-> "walk", dev |-> 2, off |-> 0],
            [kind |-> "act", dev |-> Any, off |-> 0]}
MCBatches == {<<c>> : c \in MCCalls} \cup {<<Read(1, 0), c>> : c \in MCCalls}
               \cup {[n \in 1..7 |-> Read(1, 0)]}

MCCiteSets == {{}, {<<"metrics", 0>>}, {<<"topo", 2>>},
               {<<"metrics", 0>>, <<"metrics", 9>>}}
==============================================================================
