----------------------------- MODULE MCInjectors -----------------------------
(* Two injectors of any kinds, on an uplink with an explicit leaf qdisc and *)
(* one without, two links, and one resource of every other sort.           *)
EXTENDS Injectors

MCJob ==
  {[kind |-> "netem", on |-> <<"corp">>],
   [kind |-> "netem", on |-> <<"voice">>],
   [kind |-> "netem", on |-> <<"core">>],
   [kind |-> "flap",  on |-> <<"eth1">>],
   [kind |-> "links", on |-> <<"eth1", "eth2">>],
   [kind |-> "drift", on |-> <<"vrf">>],   [kind |-> "cost", on |-> <<"cost">>],
   [kind |-> "kill",  on |-> <<"bgpd">>],   [kind |-> "clear", on |-> <<"bgpd">>]}
=============================================================================
