------------------------------ MODULE Injectors ------------------------------
(***************************************************************************)
(* The fault injectors, command by command (faults/injectors.py).  An      *)
(* injector is built, applied and reverted by the orchestrator; apply()    *)
(* and revert() are scripts of docker exec commands, of which each may     *)
(* take effect, be refused without an exception (_sh looks at no return    *)
(* code) or time out, which raises whether it took effect or not.          *)
(*                                                                         *)
(* Nothing here keeps two injectors from touching one resource at a time:  *)
(* that is the callers' task, and not always done.                         *)
(***************************************************************************)
EXTENDS Naturals, Sequences, FiniteSets

CONSTANTS
  Injector,     \* the injectors built in a behaviour
  Job,          \* what they may be: [kind, on], on being the resources
  Uplink,       \* qdiscs of CE uplinks: HTB roots
  Core,         \* qdiscs of core interfaces: no root qdisc
  Link,         \* admin states of interfaces, wg0 included
  Vrf,          \* inbound policies of a VRF
  Metric,       \* OSPF costs of interfaces
  Daemon,       \* routing daemons
  Explicit      \* uplinks whose HTB default class carries a leaf qdisc that
                \* the kernel can load (in the lab: none)

Resource == Uplink \cup Core \cup Link \cup Vrf \cup Metric \cup Daemon

(* What an injector of each kind works on; "clear" is a BGP or LDP session *)
(* reset, which leaves nothing behind.                                     *)
Site(kind) ==
  CASE kind = "netem"             -> Uplink \cup Core
    [] kind \in {"flap", "links"} -> Link
    [] kind = "drift"             -> Vrf
    [] kind = "cost"              -> Metric
    [] OTHER                      -> Daemon

Kind == {"netem", "flap", "clear", "kill", "drift", "links", "cost"}

ASSUME InjectorsAssumption ==
  /\ \A j \in Job : /\ j.kind \in Kind
                    /\ j.on \in Seq(Site(j.kind)) /\ j.on # <<>>
                    /\ j.kind # "links" => Len(j.on) = 1
  /\ LET sort == <<Uplink, Core, Link, Vrf, Metric, Daemon>>
     IN  \A m, n \in 1..6 : m # n => sort[m] \cap sort[n] = {}
  /\ Explicit \subseteq Uplink

Base(r) ==
  CASE r \in Uplink -> IF r \in Explicit THEN "htb_fq" ELSE "htb"
    [] r \in Core   -> "bare"
    [] r \in Link   -> "up"
    [] r \in Vrf    -> "policy"
    [] r \in Metric -> "generated"
    [] OTHER        -> "running"

States == {"htb", "htb_fq", "htb_netem", "bare", "bare_netem", "up", "down",
           "policy", "drifted", "generated", "raised", "running", "dead"}

Htb == {"htb", "htb_fq", "htb_netem"}

Impaired(dev) ==
  {r \in DOMAIN dev :
     dev[r] \in {"htb_netem", "bare_netem", "down", "drifted", "raised", "dead"}}

VARIABLES
  dev,      \* the lab: the state of each resource
  job,      \* what each injector is
  phase,    \* where its life is
  step,     \* the next command of the running script
  probed,   \* what the constructor read: an HTB root or none
  before,   \* its resources that were impaired when the running call began
  failed    \* injectors with a failed command
            \* (before and failed are read by the properties only)

vars == <<dev, job, phase, step, probed, before, failed>>

Phase == {"new", "built", "applying", "applied", "raised", "reverting",
          "reverted", "stuck"}

On(i) == {job[i].on[n] : n \in DOMAIN job[i].on}

TypeOK ==
  /\ dev \in [Resource -> States]
  /\ job \in [Injector -> Job]
  /\ phase \in [Injector -> Phase]
  /\ step \in [Injector -> Nat]
  /\ probed \in [Injector -> {"htb", "other"}]
  /\ before \in [Injector -> SUBSET Resource]
  /\ failed \subseteq Injector

Baseline == [r \in Resource |-> Base(r)]

Init ==
  /\ dev = Baseline
  /\ job \in [Injector -> Job]
  /\ phase = [i \in Injector |-> "new"]
  /\ step = [i \in Injector |-> 0]
  /\ probed = [i \in Injector |-> "other"]
  /\ before = [i \in Injector |-> {}]
  /\ failed = {}

-----------------------------------------------------------------------------
(* What one command does to the lab when it takes effect.                  *)

Set(r, state) == [dev EXCEPT ![r] = state]

(* tc qdisc replace ... netem under the default class; needs an HTB root.  *)
Splice(r) == IF dev[r] \in Htb THEN Set(r, "htb_netem") ELSE dev

(* tc qdisc del ... parent: HTB falls back to its implicit leaf.           *)
Unsplice(r) == IF dev[r] \in Htb THEN Set(r, "htb") ELSE dev

(* tc qdisc replace with the captured leaf, where its kind can be loaded.  *)
Releaf(r) ==
  IF dev[r] \in Htb /\ r \in Explicit THEN Set(r, "htb_fq") ELSE dev

(* containerlab tools netem set and reset: a root netem or none; another   *)
(* root is an error.                                                       *)
RootNetem(r) == IF dev[r] \in Htb THEN dev ELSE Set(r, "bare_netem")
RootReset(r) == IF dev[r] \in Htb THEN dev ELSE Set(r, "bare")

(* tc qdisc del ... root, whatever the root is.                            *)
DelRoot(r) == Set(r, "bare")

Effect(verb, r) ==
  CASE verb = "splice"   -> Splice(r)
    [] verb = "unsplice" -> Unsplice(r)
    [] verb = "releaf"   -> Releaf(r)
    [] verb = "netem"    -> RootNetem(r)
    [] verb = "reset"    -> RootReset(r)
    [] verb = "delroot"  -> DelRoot(r)
    [] verb = "down"     -> Set(r, "down")
    [] verb = "up"       -> Set(r, "up")
    [] verb = "attach"   -> Set(r, "drifted")
    [] verb = "detach"   -> Set(r, "policy")
    [] verb = "raise"    -> Set(r, "raised")
    [] verb = "restore"  -> Set(r, "generated")
    [] verb = "kill"     -> Set(r, "dead")
    [] verb = "restart"  -> Set(r, "running")
    [] OTHER             -> dev      \* reads; clear: sessions come back

Each(verb, on) == [n \in 1..Len(on) |-> <<verb, on[n]>>]

(* apply() and ramp(): the commands in order.  A ramp and a flap repeat    *)
(* theirs; twice stands for any number.  "detect" reads the BGP peer and   *)
(* the AS number, "pidof" a daemon's pid.                                  *)
ApplyScript(i) ==
  LET on == job[i].on
      r == on[1]
  IN  CASE job[i].kind = "netem" ->
             IF probed[i] = "htb" THEN <<<<"splice", r>>, <<"splice", r>>>>
             ELSE <<<<"netem", r>>, <<"netem", r>>>>
        [] job[i].kind = "flap"  ->
             <<<<"down", r>>, <<"up", r>>, <<"down", r>>, <<"up", r>>>>
        [] job[i].kind = "links" -> Each("down", on)
        [] job[i].kind = "drift" ->
             <<<<"detect", r>>, <<"attach", r>>, <<"clear", r>>>>
        [] job[i].kind = "cost"  -> <<<<"raise", r>>>>
        [] job[i].kind = "kill"  -> <<<<"pidof", r>>, <<"kill", r>>>>
        [] OTHER                 -> <<<<"clear", r>>>>

(* Mutants: the captured leaf is put back without the delete; a link too   *)
(* few is brought up again.                                                *)
NetemRestoreOnly(i) ==
  LET r == job[i].on[1]
  IN  IF probed[i] = "htb" THEN <<<<"releaf", r>>>>
      ELSE <<<<"reset", r>>, <<"delroot", r>>>>

UpButFirst(i) == Tail(Each("up", job[i].on))

(* Mutant: no netem root is left behind, on any uplink.                    *)
NetemDelRoot(i) ==
  LET r == job[i].on[1]
  IN  IF probed[i] = "htb" THEN <<<<"unsplice", r>>, <<"delroot", r>>>>
      ELSE <<<<"reset", r>>, <<"delroot", r>>>>

(* NetemImpair.revert(): our leaf goes first, whatever becomes of the      *)
(* restore.                                                                *)
NetemRevert(i) ==
  LET r == job[i].on[1]
  IN  IF probed[i] = "htb" THEN <<<<"unsplice", r>>, <<"releaf", r>>>>
      ELSE <<<<"reset", r>>, <<"delroot", r>>>>

LinkRevert(i) == Each("up", job[i].on)

(* A killed daemon that watchfrr has not brought back is restarted.        *)
RevertScript(i) ==
  LET r == job[i].on[1]
  IN  CASE job[i].kind = "netem"            -> NetemRevert(i)
        [] job[i].kind \in {"flap", "links"} -> LinkRevert(i)
        [] job[i].kind = "drift" ->
             <<<<"detect", r>>, <<"detach", r>>, <<"clear", r>>>>
        [] job[i].kind = "cost"             -> <<<<"restore", r>>>>
        [] job[i].kind = "kill"  -> <<<<"pidof", r>>, <<"restart", r>>>>
        [] OTHER                            -> <<>>

Script(i) == IF phase[i] = "applying" THEN ApplyScript(i) ELSE RevertScript(i)

Calling(i) == phase[i] \in {"applying", "reverting"}

-----------------------------------------------------------------------------
(* The constructor.  NetemImpair reads the root qdisc; a refused tc leaves *)
(* it an empty answer, which reads as "no HTB root".  One that times out   *)
(* raises, and there is no injector.                                       *)
Build(i) ==
  /\ phase[i] = "new"
  /\ phase' = [phase EXCEPT ![i] = "built"]
  /\ \/ /\ probed' = [probed EXCEPT
             ![i] = IF job[i].kind = "netem" /\ dev[job[i].on[1]] \in Htb
                    THEN "htb" ELSE "other"]
        /\ UNCHANGED failed
     \/ /\ job[i].kind = "netem"
        /\ failed' = failed \cup {i}
        /\ UNCHANGED probed
  /\ UNCHANGED <<dev, job, step, before>>

Begin(i, call) ==
  /\ phase' = [phase EXCEPT ![i] = call]
  /\ step' = [step EXCEPT ![i] = 1]
  /\ before' = [before EXCEPT ![i] = Impaired(dev) \cap On(i)]
  /\ UNCHANGED <<dev, job, probed, failed>>

StartApply(i) == phase[i] = "built" /\ Begin(i, "applying")

(* revert() follows apply(), raised or not, and may be called again.       *)
StartRevert(i) ==
  phase[i] \in {"applied", "raised", "reverted"} /\ Begin(i, "reverting")

Command(i) == Script(i)[step[i]]

(* The next command takes effect.                                          *)
Work(i) ==
  /\ Calling(i) /\ step[i] <= Len(Script(i))
  /\ dev' = Effect(Command(i)[1], Command(i)[2])
  /\ step' = [step EXCEPT ![i] = @ + 1]
  /\ UNCHANGED <<job, phase, probed, before, failed>>

(* It is refused and nobody looks.  A peer that is not found makes apply() *)
(* raise and revert() a no-op; a pid that is not found skips the kill.     *)
Refuse(i) ==
  /\ Calling(i) /\ step[i] <= Len(Script(i))
  /\ failed' = failed \cup {i}
  /\ \/ /\ Command(i)[1] = "detect"
        /\ phase' = [phase EXCEPT ![i] = IF phase[i] = "applying"
                                         THEN "raised" ELSE "reverted"]
        /\ UNCHANGED step
     \/ /\ Command(i)[1] = "pidof" /\ phase[i] = "applying"
        /\ phase' = [phase EXCEPT ![i] = "applied"]
        /\ UNCHANGED step
     \/ /\ \/ Command(i)[1] \notin {"detect", "pidof"}
           \/ Command(i)[1] = "pidof" /\ phase[i] = "reverting"
        /\ step' = [step EXCEPT ![i] = @ + 1]
        /\ UNCHANGED phase
  /\ UNCHANGED <<dev, job, probed, before>>

(* It runs into the timeout of _sh, which raises; it may have taken effect. *)
TimeOut(i) ==
  /\ Calling(i) /\ step[i] <= Len(Script(i))
  /\ failed' = failed \cup {i}
  /\ dev' \in {dev, Effect(Command(i)[1], Command(i)[2])}
  /\ phase' = [phase EXCEPT ![i] = IF phase[i] = "applying"
                                   THEN "raised" ELSE "stuck"]
  /\ UNCHANGED <<job, step, probed, before>>

Return(i) ==
  /\ Calling(i) /\ step[i] > Len(Script(i))
  /\ phase' = [phase EXCEPT ![i] = IF phase[i] = "applying"
                                   THEN "applied" ELSE "reverted"]
  /\ UNCHANGED <<dev, job, step, probed, before, failed>>

(* watchfrr respawns a daemon.                                             *)
Respawn(r) ==
  /\ r \in Daemon /\ dev[r] = "dead"
  /\ dev' = Set(r, "running")
  /\ UNCHANGED <<job, phase, step, probed, before, failed>>

Life(i) ==
  \/ Build(i) \/ StartApply(i) \/ StartRevert(i)
  \/ Work(i) \/ Refuse(i) \/ TimeOut(i) \/ Return(i)

Next == (\E i \in Injector : Life(i)) \/ (\E r \in Daemon : Respawn(r))

Spec == Init /\ [][Next]_vars

-----------------------------------------------------------------------------
(* PROPERTIES *)

Idle(i) == phase[i] \in {"new", "built", "reverted"}

(* "Everything is recoverable": whatever the injectors that share a        *)
(* resource did to it, and however their commands interleaved, it is at    *)
(* its baseline when all of them are reverted and none of their commands   *)
(* failed; an HTB default class has its leaf again.                        *)
Restored ==
  \A r \in Resource :
    (\A i \in Injector : r \in On(i) => Idle(i) /\ i \notin failed)
      => dev[r] = Base(r)

(* The QoS root of an uplink is lost in one way only: an injector whose    *)
(* probe of the qdisc was refused takes the uplink for a core interface,   *)
(* and its revert() deletes the root.                                      *)
QosLossIsBlind ==
  \A r \in Uplink : dev[r] \notin Htb =>
    \E i \in Injector : r \in On(i) /\ i \in failed /\ probed[i] = "other"

(* Every impairment is undone, but for the root of a blind injector.       *)
ImpairmentsAreUndone == TypeOK /\ Restored /\ QosLossIsBlind

-----------------------------------------------------------------------------
(* What Lab says of one call.                                              *)

Faulty(j) == IF j.kind = "clear" THEN {} ELSE {j.on[n] : n \in DOMAIN j.on}

L == INSTANCE Lab WITH
  Scenario  <- Job,
  Target    <- {"target"},
  Footprint <- [j \in Job |-> [t \in {"target"} |-> Faulty(j)]],
  ExtraOf   <- [j \in Job |-> [t \in {"target"} |-> {}]],
  Pulse     <- {j \in Job : j.kind = "flap"},
  Probing   <- {j \in Job : j.kind = "netem"},
  CanFail   <- {"refused"}

Alone(i) == \A k \in Injector \ {i} : On(k) \cap On(i) = {}

Ends(i, from, to) == phase[i] = from /\ phase'[i] = to

(* Lab's four operators are right about the injectors: on resources nobody *)
(* else works on, a call whose commands all took effect leaves what Lab    *)
(* says of a complete call, and one that raised or was refused somewhere   *)
(* leaves one of the outcomes Lab allows it.  (A killed daemon comes back  *)
(* by itself and is left out.)                                             *)
CallMatchesLab(i) ==
  LET now == (Impaired(dev) \cap On(i))'
      j == job[i]
      was == before[i]
  IN  /\ Ends(i, "applying", "applied") =>
           \/ now = L!Applied(was, j, "target")
           \/ i \in failed' /\ now \in L!ApplyRaised(was, j, "target")
      /\ Ends(i, "applying", "raised") =>
           now \in L!ApplyRaised(was, j, "target")
      /\ Ends(i, "reverting", "reverted") =>
           \/ now = L!Reverted(was, j, "target")
           \/ i \in failed' /\ now \in L!RevertRaised(was, j, "target")
      /\ Ends(i, "reverting", "stuck") =>
           now \in L!RevertRaised(was, j, "target")

CallsMatchLab ==
  [][\A i \in Injector :
       Alone(i) /\ job[i].kind # "kill" => CallMatchesLab(i)]_vars
=============================================================================
