---------------------------- MODULE InjectorsProofs ----------------------------
(***************************************************************************)
(* Proofs about Injectors, for any number of injectors, of resources and   *)
(* of links in a cut, and every interleaving of their commands.            *)
(***************************************************************************)
EXTENDS Injectors, TLAPS

(* What a command of a kind works on.                                      *)
Fits(verb, r) ==
  /\ verb \in {"splice", "unsplice", "releaf"} => r \in Uplink
  /\ verb \in {"netem", "reset", "delroot"} => r \in Uplink \cup Core
  /\ verb \in {"down", "up"} => r \in Link
  /\ verb \in {"attach", "detach"} => r \in Vrf
  /\ verb \in {"raise", "restore"} => r \in Metric
  /\ verb \in {"kill", "restart"} => r \in Daemon

(* The commands that put a resource at its baseline, an HTB class only as  *)
(* long as its root is there.                                              *)
Restoring(verb, r) ==
  \/ verb \in {"up", "detach", "restore", "restart"}
  \/ verb = "delroot" /\ r \in Core
  \/ verb = "releaf" /\ r \in Explicit
  \/ verb = "unsplice" /\ r \notin Explicit

(* The states of each sort of resource.                                    *)
Sorted ==
  \A r \in Resource :
    /\ r \in Uplink => /\ dev[r] \in Htb \cup {"bare", "bare_netem"}
                       /\ dev[r] = "htb_fq" => r \in Explicit
    /\ r \in Core   => dev[r] \in {"bare", "bare_netem"}
    /\ r \in Link   => dev[r] \in {"up", "down"}
    /\ r \in Vrf    => dev[r] \in {"policy", "drifted"}
    /\ r \in Metric => dev[r] \in {"generated", "raised"}
    /\ r \in Daemon => dev[r] \in {"running", "dead"}

(* What the constructor and the failures have left.                        *)
Marked ==
  \A i \in Injector :
    /\ phase[i] = "new" => i \notin failed /\ probed[i] = "other"
    /\ phase[i] \in {"raised", "stuck"} => i \in failed
    /\ probed[i] = "htb" => job[i].kind = "netem" /\ job[i].on[1] \in Uplink
    /\ Calling(i) => step[i] \in Nat \ {0}

(* Some injector on r saw no root because its probe was refused.           *)
BlindOn(r) ==
  \E k \in Injector : r \in On(k) /\ k \in failed /\ probed[k] = "other"

(* An injector that works on an uplink as on a core interface is blind, or *)
(* the root was gone before it.                                            *)
BlindIsKnown ==
  \A i \in Injector : \A r \in On(i) \cap Uplink :
    phase[i] # "new" /\ probed[i] = "other" => BlindOn(r)

(* The injector will put r at its baseline, or has failed.                 *)
Restores(i, n, r) ==
  RevertScript(i)[n][2] = r /\ Restoring(RevertScript(i)[n][1], r)

Owes(i, r) ==
  /\ r \in On(i) /\ job[i].kind # "clear"
  /\ \/ i \in failed
     \/ phase[i] \in {"applying", "applied"}
     \/ /\ phase[i] = "reverting"
        /\ \E n \in 1..Len(RevertScript(i)) : step[i] <= n /\ Restores(i, n, r)

Lost(r) == r \in Uplink /\ BlindOn(r)

(* What is not at its baseline is owed by somebody.                        *)
Owed ==
  \A r \in Resource :
    dev[r] # Base(r) /\ ~Lost(r) => \E i \in Injector : Owes(i, r)

IInv == TypeOK /\ Sorted /\ Marked /\ QosLossIsBlind /\ BlindIsKnown /\ Owed

-----------------------------------------------------------------------------
(* The six sorts of resources are apart.                                   *)
LEMMA SortsApart ==
  ASSUME NEW r
  PROVE  /\ r \in Uplink => r \notin Core \cup Link \cup Vrf \cup Metric \cup Daemon
         /\ r \in Core   => r \notin Uplink \cup Link \cup Vrf \cup Metric \cup Daemon
         /\ r \in Link   => r \notin Uplink \cup Core \cup Vrf \cup Metric \cup Daemon
         /\ r \in Vrf    => r \notin Uplink \cup Core \cup Link \cup Metric \cup Daemon
         /\ r \in Metric => r \notin Uplink \cup Core \cup Link \cup Vrf \cup Daemon
         /\ r \in Daemon => r \notin Uplink \cup Core \cup Link \cup Vrf \cup Metric
<1> DEFINE sort == <<Uplink, Core, Link, Vrf, Metric, Daemon>>
<1>1. \A m, n \in 1..6 : m # n => sort[m] \cap sort[n] = {}
  BY InjectorsAssumption
<1>2. /\ sort[1] = Uplink /\ sort[2] = Core /\ sort[3] = Link
      /\ sort[4] = Vrf /\ sort[5] = Metric /\ sort[6] = Daemon
  OBVIOUS
<1> HIDE DEF sort
<1>3. /\ Uplink \cap Core = {} /\ Uplink \cap Link = {} /\ Uplink \cap Vrf = {}
      /\ Uplink \cap Metric = {} /\ Uplink \cap Daemon = {}
      /\ Core \cap Link = {} /\ Core \cap Vrf = {} /\ Core \cap Metric = {}
      /\ Core \cap Daemon = {} /\ Link \cap Vrf = {} /\ Link \cap Metric = {}
      /\ Link \cap Daemon = {} /\ Vrf \cap Metric = {} /\ Vrf \cap Daemon = {}
      /\ Metric \cap Daemon = {}
  BY <1>1, <1>2
<1>4. QED
  BY <1>3

LEMMA BaseOfSort ==
  ASSUME NEW r
  PROVE  /\ r \in Explicit => r \in Uplink /\ Base(r) = "htb_fq"
         /\ r \in Uplink /\ r \notin Explicit => Base(r) = "htb"
         /\ r \in Core => Base(r) = "bare"
         /\ r \in Link => Base(r) = "up"
         /\ r \in Vrf => Base(r) = "policy"
         /\ r \in Metric => Base(r) = "generated"
         /\ r \in Daemon => Base(r) = "running"
  BY SortsApart, InjectorsAssumption DEF Base

(* What an injector works on is of its kind's sort, and only a cut of      *)
(* links has more than one.                                                *)
LEMMA JobShape ==
  ASSUME TypeOK, NEW i \in Injector
  PROVE  /\ job[i].kind \in Kind
         /\ Len(job[i].on) \in Nat /\ 1 <= Len(job[i].on)
         /\ DOMAIN job[i].on = 1..Len(job[i].on)
         /\ \A n \in 1..Len(job[i].on) :
              job[i].on[n] \in On(i) /\ job[i].on[n] \in Site(job[i].kind)
         /\ \A r \in On(i) :
              /\ r \in Site(job[i].kind)
              /\ \E n \in 1..Len(job[i].on) : r = job[i].on[n]
         /\ job[i].kind # "links" => \A r \in On(i) : r = job[i].on[1]
<1>1. job[i] \in Job
  BY DEF TypeOK
<1>2. /\ job[i].kind \in Kind
      /\ job[i].on \in Seq(Site(job[i].kind)) /\ job[i].on # <<>>
      /\ job[i].kind # "links" => Len(job[i].on) = 1
  BY <1>1, InjectorsAssumption
<1> DEFINE on == job[i].on
<1>3. /\ Len(on) \in Nat /\ 1 <= Len(on) /\ DOMAIN on = 1..Len(on)
      /\ \A n \in 1..Len(on) : on[n] \in Site(job[i].kind)
  BY <1>2
<1>4. On(i) = {on[n] : n \in 1..Len(on)}
  BY <1>3 DEF On
<1> HIDE DEF on
<1>5. \A n \in 1..Len(on) : on[n] \in On(i) /\ on[n] \in Site(job[i].kind)
  BY <1>3, <1>4
<1>6. \A r \in On(i) : \E n \in 1..Len(on) : r = on[n]
  BY <1>4
<1>7. \A r \in On(i) : r \in Site(job[i].kind)
  BY <1>3, <1>6
<1>8. job[i].kind # "links" => \A r \in On(i) : r = on[1]
  BY <1>2, <1>3, <1>6 DEF on
<1>9. QED
  BY <1>2, <1>3, <1>5, <1>6, <1>7, <1>8 DEF on

(* Only NetemImpair works on uplinks.                                      *)
LEMMA UplinkIsNetem ==
  ASSUME TypeOK, NEW i \in Injector, NEW r \in On(i), r \in Uplink
  PROVE  job[i].kind = "netem" /\ r = job[i].on[1]
<1>1. r \in Site(job[i].kind) /\ job[i].kind \in Kind
  BY JobShape
<1>2. job[i].kind = "netem"
  BY <1>1, SortsApart DEF Site, Kind
<1>3. QED
  BY <1>2, JobShape

(* The commands of apply(): on the injector's resources, of their sort,    *)
(* and as on a core interface only if the probe saw no HTB root.           *)
LEMMA ApplyCommand ==
  ASSUME TypeOK, Marked, NEW i \in Injector, phase[i] # "new",
         NEW n \in 1..Len(ApplyScript(i))
  PROVE  LET c == ApplyScript(i)[n]
         IN  /\ c[2] \in On(i) /\ Fits(c[1], c[2])
             /\ c[1] \in {"netem", "reset", "delroot"} => probed[i] # "htb"
             /\ job[i].kind = "clear" => c[1] = "clear"
<1> DEFINE on == job[i].on
           r == on[1]
           c == ApplyScript(i)[n]
<1>1. /\ job[i].kind \in Kind /\ Len(on) \in Nat /\ 1 <= Len(on)
      /\ \A m \in 1..Len(on) : on[m] \in On(i) /\ on[m] \in Site(job[i].kind)
  BY JobShape
<1>2. r \in On(i) /\ r \in Site(job[i].kind)
  BY <1>1
<1>3. CASE job[i].kind = "netem"
  <2>1. r \in Uplink \cup Core
    BY <1>2, <1>3 DEF Site
  <2>2. CASE probed[i] = "htb"
    <3>1. ApplyScript(i) = <<<<"splice", r>>, <<"splice", r>>>>
      BY <1>3, <2>2 DEF ApplyScript
    <3>2. c[1] = "splice" /\ c[2] = r
      BY <3>1
    <3>3. r \in Uplink
      BY <2>2 DEF Marked
    <3>4. QED
      BY <3>2, <3>3, <1>2, <1>3 DEF Fits
  <2>3. CASE probed[i] # "htb"
    <3>1. ApplyScript(i) = <<<<"netem", r>>, <<"netem", r>>>>
      BY <1>3, <2>3 DEF ApplyScript
    <3>2. c[1] = "netem" /\ c[2] = r
      BY <3>1
    <3>3. QED
      BY <3>2, <2>1, <2>3, <1>2, <1>3 DEF Fits
  <2>4. QED
    BY <2>2, <2>3
<1>4. CASE job[i].kind = "flap"
  <2>1. ApplyScript(i) =
          <<<<"down", r>>, <<"up", r>>, <<"down", r>>, <<"up", r>>>>
    BY <1>4 DEF ApplyScript
  <2>2. c[1] \in {"down", "up"} /\ c[2] = r
    BY <2>1
  <2>3. r \in Link
    BY <1>2, <1>4 DEF Site
  <2>4. QED
    BY <2>2, <2>3, <1>2, <1>4 DEF Fits
<1>5. CASE job[i].kind = "links"
  <2>1. ApplyScript(i) = [m \in 1..Len(on) |-> <<"down", on[m]>>]
    BY <1>5 DEF ApplyScript, Each
  <2>2. Len(ApplyScript(i)) = Len(on)
    BY <2>1, <1>1
  <2>3. c = <<"down", on[n]>> /\ n \in 1..Len(on)
    BY <2>1, <2>2
  <2>4. on[n] \in On(i) /\ on[n] \in Link
    BY <2>3, <1>1, <1>5 DEF Site
  <2>5. QED
    BY <2>3, <2>4, <1>5 DEF Fits
<1>6. CASE job[i].kind = "drift"
  <2>1. ApplyScript(i) = <<<<"detect", r>>, <<"attach", r>>, <<"clear", r>>>>
    BY <1>6 DEF ApplyScript
  <2>2. c[1] \in {"detect", "attach", "clear"} /\ c[2] = r
    BY <2>1
  <2>3. r \in Vrf
    BY <1>2, <1>6 DEF Site
  <2>4. QED
    BY <2>2, <2>3, <1>2, <1>6 DEF Fits
<1>7. CASE job[i].kind = "cost"
  <2>1. ApplyScript(i) = <<<<"raise", r>>>>
    BY <1>7 DEF ApplyScript
  <2>2. c[1] = "raise" /\ c[2] = r
    BY <2>1
  <2>3. r \in Metric
    BY <1>2, <1>7 DEF Site
  <2>4. QED
    BY <2>2, <2>3, <1>2, <1>7 DEF Fits
<1>8. CASE job[i].kind = "kill"
  <2>1. ApplyScript(i) = <<<<"pidof", r>>, <<"kill", r>>>>
    BY <1>8 DEF ApplyScript
  <2>2. c[1] \in {"pidof", "kill"} /\ c[2] = r
    BY <2>1
  <2>3. r \in Daemon
    BY <1>2, <1>8 DEF Site
  <2>4. QED
    BY <2>2, <2>3, <1>2, <1>8 DEF Fits
<1>9. CASE job[i].kind = "clear"
  <2>1. ApplyScript(i) = <<<<"clear", r>>>>
    BY <1>9 DEF ApplyScript
  <2>2. c[1] = "clear" /\ c[2] = r
    BY <2>1
  <2>3. QED
    BY <2>2, <1>2 DEF Fits
<1>10. QED
  BY <1>1, <1>3, <1>4, <1>5, <1>6, <1>7, <1>8, <1>9 DEF Kind

(* The commands of revert(): those of apply() are not among them, and our  *)
(* leaf is deleted right before the captured one is put back.              *)
LEMMA RevertCommand ==
  ASSUME TypeOK, Marked, NEW i \in Injector, phase[i] # "new",
         NEW n \in 1..Len(RevertScript(i))
  PROVE  LET c == RevertScript(i)[n]
         IN  /\ c[2] \in On(i) /\ Fits(c[1], c[2]) /\ job[i].kind # "clear"
             /\ c[1] \in {"netem", "reset", "delroot"} => probed[i] # "htb"
             /\ c[1] \notin {"splice", "netem", "down", "attach", "raise", "kill"}
             /\ c[1] = "unsplice" => /\ n = 1 /\ 2 \in 1..Len(RevertScript(i))
                                     /\ RevertScript(i)[2] = <<"releaf", c[2]>>
<1> DEFINE on == job[i].on
           r == on[1]
           c == RevertScript(i)[n]
<1>1. /\ job[i].kind \in Kind /\ Len(on) \in Nat /\ 1 <= Len(on)
      /\ \A m \in 1..Len(on) : on[m] \in On(i) /\ on[m] \in Site(job[i].kind)
  BY JobShape
<1>2. r \in On(i) /\ r \in Site(job[i].kind)
  BY <1>1
<1>3. CASE job[i].kind = "netem"
  <2>1. r \in Uplink \cup Core
    BY <1>2, <1>3 DEF Site
  <2>2. CASE probed[i] = "htb"
    <3>1. RevertScript(i) = <<<<"unsplice", r>>, <<"releaf", r>>>>
      BY <1>3, <2>2 DEF RevertScript, NetemRevert
    <3>2. /\ c[2] = r
          /\ \/ n = 1 /\ c[1] = "unsplice"
             \/ n = 2 /\ c[1] = "releaf"
      BY <3>1
    <3>3. 2 \in 1..Len(RevertScript(i)) /\ RevertScript(i)[2] = <<"releaf", c[2]>>
      BY <3>1, <3>2
    <3>4. r \in Uplink
      BY <2>2 DEF Marked
    <3>5. QED
      BY <3>2, <3>3, <3>4, <1>2, <1>3 DEF Fits
  <2>3. CASE probed[i] # "htb"
    <3>1. RevertScript(i) = <<<<"reset", r>>, <<"delroot", r>>>>
      BY <1>3, <2>3 DEF RevertScript, NetemRevert
    <3>2. c[1] \in {"reset", "delroot"} /\ c[2] = r
      BY <3>1
    <3>3. QED
      BY <3>2, <2>1, <2>3, <1>2, <1>3 DEF Fits
  <2>4. QED
    BY <2>2, <2>3
<1>4. CASE job[i].kind \in {"flap", "links"}
  <2>1. RevertScript(i) = [m \in 1..Len(on) |-> <<"up", on[m]>>]
    BY <1>4 DEF RevertScript, LinkRevert, Each
  <2>2. Len(RevertScript(i)) = Len(on)
    BY <2>1, <1>1
  <2>3. c = <<"up", on[n]>> /\ n \in 1..Len(on)
    BY <2>1, <2>2
  <2>4. on[n] \in On(i) /\ on[n] \in Link
    BY <2>3, <1>1, <1>4 DEF Site
  <2>5. QED
    BY <2>3, <2>4, <1>4 DEF Fits
<1>5. CASE job[i].kind = "drift"
  <2>1. RevertScript(i) = <<<<"detect", r>>, <<"detach", r>>, <<"clear", r>>>>
    BY <1>5 DEF RevertScript
  <2>2. c[1] \in {"detect", "detach", "clear"} /\ c[2] = r
    BY <2>1
  <2>3. r \in Vrf
    BY <1>2, <1>5 DEF Site
  <2>4. QED
    BY <2>2, <2>3, <1>2, <1>5 DEF Fits
<1>6. CASE job[i].kind = "cost"
  <2>1. RevertScript(i) = <<<<"restore", r>>>>
    BY <1>6 DEF RevertScript
  <2>2. c[1] = "restore" /\ c[2] = r
    BY <2>1
  <2>3. r \in Metric
    BY <1>2, <1>6 DEF Site
  <2>4. QED
    BY <2>2, <2>3, <1>2, <1>6 DEF Fits
<1>7. CASE job[i].kind = "kill"
  <2>1. RevertScript(i) = <<<<"pidof", r>>, <<"restart", r>>>>
    BY <1>7 DEF RevertScript
  <2>2. c[1] \in {"pidof", "restart"} /\ c[2] = r
    BY <2>1
  <2>3. r \in Daemon
    BY <1>2, <1>7 DEF Site
  <2>4. QED
    BY <2>2, <2>3, <1>2, <1>7 DEF Fits
<1>8. CASE job[i].kind = "clear"
  <2>1. RevertScript(i) = <<>>
    BY <1>8 DEF RevertScript
  <2>2. QED
    BY <2>1
<1>9. QED
  BY <1>1, <1>3, <1>4, <1>5, <1>6, <1>7, <1>8 DEF Kind

(* A revert() from its first command on restores each of its resources,    *)
(* but for a lost root.                                                    *)
LEMMA RevertRestores ==
  ASSUME TypeOK, Marked, BlindIsKnown, NEW i \in Injector, phase[i] # "new",
         job[i].kind # "clear", NEW r \in On(i), ~Lost(r)
  PROVE  \E n \in 1..Len(RevertScript(i)) : Restores(i, n, r)
<1> DEFINE on == job[i].on
<1>1. /\ job[i].kind \in Kind /\ Len(on) \in Nat /\ 1 <= Len(on)
      /\ r \in Site(job[i].kind)
      /\ \E m \in 1..Len(on) : r = on[m]
      /\ job[i].kind # "links" => r = on[1]
  BY JobShape
<1>2. CASE job[i].kind = "netem" /\ probed[i] = "htb"
  <2>1. RevertScript(i) = <<<<"unsplice", r>>, <<"releaf", r>>>>
    BY <1>1, <1>2 DEF RevertScript, NetemRevert
  <2>2. r \notin Explicit => 1 \in 1..Len(RevertScript(i)) /\ Restores(i, 1, r)
    BY <2>1 DEF Restores, Restoring
  <2>3. r \in Explicit => 2 \in 1..Len(RevertScript(i)) /\ Restores(i, 2, r)
    BY <2>1 DEF Restores, Restoring
  <2>4. QED
    BY <2>2, <2>3
<1>3. CASE job[i].kind = "netem" /\ probed[i] # "htb"
  <2>1. RevertScript(i) = <<<<"reset", r>>, <<"delroot", r>>>>
    BY <1>1, <1>3 DEF RevertScript, NetemRevert
  <2>2. probed[i] = "other"
    BY <1>3 DEF TypeOK
  <2>3. r \notin Uplink
    BY <2>2 DEF BlindIsKnown, Lost
  <2>4. r \in Core
    BY <1>1, <1>3, <2>3 DEF Site
  <2>5. 2 \in 1..Len(RevertScript(i)) /\ Restores(i, 2, r)
    BY <2>1, <2>4 DEF Restores, Restoring
  <2>6. QED
    BY <2>5
<1>4. CASE job[i].kind \in {"flap", "links"}
  <2>1. PICK m \in 1..Len(on) : r = on[m]
    BY <1>1
  <2>2. RevertScript(i) = [k \in 1..Len(on) |-> <<"up", on[k]>>]
    BY <1>4 DEF RevertScript, LinkRevert, Each
  <2>3. Len(RevertScript(i)) = Len(on)
    BY <2>2, <1>1
  <2>4. RevertScript(i)[m] = <<"up", r>>
    BY <2>1, <2>2
  <2>5. QED
    BY <2>1, <2>3, <2>4 DEF Restores, Restoring
<1>5. CASE job[i].kind = "drift"
  <2>1. RevertScript(i) = <<<<"detect", r>>, <<"detach", r>>, <<"clear", r>>>>
    BY <1>1, <1>5 DEF RevertScript
  <2>2. 2 \in 1..Len(RevertScript(i)) /\ Restores(i, 2, r)
    BY <2>1 DEF Restores, Restoring
  <2>3. QED
    BY <2>2
<1>6. CASE job[i].kind = "cost"
  <2>1. RevertScript(i) = <<<<"restore", r>>>>
    BY <1>1, <1>6 DEF RevertScript
  <2>2. 1 \in 1..Len(RevertScript(i)) /\ Restores(i, 1, r)
    BY <2>1 DEF Restores, Restoring
  <2>3. QED
    BY <2>2
<1>7. CASE job[i].kind = "kill"
  <2>1. RevertScript(i) = <<<<"pidof", r>>, <<"restart", r>>>>
    BY <1>1, <1>7 DEF RevertScript
  <2>2. 2 \in 1..Len(RevertScript(i)) /\ Restores(i, 2, r)
    BY <2>1 DEF Restores, Restoring
  <2>3. QED
    BY <2>2
<1>8. QED
  BY <1>1, <1>2, <1>3, <1>4, <1>5, <1>6, <1>7 DEF Kind

(* A command changes its resource, if any, and how.                        *)
LEMMA EffectValue ==
  ASSUME TypeOK, NEW verb, NEW r \in Resource
  PROVE  LET lab == Effect(verb, r)
             set(state) == lab = [dev EXCEPT ![r] = state]
             same == lab = dev
             htb == dev[r] \in Htb
         IN  /\ verb = "splice" => IF htb THEN set("htb_netem") ELSE same
             /\ verb = "unsplice" => IF htb THEN set("htb") ELSE same
             /\ verb = "releaf" =>
                  IF htb /\ r \in Explicit THEN set("htb_fq") ELSE same
             /\ verb = "netem" => IF htb THEN same ELSE set("bare_netem")
             /\ verb = "reset" => IF htb THEN same ELSE set("bare")
             /\ verb = "delroot" => set("bare")
             /\ verb = "down" => set("down")
             /\ verb = "up" => set("up")
             /\ verb = "attach" => set("drifted")
             /\ verb = "detach" => set("policy")
             /\ verb = "raise" => set("raised")
             /\ verb = "restore" => set("generated")
             /\ verb = "kill" => set("dead")
             /\ verb = "restart" => set("running")
             /\ verb \notin {"splice", "unsplice", "releaf", "netem", "reset",
                              "delroot", "down", "up", "attach", "detach",
                              "raise", "restore", "kill", "restart"} => same
  BY DEF Effect, Splice, Unsplice, Releaf, RootNetem, RootReset, DelRoot, Set

(* On a resource of its sort a command keeps the sorts; the HTB root goes   *)
(* with "delroot" only; a restoring command restores.                      *)
LEMMA EffectShape ==
  ASSUME TypeOK, Sorted, NEW verb, NEW r \in Resource, Fits(verb, r)
  PROVE  LET lab == Effect(verb, r)
         IN  /\ lab \in [Resource -> States]
             /\ \A q \in Resource : q # r => lab[q] = dev[q]
             /\ r \in Uplink => /\ lab[r] \in Htb \cup {"bare", "bare_netem"}
                                /\ lab[r] = "htb_fq" => r \in Explicit
             /\ r \in Core   => lab[r] \in {"bare", "bare_netem"}
             /\ r \in Link   => lab[r] \in {"up", "down"}
             /\ r \in Vrf    => lab[r] \in {"policy", "drifted"}
             /\ r \in Metric => lab[r] \in {"generated", "raised"}
             /\ r \in Daemon => lab[r] \in {"running", "dead"}
             /\ dev[r] \in Htb /\ verb # "delroot" /\ r \in Uplink => lab[r] \in Htb
             /\ verb = "clear" => lab = dev
<1> DEFINE lab == Effect(verb, r)
<1>1. /\ dev \in [Resource -> States] /\ dev[r] \in States
  BY DEF TypeOK
<1>2. lab = dev \/ \E v \in States : lab = [dev EXCEPT ![r] = v]
  BY EffectValue DEF States
<1>3. lab \in [Resource -> States] /\ \A q \in Resource : q # r => lab[q] = dev[q]
  BY <1>1, <1>2
<1>4. r \in Uplink => /\ lab[r] \in Htb \cup {"bare", "bare_netem"}
                      /\ lab[r] = "htb_fq" => r \in Explicit
                      /\ dev[r] \in Htb /\ verb # "delroot" => lab[r] \in Htb
  BY <1>1, EffectValue, SortsApart DEF Fits, Sorted, Htb
<1>5. r \in Core => lab[r] \in {"bare", "bare_netem"}
  BY <1>1, EffectValue, SortsApart DEF Fits, Sorted, Htb
<1>6. r \in Link => lab[r] \in {"up", "down"}
  BY <1>1, EffectValue, SortsApart DEF Fits, Sorted
<1>7. r \in Vrf => lab[r] \in {"policy", "drifted"}
  BY <1>1, EffectValue, SortsApart DEF Fits, Sorted
<1>8. r \in Metric => lab[r] \in {"generated", "raised"}
  BY <1>1, EffectValue, SortsApart DEF Fits, Sorted
<1>9. r \in Daemon => lab[r] \in {"running", "dead"}
  BY <1>1, EffectValue, SortsApart DEF Fits, Sorted
<1>10. verb = "clear" => lab = dev
  BY EffectValue
<1>11. QED
  BY <1>3, <1>4, <1>5, <1>6, <1>7, <1>8, <1>9, <1>10

(* Where the root stands, a restoring command restores, and any other one  *)
(* of revert() leaves its resource as it was, or at its baseline, or is    *)
(* the delete before the captured leaf is put back.                        *)
LEMMA EffectRestores ==
  ASSUME TypeOK, Sorted, NEW verb, NEW r \in Resource, Fits(verb, r),
         r \in Uplink => dev[r] \in Htb /\ verb # "delroot"
  PROVE  LET lab == Effect(verb, r)
         IN  /\ Restoring(verb, r) => lab[r] = Base(r)
             /\ \/ verb \in {"splice", "netem", "down", "attach", "raise", "kill"}
                \/ lab[r] \in {dev[r], Base(r)}
                \/ verb = "unsplice" /\ r \in Explicit
<1>1. dev \in [Resource -> States] /\ dev[r] \in States
  BY DEF TypeOK
<1>2. r \in Uplink \/ r \in Core \/ r \in Link \/ r \in Vrf \/ r \in Metric \/ r \in Daemon
  BY DEF Resource
<1>3. CASE verb \in {"splice", "netem", "down", "attach", "raise", "kill"}
  BY <1>3 DEF Restoring
<1>4. CASE verb = "unsplice"
  BY <1>1, <1>4, EffectValue, BaseOfSort DEF Fits, Restoring
<1>5. CASE verb = "releaf"
  BY <1>1, <1>5, EffectValue, BaseOfSort DEF Fits, Restoring
<1>6. CASE verb \in {"reset", "delroot"}
  <2>1. r \in Uplink => Effect(verb, r) = dev /\ ~Restoring(verb, r)
    BY <1>6, EffectValue, SortsApart DEF Restoring
  <2>2. r \in Core => Effect(verb, r)[r] = Base(r)
    BY <1>1, <1>6, EffectValue, BaseOfSort DEF Sorted, Htb
  <2>3. QED
    BY <1>6, <2>1, <2>2 DEF Fits
<1>7. CASE verb \in {"up", "detach", "restore", "restart"}
  BY <1>1, <1>7, EffectValue, BaseOfSort DEF Fits
<1>8. CASE verb \notin {"splice", "netem", "down", "attach", "raise", "kill",
                       "unsplice", "releaf", "reset", "delroot",
                       "up", "detach", "restore", "restart"}
  BY <1>8, EffectValue DEF Restoring
<1>9. QED
  BY <1>3, <1>4, <1>5, <1>6, <1>7, <1>8

-----------------------------------------------------------------------------
(* What no step takes back: that a root was lost to a blind injector, and  *)
(* that an injector which nothing happened to owes what it owed.           *)
LEMMA BlindStays ==
  ASSUME Marked, job' = job, failed \subseteq failed', NEW r,
         \A k \in Injector : phase[k] = "new" \/ probed'[k] = probed[k]
  PROVE  (BlindOn(r) => BlindOn(r)') /\ (Lost(r) => Lost(r)')
  BY DEF Marked, BlindOn, Lost, On

LEMMA KnownStays ==
  ASSUME Marked, BlindIsKnown, job' = job, probed' = probed,
         failed \subseteq failed',
         \A k \in Injector : phase'[k] # "new" => phase[k] # "new"
  PROVE  BlindIsKnown'
<1>1. \A r : BlindOn(r) => BlindOn(r)'
  BY BlindStays
<1>2. \A k \in Injector : On(k)' = On(k)
  BY DEF On
<1>3. QED
  BY <1>1, <1>2 DEF BlindIsKnown

LEMMA SameScript ==
  ASSUME job' = job, NEW k \in Injector, probed'[k] = probed[k]
  PROVE  /\ On(k)' = On(k)
         /\ RevertScript(k)' = RevertScript(k)
         /\ \A n, r : Restores(k, n, r)' = Restores(k, n, r)
<1>1. On(k)' = On(k)
  BY DEF On
<1>2. RevertScript(k)' = RevertScript(k)
  BY DEF RevertScript, NetemRevert, LinkRevert, Each
<1>3. QED
  BY <1>1, <1>2 DEF Restores, Restoring

LEMMA OwesStays ==
  ASSUME job' = job, failed \subseteq failed', NEW k \in Injector, NEW r, Owes(k, r),
         probed'[k] = probed[k],
         k \in failed' \/ (phase'[k] = phase[k] /\ step'[k] = step[k])
  PROVE  Owes(k, r)'
  BY SameScript DEF Owes

LEMMA StillOwed ==
  ASSUME Marked, Owed, job' = job, failed \subseteq failed', NEW i \in Injector,
         \A k \in Injector : phase[k] = "new" \/ probed'[k] = probed[k],
         \A k \in Injector \ {i} :
           /\ phase'[k] = phase[k] /\ step'[k] = step[k]
           /\ probed'[k] = probed[k],
         NEW r \in Resource, dev[r] # Base(r), ~Lost(r)',
         Owes(i, r) => Owes(i, r)'
  PROVE  \E k \in Injector : Owes(k, r)'
<1>1. ~Lost(r)
  BY BlindStays
<1>2. PICK k \in Injector : Owes(k, r)
  BY <1>1 DEF Owed
<1>3. CASE k = i
  BY <1>2, <1>3
<1>4. CASE k # i
  BY <1>2, <1>4, OwesStays
<1>5. QED
  BY <1>3, <1>4

LEMMA OnResource ==
  ASSUME TypeOK, NEW i \in Injector, NEW r \in On(i)
  PROVE  r \in Resource
<1>1. r \in Site(job[i].kind)
  BY JobShape
<1>2. QED
  BY <1>1 DEF Site, Resource

(* The next command of a running script.                                   *)
LEMMA CommandShape ==
  ASSUME IInv, NEW i \in Injector, Calling(i), step[i] <= Len(Script(i))
  PROVE  LET c == Command(i)
         IN  /\ c[2] \in On(i) /\ c[2] \in Resource /\ Fits(c[1], c[2])
             /\ c[1] \in {"netem", "reset", "delroot"} /\ c[2] \in Uplink
                  => BlindOn(c[2])
             /\ job[i].kind = "clear" => c[1] = "clear" /\ phase[i] = "applying"
             /\ phase[i] = "reverting" => /\ step[i] \in 1..Len(RevertScript(i))
                                          /\ c = RevertScript(i)[step[i]]
<1> USE DEF IInv
<1> DEFINE c == Command(i)
<1>1. phase[i] \in {"applying", "reverting"} /\ phase[i] # "new"
  BY DEF Calling
<1>2. step[i] \in Nat \ {0}
  BY DEF Marked
<1>3. probed[i] # "htb" => probed[i] = "other"
  BY DEF TypeOK
<1>4. /\ c[2] \in On(i) /\ Fits(c[1], c[2])
      /\ c[1] \in {"netem", "reset", "delroot"} => probed[i] # "htb"
      /\ job[i].kind = "clear" => c[1] = "clear" /\ phase[i] = "applying"
      /\ phase[i] = "reverting" => /\ step[i] \in 1..Len(RevertScript(i))
                                   /\ c = RevertScript(i)[step[i]]
  <2>1. CASE phase[i] = "applying"
    <3>1. Script(i) = ApplyScript(i)
      BY <2>1 DEF Script
    <3>2. step[i] \in 1..Len(ApplyScript(i))
      <4>1. Len(ApplyScript(i)) \in Nat
        BY JobShape DEF ApplyScript, Each, Kind
      <4>2. QED
        BY <3>1, <4>1, <1>2
    <3>3. QED
      BY <2>1, <3>1, <3>2, <1>1, ApplyCommand DEF Command
  <2>2. CASE phase[i] = "reverting"
    <3>1. Script(i) = RevertScript(i)
      BY <2>2 DEF Script
    <3>2. step[i] \in 1..Len(RevertScript(i))
      <4>1. Len(RevertScript(i)) \in Nat
        BY JobShape DEF RevertScript, NetemRevert, LinkRevert, Each, Kind
      <4>2. QED
        BY <3>1, <4>1, <1>2
    <3>3. QED
      BY <2>2, <3>1, <3>2, <1>1, RevertCommand DEF Command
  <2>3. QED
    BY <1>1, <2>1, <2>2
<1>5. c[2] \in Resource
  BY <1>4, OnResource
<1>6. c[1] \in {"netem", "reset", "delroot"} /\ c[2] \in Uplink => BlindOn(c[2])
  BY <1>1, <1>3, <1>4 DEF BlindIsKnown
<1> HIDE DEF c
<1>7. QED
  BY <1>4, <1>5, <1>6 DEF c

(* Whether it takes effect or not, the lab keeps its sorts, and a root that *)
(* goes is a blind injector's.                                             *)
LEMMA CommandKeepsLab ==
  ASSUME IInv, NEW i \in Injector, Calling(i), step[i] <= Len(Script(i)),
         dev' \in {dev, Effect(Command(i)[1], Command(i)[2])},
         job' = job, probed' = probed, failed \subseteq failed'
  PROVE  /\ dev' \in [Resource -> States]
         /\ \A r \in Resource : r # Command(i)[2] => dev'[r] = dev[r]
         /\ job[i].kind = "clear" => dev' = dev
         /\ Sorted' /\ QosLossIsBlind'
<1> USE DEF IInv
<1> DEFINE c == Command(i)
           lab == Effect(c[1], c[2])
<1>1. /\ c[2] \in On(i) /\ c[2] \in Resource /\ Fits(c[1], c[2])
      /\ c[1] \in {"netem", "reset", "delroot"} /\ c[2] \in Uplink => BlindOn(c[2])
      /\ job[i].kind = "clear" => c[1] = "clear"
  BY CommandShape
<1>2. dev' \in {dev, lab}
  OBVIOUS
<1>3. /\ lab \in [Resource -> States]
      /\ \A q \in Resource : q # c[2] => lab[q] = dev[q]
      /\ c[2] \in Uplink => /\ lab[c[2]] \in Htb \cup {"bare", "bare_netem"}
                            /\ lab[c[2]] = "htb_fq" => c[2] \in Explicit
      /\ c[2] \in Core   => lab[c[2]] \in {"bare", "bare_netem"}
      /\ c[2] \in Link   => lab[c[2]] \in {"up", "down"}
      /\ c[2] \in Vrf    => lab[c[2]] \in {"policy", "drifted"}
      /\ c[2] \in Metric => lab[c[2]] \in {"generated", "raised"}
      /\ c[2] \in Daemon => lab[c[2]] \in {"running", "dead"}
      /\ dev[c[2]] \in Htb /\ c[1] # "delroot" /\ c[2] \in Uplink
           => lab[c[2]] \in Htb
      /\ c[1] = "clear" => lab = dev
  BY <1>1, EffectShape
<1> HIDE DEF c, lab
<1>4. dev' \in [Resource -> States] /\ \A r \in Resource : r # c[2] => dev'[r] = dev[r]
  BY <1>2, <1>3 DEF TypeOK
<1>5. job[i].kind = "clear" => dev' = dev
  BY <1>1, <1>2, <1>3
<1>6. Sorted'
  BY <1>2, <1>3 DEF Sorted
<1>7. QosLossIsBlind'
  <2>1. \A r : BlindOn(r) => BlindOn(r)'
    BY BlindStays
  <2>2. ASSUME NEW r \in Uplink, dev'[r] \notin Htb PROVE BlindOn(r)
    <3>1. dev[r] \notin Htb => BlindOn(r)
      BY <2>2 DEF QosLossIsBlind, BlindOn
    <3>2. CASE dev[r] \in Htb
      <4>1. r = c[2]
        BY <1>4, <2>2, <3>2 DEF Resource
      <4>2. c[1] = "delroot"
        BY <1>2, <1>3, <2>2, <3>2, <4>1
      <4>3. QED
        BY <1>1, <4>1, <4>2
    <3>3. QED
      BY <3>1, <3>2
  <2>3. QED
    BY <2>1, <2>2 DEF QosLossIsBlind, BlindOn
<1>8. QED
  BY <1>4, <1>5, <1>6, <1>7 DEF c

LEMMA SameLab ==
  ASSUME IInv, dev' = dev, job' = job, failed \subseteq failed',
         \A k \in Injector : phase[k] = "new" \/ probed'[k] = probed[k]
  PROVE  Sorted' /\ QosLossIsBlind'
<1>1. \A r : BlindOn(r) => BlindOn(r)'
  BY BlindStays DEF IInv
<1>2. QosLossIsBlind'
  BY <1>1 DEF IInv, QosLossIsBlind, BlindOn
<1>3. Sorted'
  BY DEF IInv, Sorted
<1>4. QED
  BY <1>2, <1>3

-----------------------------------------------------------------------------
(* The steps of an injector's life.                                        *)

LEMMA InitInv == Init => IInv
<1> SUFFICES ASSUME Init PROVE IInv
  OBVIOUS
<1>1. dev = [r \in Resource |-> Base(r)]
  BY DEF Init, Baseline
<1>2. \A r \in Resource : Base(r) \in States /\ dev[r] = Base(r)
  BY <1>1 DEF Base, States
<1>3. TypeOK
  BY <1>1, <1>2 DEF Init, TypeOK, Phase
<1>4. Sorted
  BY <1>2, BaseOfSort DEF Sorted, Htb, Resource
<1>5. Marked
  BY DEF Init, Marked, Calling
<1>6. QosLossIsBlind
  BY <1>2, BaseOfSort DEF QosLossIsBlind, Htb, Resource
<1>7. BlindIsKnown
  BY <1>3 DEF Init, BlindIsKnown, TypeOK
<1>8. Owed
  BY <1>2 DEF Owed
<1>9. QED
  BY <1>3, <1>4, <1>5, <1>6, <1>7, <1>8 DEF IInv

(* The probe sees an HTB root, or there is none and the root was lost      *)
(* before, or the probe is refused and this injector is blind.             *)
LEMMA BuildInv ==
  ASSUME IInv, NEW i \in Injector, Build(i)
  PROVE  IInv'
<1>1. /\ phase[i] = "new" /\ i \notin failed /\ probed[i] = "other"
      /\ phase' = [phase EXCEPT ![i] = "built"]
      /\ dev' = dev /\ job' = job /\ step' = step /\ before' = before
  BY DEF IInv, Marked, Build
<1> DEFINE r1 == job[i].on[1]
           Seen == /\ probed' = [probed EXCEPT
                        ![i] = IF job[i].kind = "netem" /\ dev[r1] \in Htb
                               THEN "htb" ELSE "other"]
                   /\ failed' = failed
           Unseen == /\ job[i].kind = "netem" /\ failed' = failed \cup {i}
                     /\ probed' = probed
<1>2. Seen \/ Unseen
  BY DEF Build
<1>3. TypeOK'
  BY <1>1, <1>2 DEF IInv, TypeOK, Phase
<1>4. /\ failed \subseteq failed'
      /\ \A k \in Injector \ {i} :
           /\ phase'[k] = phase[k] /\ step'[k] = step[k]
           /\ probed'[k] = probed[k] /\ (k \in failed' <=> k \in failed)
      /\ phase'[i] = "built" /\ step'[i] = step[i] /\ probed'[i] \in {"htb", "other"}
  BY <1>1, <1>2 DEF IInv, TypeOK
<1>5. \A k \in Injector : phase[k] = "new" \/ probed'[k] = probed[k]
  BY <1>1, <1>4
<1>6. Sorted' /\ QosLossIsBlind'
  BY <1>1, <1>4, <1>5, SameLab
<1>7. probed'[i] = "htb" => job[i].kind = "netem" /\ r1 \in Uplink
  <2>1. probed'[i] = "htb" => job[i].kind = "netem" /\ dev[r1] \in Htb
    BY <1>1, <1>2 DEF IInv, TypeOK
  <2>2. r1 \in On(i) /\ r1 \in Site(job[i].kind) /\ r1 \in Resource
    BY JobShape, OnResource DEF IInv
  <2>3. QED
    BY <2>1, <2>2 DEF Site, IInv, Sorted, Htb
<1>8. Marked'
  <2> SUFFICES ASSUME NEW k \in Injector
               PROVE  /\ phase'[k] = "new" => k \notin failed' /\ probed'[k] = "other"
                      /\ phase'[k] \in {"raised", "stuck"} => k \in failed'
                      /\ probed'[k] = "htb" =>
                           job'[k].kind = "netem" /\ job'[k].on[1] \in Uplink
                      /\ Calling(k)' => step'[k] \in Nat \ {0}
    BY DEF Marked
  <2>1. CASE k = i
    BY <1>1, <1>4, <1>7, <2>1 DEF Calling
  <2>2. CASE k # i
    BY <1>1, <1>4, <2>2 DEF IInv, Marked, Calling
  <2>3. QED
    BY <2>1, <2>2
<1>9. BlindIsKnown'
  <2>1. \A r : BlindOn(r) => BlindOn(r)'
    BY <1>1, <1>4, <1>5, BlindStays DEF IInv
  <2>2. \A k \in Injector : On(k)' = On(k)
    BY <1>1 DEF On
  <2>3. ASSUME NEW r \in On(i), r \in Uplink, probed'[i] = "other"
        PROVE  BlindOn(r)'
    <3>1. job[i].kind = "netem" /\ r = r1
      BY <2>3, UplinkIsNetem DEF IInv
    <3>2. CASE Seen
      <4>1. dev[r] \notin Htb
        BY <1>1, <2>3, <3>1, <3>2 DEF IInv, TypeOK
      <4>2. BlindOn(r)
        BY <4>1, <2>3 DEF IInv, QosLossIsBlind, BlindOn
      <4>3. QED
        BY <2>1, <4>2
    <3>3. CASE Unseen
      <4>1. i \in failed' /\ probed'[i] = "other" /\ r \in On(i)'
        BY <2>2, <2>3, <3>3
      <4>2. QED
        BY <4>1 DEF BlindOn
    <3>4. QED
      BY <1>2, <3>2, <3>3
  <2>4. ASSUME NEW k \in Injector \ {i}, NEW r \in On(k), r \in Uplink,
               phase'[k] # "new", probed'[k] = "other"
        PROVE  BlindOn(r)'
    BY <1>4, <2>1, <2>4 DEF IInv, BlindIsKnown
  <2>5. QED
    BY <2>2, <2>3, <2>4 DEF BlindIsKnown
<1>10. Owed'
  <2>1. ASSUME NEW r \in Resource, dev'[r] # Base(r), ~Lost(r)'
        PROVE  \E k \in Injector : Owes(k, r)'
    <3>1. ~Owes(i, r)
      BY <1>1 DEF Owes
    <3>2. QED
      BY <1>1, <1>4, <1>5, <2>1, <3>1, StillOwed DEF IInv
  <2>2. QED
    BY <2>1 DEF Owed, Base
<1>11. QED
  BY <1>3, <1>6, <1>8, <1>9, <1>10 DEF IInv

(* A call begins with its first command; revert() owes all it will work on. *)
LEMMA BeginInv ==
  ASSUME IInv, NEW i \in Injector, StartApply(i) \/ StartRevert(i)
  PROVE  IInv'
<1>1. /\ dev' = dev /\ job' = job /\ probed' = probed /\ failed' = failed
      /\ step' = [step EXCEPT ![i] = 1]
      /\ before' = [before EXCEPT ![i] = Impaired(dev) \cap On(i)]
      /\ \/ phase[i] = "built" /\ phase' = [phase EXCEPT ![i] = "applying"]
         \/ /\ phase[i] \in {"applied", "raised", "reverted"}
            /\ phase' = [phase EXCEPT ![i] = "reverting"]
  BY DEF StartApply, StartRevert, Begin
<1>2. TypeOK'
  <2>1. Impaired(dev) \cap On(i) \in SUBSET Resource
    BY DEF IInv, TypeOK, Impaired
  <2>2. before' \in [Injector -> SUBSET Resource] /\ step' \in [Injector -> Nat]
    BY <1>1, <2>1 DEF IInv, TypeOK
  <2>3. phase' \in [Injector -> Phase]
    BY <1>1 DEF IInv, TypeOK, Phase
  <2>4. QED
    BY <1>1, <2>2, <2>3 DEF IInv, TypeOK
<1>3. /\ \A k \in Injector \ {i} : phase'[k] = phase[k] /\ step'[k] = step[k]
      /\ phase'[i] \in {"applying", "reverting"} /\ step'[i] = 1
      /\ phase[i] # "new"
  BY <1>1 DEF IInv, TypeOK
<1>4. Sorted' /\ QosLossIsBlind'
  BY <1>1, SameLab
<1>5. BlindIsKnown'
  BY <1>1, <1>3, KnownStays DEF IInv
<1>6. Marked'
  BY <1>1, <1>3 DEF IInv, Marked, Calling
<1>7. ASSUME NEW r \in Resource, ~Lost(r)', Owes(i, r) PROVE Owes(i, r)'
  <2>1. CASE phase'[i] = "applying" \/ i \in failed
    BY <1>1, <1>7, <2>1, SameScript DEF Owes
  <2>2. CASE phase'[i] = "reverting" /\ i \notin failed
    <3>1. phase[i] = "applied" /\ r \in On(i) /\ job[i].kind # "clear"
      BY <1>1, <1>3, <1>7, <2>2 DEF Owes, IInv, Marked, TypeOK
    <3>2. ~Lost(r)
      BY <1>1, <1>7, BlindStays DEF IInv
    <3>3. PICK n \in 1..Len(RevertScript(i)) : Restores(i, n, r)
      BY <3>1, <3>2, RevertRestores DEF IInv
    <3>4. /\ On(i)' = On(i) /\ RevertScript(i)' = RevertScript(i)
          /\ Restores(i, n, r)'
      BY <1>1, <3>3, SameScript
    <3>5. step'[i] <= n
      BY <1>3, <3>3
    <3>6. QED
      BY <1>1, <2>2, <3>1, <3>3, <3>4, <3>5 DEF Owes
  <2>3. QED
    BY <1>3, <2>1, <2>2
<1>8. Owed'
  <2>1. ASSUME NEW r \in Resource, dev'[r] # Base(r), ~Lost(r)'
        PROVE  \E k \in Injector : Owes(k, r)'
    BY <1>1, <1>3, <1>7, <2>1, StillOwed DEF IInv
  <2>2. QED
    BY <2>1 DEF Owed, Base
<1>9. QED
  BY <1>2, <1>4, <1>5, <1>6, <1>8 DEF IInv

(* A command that takes effect: in apply() the injector owes whatever it   *)
(* did; in revert() the command restores, or changes nothing, or a later   *)
(* one restores.                                                           *)
LEMMA WorkInv ==
  ASSUME IInv, NEW i \in Injector, Work(i)
  PROVE  IInv'
<1> DEFINE c == Command(i)
<1>1. /\ Calling(i) /\ step[i] <= Len(Script(i))
      /\ dev' = Effect(c[1], c[2])
      /\ step' = [step EXCEPT ![i] = step[i] + 1]
      /\ job' = job /\ phase' = phase /\ probed' = probed /\ before' = before
      /\ failed' = failed
  BY DEF Work
<1>2. /\ dev' \in [Resource -> States]
      /\ \A r \in Resource : r # c[2] => dev'[r] = dev[r]
      /\ job[i].kind = "clear" => dev' = dev
      /\ Sorted' /\ QosLossIsBlind'
  BY <1>1, CommandKeepsLab
<1>3. /\ c[2] \in On(i) /\ c[2] \in Resource /\ Fits(c[1], c[2])
      /\ c[1] \in {"netem", "reset", "delroot"} /\ c[2] \in Uplink => BlindOn(c[2])
      /\ phase[i] = "reverting" => /\ step[i] \in 1..Len(RevertScript(i))
                                   /\ c = RevertScript(i)[step[i]]
  BY <1>1, CommandShape
<1> HIDE DEF c
<1>4. TypeOK'
  BY <1>1, <1>2 DEF IInv, TypeOK
<1>5. /\ step[i] \in Nat \ {0} /\ step'[i] = step[i] + 1
      /\ \A k \in Injector \ {i} : step'[k] = step[k]
      /\ phase[i] \in {"applying", "reverting"}
  BY <1>1 DEF IInv, TypeOK, Marked, Calling
<1>6. BlindIsKnown'
  BY <1>1, KnownStays DEF IInv
<1>7. Marked'
  BY <1>1, <1>5 DEF IInv, Marked, Calling
<1>8. ASSUME NEW r \in Resource, dev'[r] # Base(r), ~Lost(r)'
      PROVE  \E k \in Injector : Owes(k, r)'
  <2>1. ~Lost(r)
    BY <1>1, <1>8, BlindStays DEF IInv
  <2>2. r \in Uplink => dev[r] \in Htb
    BY <2>1 DEF IInv, QosLossIsBlind, Lost, BlindOn
  <2>3. CASE phase[i] = "applying"
    <3>1. Owes(i, r) => Owes(i, r)'
      BY <1>1, <2>3, SameScript DEF Owes
    <3>2. CASE dev[r] # Base(r)
      BY <1>1, <1>5, <1>8, <3>1, <3>2, StillOwed DEF IInv
    <3>3. CASE dev[r] = Base(r)
      <4>1. r \in On(i) /\ job[i].kind # "clear"
        BY <1>2, <1>3, <1>8, <3>3
      <4>2. Owes(i, r)'
        BY <1>1, <2>3, <4>1, SameScript DEF Owes
      <4>3. QED
        BY <4>2
    <3>4. QED
      BY <3>2, <3>3
  <2>4. CASE phase[i] = "reverting"
    <3>1. /\ step[i] \in 1..Len(RevertScript(i)) /\ c = RevertScript(i)[step[i]]
          /\ phase[i] # "new"
      BY <1>3, <2>4
    <3>2. /\ job[i].kind # "clear"
          /\ c[1] \notin {"splice", "netem", "down", "attach", "raise", "kill"}
          /\ c[1] = "unsplice" => /\ step[i] = 1 /\ 2 \in 1..Len(RevertScript(i))
                                  /\ RevertScript(i)[2] = <<"releaf", c[2]>>
      BY <3>1, RevertCommand DEF IInv
    <3>3. r = c[2] => /\ Restoring(c[1], r) => dev'[r] = Base(r)
                      /\ \/ dev'[r] \in {dev[r], Base(r)}
                         \/ c[1] = "unsplice" /\ r \in Explicit
      <4>1. r = c[2] /\ r \in Uplink => c[1] # "delroot"
        BY <1>3, <2>1 DEF Lost
      <4>2. QED
        BY <1>1, <1>3, <2>2, <3>2, <4>1, EffectRestores DEF IInv
    <3>4. Len(RevertScript(i)) \in Nat
      BY JobShape DEF RevertScript, NetemRevert, LinkRevert, Each, Kind, IInv
    <3>5. CASE dev'[r] = dev[r]
      <4>1. ASSUME Owes(i, r) PROVE Owes(i, r)'
        <5>1. CASE i \in failed
          BY <1>1, <4>1, <5>1, SameScript DEF Owes
        <5>2. CASE i \notin failed
          <6>1. PICK n \in 1..Len(RevertScript(i)) : step[i] <= n /\ Restores(i, n, r)
            BY <4>1, <5>2, <2>4 DEF Owes
          <6>2. n # step[i]
            BY <1>8, <3>1, <3>3, <6>1 DEF Restores
          <6>3. step'[i] <= n
            BY <1>5, <3>4, <6>1, <6>2
          <6>4. QED
            BY <1>1, <2>4, <4>1, <6>1, <6>3, SameScript DEF Owes
        <5>3. QED
          BY <5>1, <5>2
      <4>2. QED
        BY <1>1, <1>5, <1>8, <3>5, <4>1, StillOwed DEF IInv
    <3>6. CASE dev'[r] # dev[r]
      <4>1. r = c[2] /\ r \in On(i) /\ c[1] = "unsplice" /\ r \in Explicit
        BY <1>2, <1>3, <1>8, <3>3, <3>6
      <4>2. /\ 2 \in 1..Len(RevertScript(i)) /\ step'[i] = 2
            /\ RevertScript(i)[2] = <<"releaf", r>>
        BY <1>5, <3>2, <4>1
      <4>3. Restores(i, 2, r)
        BY <4>1, <4>2 DEF Restores, Restoring
      <4>4. Owes(i, r)'
        <5>1. /\ On(i)' = On(i) /\ RevertScript(i)' = RevertScript(i)
              /\ Restores(i, 2, r)'
          BY <1>1, <4>3, SameScript
        <5>2. phase'[i] = "reverting" /\ job'[i].kind # "clear" /\ step'[i] <= 2
          BY <1>1, <2>4, <3>2, <4>2
        <5>3. QED
          BY <4>1, <4>2, <5>1, <5>2 DEF Owes
      <4>5. QED
        BY <4>4
    <3>7. QED
      BY <3>5, <3>6
  <2>5. QED
    BY <1>5, <2>3, <2>4
<1>9. Owed'
  BY <1>8 DEF Owed, Base
<1>10. QED
  BY <1>2, <1>4, <1>6, <1>7, <1>9 DEF IInv

(* An injector with a refused command is failed: nothing more is promised  *)
(* of its resources than that.                                             *)
LEMMA RefuseInv ==
  ASSUME IInv, NEW i \in Injector, Refuse(i)
  PROVE  IInv'
<1>1. /\ Calling(i) /\ failed' = failed \cup {i}
      /\ dev' = dev /\ job' = job /\ probed' = probed /\ before' = before
      /\ \/ /\ phase' = [phase EXCEPT ![i] = IF phase[i] = "applying"
                                            THEN "raised" ELSE "reverted"]
            /\ step' = step
         \/ phase' = [phase EXCEPT ![i] = "applied"] /\ step' = step
         \/ step' = [step EXCEPT ![i] = step[i] + 1] /\ phase' = phase
  BY DEF Refuse
<1>2. TypeOK'
  BY <1>1 DEF IInv, TypeOK, Phase
<1>3. /\ \A k \in Injector \ {i} : phase'[k] = phase[k] /\ step'[k] = step[k]
      /\ phase'[i] # "new" /\ phase[i] # "new" /\ i \in failed'
      /\ Calling(i)' => step'[i] \in Nat \ {0}
  BY <1>1 DEF IInv, TypeOK, Marked, Calling
<1>4. Sorted' /\ QosLossIsBlind'
  BY <1>1, SameLab
<1>5. BlindIsKnown'
  BY <1>1, <1>3, KnownStays DEF IInv
<1>6. Marked'
  BY <1>1, <1>3 DEF IInv, Marked, Calling
<1>7. Owed'
  <2>1. ASSUME NEW r \in Resource, dev'[r] # Base(r), ~Lost(r)'
        PROVE  \E k \in Injector : Owes(k, r)'
    <3>1. Owes(i, r) => Owes(i, r)'
      BY <1>1, <1>3, OwesStays
    <3>2. QED
      BY <1>1, <1>3, <2>1, <3>1, StillOwed DEF IInv
  <2>2. QED
    BY <2>1 DEF Owed, Base
<1>8. QED
  BY <1>2, <1>4, <1>5, <1>6, <1>7 DEF IInv

(* One that timed out may have changed its resource, and is failed too.    *)
LEMMA TimeOutInv ==
  ASSUME IInv, NEW i \in Injector, TimeOut(i)
  PROVE  IInv'
<1> DEFINE c == Command(i)
<1>1. /\ Calling(i) /\ step[i] <= Len(Script(i)) /\ failed' = failed \cup {i}
      /\ dev' \in {dev, Effect(c[1], c[2])}
      /\ job' = job /\ step' = step /\ probed' = probed /\ before' = before
      /\ phase' = [phase EXCEPT ![i] = IF phase[i] = "applying"
                                       THEN "raised" ELSE "stuck"]
  BY DEF TimeOut
<1>2. /\ dev' \in [Resource -> States]
      /\ \A r \in Resource : r # c[2] => dev'[r] = dev[r]
      /\ job[i].kind = "clear" => dev' = dev
      /\ Sorted' /\ QosLossIsBlind'
  BY <1>1, CommandKeepsLab
<1>3. c[2] \in On(i)
  BY <1>1, CommandShape
<1> HIDE DEF c
<1>4. TypeOK'
  BY <1>1, <1>2 DEF IInv, TypeOK, Phase
<1>5. /\ \A k \in Injector \ {i} : phase'[k] = phase[k]
      /\ phase'[i] \in {"raised", "stuck"} /\ phase[i] # "new" /\ i \in failed'
  BY <1>1 DEF IInv, TypeOK, Calling
<1>6. BlindIsKnown'
  BY <1>1, <1>5, KnownStays DEF IInv
<1>7. Marked'
  BY <1>1, <1>5 DEF IInv, Marked, Calling
<1>8. Owed'
  <2>1. ASSUME NEW r \in Resource, dev'[r] # Base(r), ~Lost(r)'
        PROVE  \E k \in Injector : Owes(k, r)'
    <3>1. CASE dev'[r] = dev[r]
      <4>1. Owes(i, r) => Owes(i, r)'
        BY <1>1, <1>5, OwesStays
      <4>2. QED
        BY <1>1, <1>5, <2>1, <3>1, <4>1, StillOwed DEF IInv
    <3>2. CASE dev'[r] # dev[r]
      <4>1. r \in On(i) /\ job[i].kind # "clear"
        BY <1>2, <1>3, <3>2
      <4>2. Owes(i, r)'
        BY <1>1, <1>5, <4>1, SameScript DEF Owes
      <4>3. QED
        BY <4>2
    <3>3. QED
      BY <3>1, <3>2
  <2>2. QED
    BY <2>1 DEF Owed, Base
<1>9. QED
  BY <1>2, <1>4, <1>6, <1>7, <1>8 DEF IInv

(* A call returns after its last command, when revert() owes nothing more. *)
LEMMA ReturnInv ==
  ASSUME IInv, NEW i \in Injector, Return(i)
  PROVE  IInv'
<1>1. /\ Calling(i) /\ step[i] > Len(Script(i))
      /\ dev' = dev /\ job' = job /\ step' = step /\ probed' = probed
      /\ before' = before /\ failed' = failed
      /\ phase' = [phase EXCEPT ![i] = IF phase[i] = "applying"
                                       THEN "applied" ELSE "reverted"]
  BY DEF Return
<1>2. TypeOK'
  BY <1>1 DEF IInv, TypeOK, Phase
<1>3. /\ \A k \in Injector \ {i} : phase'[k] = phase[k]
      /\ phase[i] \in {"applying", "reverting"} /\ phase[i] # "new"
      /\ phase'[i] = IF phase[i] = "applying" THEN "applied" ELSE "reverted"
  BY <1>1 DEF IInv, TypeOK, Calling
<1>4. Sorted' /\ QosLossIsBlind'
  BY <1>1, SameLab
<1>5. BlindIsKnown'
  BY <1>1, <1>3, KnownStays DEF IInv
<1>6. Marked'
  BY <1>1, <1>3 DEF IInv, Marked, Calling
<1>7. ASSUME NEW r \in Resource, Owes(i, r) PROVE Owes(i, r)'
  <2>1. CASE i \in failed \/ phase[i] = "applying"
    BY <1>1, <1>3, <1>7, <2>1, SameScript DEF Owes
  <2>2. CASE i \notin failed /\ phase[i] = "reverting"
    <3>1. PICK n \in 1..Len(RevertScript(i)) : step[i] <= n
      BY <1>7, <2>2 DEF Owes
    <3>2. step[i] \in Nat /\ Len(RevertScript(i)) \in Nat
      BY JobShape DEF RevertScript, NetemRevert, LinkRevert, Each, Kind, IInv, TypeOK
    <3>3. step[i] > Len(RevertScript(i))
      BY <1>1, <2>2 DEF Script
    <3>4. QED
      BY <3>1, <3>2, <3>3
  <2>3. QED
    BY <1>3, <2>1, <2>2
<1>8. Owed'
  <2>1. ASSUME NEW r \in Resource, dev'[r] # Base(r), ~Lost(r)'
        PROVE  \E k \in Injector : Owes(k, r)'
    BY <1>1, <1>3, <1>7, <2>1, StillOwed DEF IInv
  <2>2. QED
    BY <2>1 DEF Owed, Base
<1>9. QED
  BY <1>2, <1>4, <1>5, <1>6, <1>8 DEF IInv

LEMMA RespawnInv ==
  ASSUME IInv, NEW d \in Daemon, Respawn(d)
  PROVE  IInv'
<1>1. /\ dev' = [dev EXCEPT ![d] = "running"] /\ d \in Resource
      /\ job' = job /\ phase' = phase /\ step' = step /\ probed' = probed
      /\ before' = before /\ failed' = failed
  BY DEF Respawn, Set, Resource
<1>2. TypeOK'
  BY <1>1 DEF IInv, TypeOK, States
<1>3. /\ \A r \in Resource : r # d => dev'[r] = dev[r]
      /\ dev'[d] = "running" /\ Base(d) = "running" /\ d \notin Uplink
  BY <1>1, BaseOfSort, SortsApart DEF IInv, TypeOK
<1>4. Sorted'
  BY <1>3, SortsApart DEF IInv, Sorted
<1>5. QosLossIsBlind'
  <2>1. \A r \in Uplink : dev'[r] = dev[r]
    BY <1>3 DEF Resource
  <2>2. \A r : BlindOn(r) => BlindOn(r)'
    BY <1>1, BlindStays DEF IInv
  <2>3. QED
    BY <2>1, <2>2 DEF IInv, QosLossIsBlind, BlindOn
<1>6. BlindIsKnown'
  BY <1>1, KnownStays DEF IInv
<1>7. Marked'
  BY <1>1 DEF IInv, Marked, Calling
<1>8. Owed'
  <2>1. ASSUME NEW r \in Resource, dev'[r] # Base(r), ~Lost(r)'
        PROVE  \E k \in Injector : Owes(k, r)'
    <3>1. dev[r] # Base(r) /\ ~Lost(r)
      BY <1>1, <1>3, <2>1, BlindStays DEF IInv
    <3>2. PICK k \in Injector : Owes(k, r)
      BY <3>1 DEF IInv, Owed
    <3>3. Owes(k, r)'
      BY <1>1, <3>2, OwesStays
    <3>4. QED
      BY <3>3
  <2>2. QED
    BY <2>1 DEF Owed, Base
<1>9. QED
  BY <1>2, <1>4, <1>5, <1>6, <1>7, <1>8 DEF IInv

-----------------------------------------------------------------------------
LEMMA NextInv == IInv /\ [Next]_vars => IInv'
<1> SUFFICES ASSUME IInv, [Next]_vars PROVE IInv'
  OBVIOUS
<1>1. ASSUME NEW i \in Injector, Build(i) PROVE IInv'
  BY <1>1, BuildInv
<1>2. ASSUME NEW i \in Injector, StartApply(i) \/ StartRevert(i) PROVE IInv'
  BY <1>2, BeginInv
<1>3. ASSUME NEW i \in Injector, Work(i) PROVE IInv'
  BY <1>3, WorkInv
<1>4. ASSUME NEW i \in Injector, Refuse(i) PROVE IInv'
  BY <1>4, RefuseInv
<1>5. ASSUME NEW i \in Injector, TimeOut(i) PROVE IInv'
  BY <1>5, TimeOutInv
<1>6. ASSUME NEW i \in Injector, Return(i) PROVE IInv'
  BY <1>6, ReturnInv
<1>7. ASSUME NEW d \in Daemon, Respawn(d) PROVE IInv'
  BY <1>7, RespawnInv
<1>8. CASE UNCHANGED vars
  <2>1. /\ dev' = dev /\ job' = job /\ phase' = phase /\ step' = step
        /\ probed' = probed /\ before' = before /\ failed' = failed
    BY <1>8 DEF vars
  <2>2. TypeOK' /\ Marked'
    BY <2>1 DEF IInv, TypeOK, Marked, Calling
  <2>3. Sorted' /\ QosLossIsBlind'
    BY <2>1, SameLab
  <2>4. BlindIsKnown'
    BY <2>1, KnownStays DEF IInv
  <2>5. \A k \in Injector : \A r : Owes(k, r) => Owes(k, r)'
    BY <2>1, OwesStays
  <2>6. \A r : Lost(r) => Lost(r)'
    BY <2>1, BlindStays DEF IInv
  <2>7. Owed'
    BY <2>1, <2>5, <2>6 DEF IInv, Owed, Base
  <2>8. QED
    BY <2>2, <2>3, <2>4, <2>7 DEF IInv
<1>9. QED
  BY <1>1, <1>2, <1>3, <1>4, <1>5, <1>6, <1>7, <1>8 DEF Next, Life

(* The inductive invariant: what is not at its baseline is owed by an      *)
(* injector that will restore it, or that has failed.                      *)
THEOREM Invariance == Spec => []IInv
<1>1. QED
  BY InitInv, NextInv, PTL DEF Spec

(* The state of every resource and injector is one the code can be in.     *)
THEOREM TypeCorrect == Spec => []TypeOK
<1>1. IInv => TypeOK
  BY DEF IInv
<1>2. QED
  BY <1>1, Invariance, PTL

(* "Everything is recoverable" (injectors.py): for any jobs on any shared   *)
(* resources and any interleaving of their commands, a resource is at its  *)
(* baseline when the injectors on it are reverted and none has failed, and *)
(* the QoS root of an uplink is lost to a blind injector only.             *)
THEOREM ImpairmentsUndone == Spec => []ImpairmentsAreUndone
<1>1. ASSUME IInv PROVE Restored
  <2> SUFFICES ASSUME NEW r \in Resource,
                      \A i \in Injector : r \in On(i) => Idle(i) /\ i \notin failed
               PROVE  dev[r] = Base(r)
    BY DEF Restored
  <2>1. ~Lost(r)
    BY DEF Lost, BlindOn
  <2>2. \A i \in Injector : ~Owes(i, r)
    BY DEF Owes, Idle
  <2>3. QED
    BY <1>1, <2>1, <2>2 DEF IInv, Owed
<1>2. IInv => ImpairmentsAreUndone
  BY <1>1 DEF IInv, ImpairmentsAreUndone
<1>3. QED
  BY <1>2, Invariance, PTL

-----------------------------------------------------------------------------
(* Calls on resources nobody else works on.                                *)

(* The commands that put a resource in its faulty state, and those that    *)
(* take it out of it.                                                      *)
Impairing == {"splice", "netem", "down", "attach", "raise"}
Healing == {"unsplice", "reset", "up", "detach", "restore"}

Faulted == {"htb_netem", "bare_netem", "down", "drifted", "raised", "dead"}

(* The resources of the injector that are impaired now.                    *)
ImpairedOn(i) == Impaired(dev) \cap On(i)

(* What a call under way has done: apply() has impaired more, revert()     *)
(* less, and a command that took effect shows.                             *)
CallSoFar(i) ==
  /\ before[i] \subseteq On(i)
  /\ job[i].kind = "clear" => ImpairedOn(i) = before[i]
  /\ phase[i] = "applying" /\ job[i].kind # "flap" => before[i] \subseteq ImpairedOn(i)
  /\ phase[i] = "reverting" => ImpairedOn(i) \subseteq before[i]

AppliedSoFar(i, n) ==
  LET c == ApplyScript(i)[n]
  IN  IF job[i].kind = "flap" THEN n = 4 => ImpairedOn(i) = {}
      ELSE c[1] \in Impairing => c[2] \in ImpairedOn(i)

RevertedSoFar(i, n) ==
  LET c == RevertScript(i)[n] IN c[1] \in Healing => c[2] \notin ImpairedOn(i)

ShownSoFar(i) ==
  i \notin failed =>
    /\ phase[i] = "applying" =>
         \A n \in 1..Len(ApplyScript(i)) : n < step[i] => AppliedSoFar(i, n)
    /\ phase[i] = "reverting" =>
         \A n \in 1..Len(RevertScript(i)) : n < step[i] => RevertedSoFar(i, n)

CallsSoFar ==
  \A i \in Injector :
    Alone(i) /\ job[i].kind # "kill" /\ Calling(i) => CallSoFar(i) /\ ShownSoFar(i)

LEMMA ApplyVerbs ==
  ASSUME TypeOK, NEW i \in Injector, job[i].kind # "kill"
  PROVE  /\ \A n \in 1..Len(ApplyScript(i)) :
              LET c == ApplyScript(i)[n]
              IN  /\ job[i].kind # "flap" => c[1] \in Impairing \cup {"detect", "clear"}
                  /\ c[1] # "pidof"
         /\ job[i].kind = "flap" => /\ Len(ApplyScript(i)) = 4
                                    /\ ApplyScript(i)[4] = <<"up", job[i].on[1]>>
         /\ job[i].kind \notin {"flap", "clear"} => \A r \in On(i) :
              \E n \in 1..Len(ApplyScript(i)) :
                ApplyScript(i)[n][1] \in Impairing /\ ApplyScript(i)[n][2] = r
<1> DEFINE on == job[i].on
           r1 == on[1]
<1>1. /\ job[i].kind \in Kind /\ Len(on) \in Nat
      /\ \A r \in On(i) : \E n \in 1..Len(on) : r = on[n]
      /\ job[i].kind # "links" => \A r \in On(i) : r = r1
  BY JobShape
<1>3. CASE job[i].kind = "netem"
  <2>1. PICK v \in {"splice", "netem"} : ApplyScript(i) = <<<<v, r1>>, <<v, r1>>>>
    BY <1>3 DEF ApplyScript
  <2> QED
    BY <2>1, <1>1, <1>3 DEF Impairing
<1>4. CASE job[i].kind = "flap"
  <2>1. ApplyScript(i) = <<<<"down", r1>>, <<"up", r1>>, <<"down", r1>>, <<"up", r1>>>>
    BY <1>4 DEF ApplyScript
  <2> QED
    BY <2>1, <1>4
<1>5. CASE job[i].kind = "links"
  <2>1. ApplyScript(i) = [n \in 1..Len(on) |-> <<"down", on[n]>>]
    BY <1>5 DEF ApplyScript, Each
  <2>2. Len(ApplyScript(i)) = Len(on)
    BY <2>1, <1>1
  <2>3. \A n \in 1..Len(on) : ApplyScript(i)[n][1] = "down" /\ ApplyScript(i)[n][2] = on[n]
    BY <2>1
  <2> HIDE DEF on
  <2> QED
    BY <2>2, <2>3, <1>1, <1>5 DEF Impairing
<1>6. CASE job[i].kind = "drift"
  <2>1. ApplyScript(i) = <<<<"detect", r1>>, <<"attach", r1>>, <<"clear", r1>>>>
    BY <1>6 DEF ApplyScript
  <2>2. 2 \in 1..Len(ApplyScript(i)) /\ ApplyScript(i)[2] = <<"attach", r1>>
    BY <2>1
  <2>3. ApplyScript(i)[2][1] \in Impairing /\ ApplyScript(i)[2][2] = r1
    BY <2>2 DEF Impairing
  <2>4. \A n \in 1..Len(ApplyScript(i)) : ApplyScript(i)[n][1] \in {"detect", "attach", "clear"}
    BY <2>1
  <2> QED
    BY <2>2, <2>3, <2>4, <1>1, <1>6 DEF Impairing
<1>7. CASE job[i].kind = "cost"
  <2>1. ApplyScript(i) = <<<<"raise", r1>>>>
    BY <1>7 DEF ApplyScript
  <2>2. 1 \in 1..Len(ApplyScript(i)) /\ ApplyScript(i)[1] = <<"raise", r1>>
    BY <2>1
  <2> QED
    BY <2>1, <2>2, <1>1, <1>7 DEF Impairing
<1>8. CASE job[i].kind = "clear"
  <2>1. ApplyScript(i) = <<<<"clear", r1>>>>
    BY <1>8 DEF ApplyScript
  <2> QED
    BY <2>1, <1>8
<1> QED
  BY <1>1, <1>3, <1>4, <1>5, <1>6, <1>7, <1>8 DEF Kind

LEMMA RevertVerbs ==
  ASSUME TypeOK, NEW i \in Injector, job[i].kind # "kill"
  PROVE  /\ \A n \in 1..Len(RevertScript(i)) :
              RevertScript(i)[n][1]
                \in Healing \cup {"releaf", "delroot", "detect", "clear"}
         /\ job[i].kind # "clear" => \A r \in On(i) :
              \E n \in 1..Len(RevertScript(i)) :
                RevertScript(i)[n][1] \in Healing /\ RevertScript(i)[n][2] = r
         /\ job[i].kind = "clear" => RevertScript(i) = <<>>
<1> DEFINE on == job[i].on
           r1 == on[1]
<1>1. /\ job[i].kind \in Kind /\ Len(on) \in Nat /\ 1 <= Len(on)
      /\ \A r \in On(i) : \E n \in 1..Len(on) : r = on[n]
      /\ job[i].kind # "links" => \A r \in On(i) : r = r1
  BY JobShape
<1>3. CASE job[i].kind = "netem"
  <2>1. \/ RevertScript(i) = <<<<"unsplice", r1>>, <<"releaf", r1>>>>
        \/ RevertScript(i) = <<<<"reset", r1>>, <<"delroot", r1>>>>
    BY <1>3 DEF RevertScript, NetemRevert
  <2>2. 1 \in 1..Len(RevertScript(i)) /\ RevertScript(i)[1][2] = r1
        /\ RevertScript(i)[1][1] \in Healing
    BY <2>1 DEF Healing
  <2>3. \A n \in 1..Len(RevertScript(i)) :
          RevertScript(i)[n][1] \in Healing \cup {"releaf", "delroot"}
    BY <2>1 DEF Healing
  <2> QED
    BY <2>2, <2>3, <1>1, <1>3
<1>4. CASE job[i].kind \in {"flap", "links"}
  <2>1. RevertScript(i) = [n \in 1..Len(on) |-> <<"up", on[n]>>]
    BY <1>4 DEF RevertScript, LinkRevert, Each
  <2>2. Len(RevertScript(i)) = Len(on)
    BY <2>1, <1>1
  <2>3. \A n \in 1..Len(on) : RevertScript(i)[n][1] = "up" /\ RevertScript(i)[n][2] = on[n]
    BY <2>1
  <2> HIDE DEF on
  <2> QED
    BY <2>2, <2>3, <1>1, <1>4 DEF Healing
<1>6. CASE job[i].kind = "drift"
  <2>1. RevertScript(i) = <<<<"detect", r1>>, <<"detach", r1>>, <<"clear", r1>>>>
    BY <1>6 DEF RevertScript
  <2>2. 2 \in 1..Len(RevertScript(i)) /\ RevertScript(i)[2] = <<"detach", r1>>
    BY <2>1
  <2>3. RevertScript(i)[2][1] \in Healing /\ RevertScript(i)[2][2] = r1
    BY <2>2 DEF Healing
  <2>4. \A n \in 1..Len(RevertScript(i)) : RevertScript(i)[n][1] \in {"detect", "detach", "clear"}
    BY <2>1
  <2> QED
    BY <2>2, <2>3, <2>4, <1>1, <1>6 DEF Healing
<1>7. CASE job[i].kind = "cost"
  <2>1. RevertScript(i) = <<<<"restore", r1>>>>
    BY <1>7 DEF RevertScript
  <2>2. 1 \in 1..Len(RevertScript(i)) /\ RevertScript(i)[1] = <<"restore", r1>>
    BY <2>1
  <2> QED
    BY <2>1, <2>2, <1>1, <1>7 DEF Healing
<1>8. CASE job[i].kind = "clear"
  <2>1. RevertScript(i) = <<>>
    BY <1>8 DEF RevertScript
  <2> QED
    BY <2>1, <1>8
<1> QED
  BY <1>1, <1>3, <1>4, <1>6, <1>7, <1>8 DEF Kind

LEMMA ImpairedOnIs ==
  ASSUME TypeOK, NEW i \in Injector, NEW r \in On(i)
  PROVE  r \in ImpairedOn(i) <=> dev[r] \in Faulted
<1>1. r \in Resource /\ DOMAIN dev = Resource
  BY OnResource DEF TypeOK
<1> QED
  BY <1>1 DEF ImpairedOn, Impaired, Faulted

LEMMA SameImpaired ==
  ASSUME TypeOK, TypeOK', job' = job, NEW i \in Injector,
         \A r \in On(i) : dev'[r] = dev[r]
  PROVE  On(i)' = On(i) /\ ImpairedOn(i)' = ImpairedOn(i)
<1>1. On(i)' = On(i)
  BY DEF On
<1>2. \A r \in On(i) : r \in Resource
  BY OnResource
<1>3. DOMAIN dev = Resource /\ DOMAIN dev' = Resource
  BY DEF TypeOK
<1> QED
  BY <1>1, <1>2, <1>3 DEF ImpairedOn, Impaired

LEMMA AloneShape ==
  ASSUME IInv, NEW i \in Injector, Alone(i), job[i].kind # "kill"
  PROVE  /\ \A k \in Injector : k # i => On(k) \cap On(i) = {}
         /\ \A r \in On(i) : BlindOn(r) => i \in failed
         /\ \A r \in On(i) \cap Uplink : dev[r] \notin Htb => i \in failed
         /\ job[i].kind = "clear" => \A r \in On(i) : dev[r] # "dead"
<1> USE DEF IInv
<1>1. \A k \in Injector : k # i => On(k) \cap On(i) = {}
  BY DEF Alone
<1>2. ASSUME NEW r \in On(i), BlindOn(r) PROVE i \in failed
  BY <1>1, <1>2 DEF BlindOn
<1>3. ASSUME NEW r \in On(i) \cap Uplink, dev[r] \notin Htb PROVE i \in failed
  BY <1>2, <1>3 DEF QosLossIsBlind, BlindOn
<1>4. ASSUME job[i].kind = "clear", NEW r \in On(i) PROVE dev[r] # "dead"
  <2>1. r \in Daemon /\ r \in Resource
    BY <1>4, JobShape, OnResource DEF Site
  <2>2. Base(r) = "running" /\ r \notin Uplink
    BY <2>1, BaseOfSort, SortsApart
  <2>3. ~Lost(r)
    BY <2>2 DEF Lost
  <2>4. \A k \in Injector : ~Owes(k, r)
    BY <1>1, <1>4 DEF Owes
  <2> QED
    BY <2>1, <2>2, <2>3, <2>4 DEF Owed
<1> QED
  BY <1>1, <1>2, <1>3, <1>4

(* What a command of a call does to the resource it is on.                 *)
LEMMA EffectFaults ==
  ASSUME TypeOK, NEW verb, NEW r \in Resource, NEW lab, lab = Effect(verb, r)
  PROVE  /\ verb \in Impairing \cup {"detect", "clear"} /\ dev[r] \in Faulted
              => lab[r] \in Faulted
         /\ verb \in Healing \cup {"releaf", "delroot", "detect", "clear"}
            /\ lab[r] \in Faulted => dev[r] \in Faulted
         /\ verb \in {"down", "attach", "raise"} => lab[r] \in Faulted
         /\ verb = "splice" /\ dev[r] \in Htb => lab[r] \in Faulted
         /\ verb = "netem" /\ dev[r] \notin Htb => lab[r] \in Faulted
         /\ verb \in {"up", "detach", "restore"} => lab[r] \notin Faulted
         /\ verb = "unsplice" /\ dev[r] \in Htb => lab[r] \notin Faulted
         /\ verb = "reset" /\ dev[r] \notin Htb => lab[r] \notin Faulted
<1>1. dev \in [Resource -> States]
  BY DEF TypeOK
<1>2. \A state : [dev EXCEPT ![r] = state][r] = state
  BY <1>1
<1>3. PICK was : was = dev[r]
  OBVIOUS
<1>4. \/ lab = dev
      \/ lab = [dev EXCEPT ![r] = lab[r]]
  BY <1>2, EffectValue
<1>5. PICK now : now = lab[r]
  OBVIOUS
<1>6. LET htb == was \in Htb
      IN  /\ verb = "splice" => now = IF htb THEN "htb_netem" ELSE was
          /\ verb = "unsplice" => now = IF htb THEN "htb" ELSE was
          /\ verb = "releaf" => now \in {"htb_fq", was}
          /\ verb = "netem" => now = IF htb THEN was ELSE "bare_netem"
          /\ verb = "reset" => now = IF htb THEN was ELSE "bare"
          /\ verb = "delroot" => now = "bare"
          /\ verb = "down" => now = "down"
          /\ verb = "up" => now = "up"
          /\ verb = "attach" => now = "drifted"
          /\ verb = "detach" => now = "policy"
          /\ verb = "raise" => now = "raised"
          /\ verb = "restore" => now = "generated"
          /\ verb \in {"detect", "clear"} => now = was
  BY <1>2, <1>3, <1>5, EffectValue
<1> QED
  BY <1>3, <1>5, <1>6 DEF Impairing, Healing, Faulted, Htb

(* The next command of a call on resources of its own.                     *)
LEMMA NextVerb ==
  ASSUME IInv, NEW i \in Injector, job[i].kind # "kill",
         Calling(i), step[i] <= Len(Script(i))
  PROVE  LET c == Command(i)
         IN  /\ c[1] # "pidof" /\ step[i] \in Nat
             /\ phase[i] = "applying" =>
                  /\ step[i] \in 1..Len(ApplyScript(i)) /\ c = ApplyScript(i)[step[i]]
                  /\ job[i].kind # "flap" => c[1] \in Impairing \cup {"detect", "clear"}
             /\ phase[i] = "reverting" =>
                  /\ step[i] \in 1..Len(RevertScript(i)) /\ c = RevertScript(i)[step[i]]
                  /\ c[1] \in Healing \cup {"releaf", "delroot", "detect", "clear"}
<1> USE DEF IInv
<1>1. phase[i] \in {"applying", "reverting"} /\ step[i] \in Nat \ {0}
  BY DEF Calling, Marked
<1>2. CASE phase[i] = "applying"
  <2>1. Script(i) = ApplyScript(i)
    BY <1>2 DEF Script
  <2>2. Len(ApplyScript(i)) \in Nat
    BY JobShape DEF ApplyScript, Each, Kind
  <2>3. step[i] \in 1..Len(ApplyScript(i)) /\ Command(i) = ApplyScript(i)[step[i]]
    BY <2>1, <2>2, <1>1 DEF Command
  <2> QED
    BY <2>3, <1>1, <1>2, ApplyVerbs
<1>3. CASE phase[i] = "reverting"
  <2>1. step[i] \in 1..Len(RevertScript(i)) /\ Command(i) = RevertScript(i)[step[i]]
    BY <1>3, CommandShape
  <2>2. "pidof" \notin Healing \cup {"releaf", "delroot", "detect", "clear"}
    BY DEF Healing
  <2> QED
    BY <2>1, <2>2, <1>1, <1>3, RevertVerbs
<1> QED
  BY <1>1, <1>2, <1>3

(* A command of apply() mends nothing, one of revert() harms nothing,      *)
(* whether it takes effect or not; one that does shows.                    *)
LEMMA CommandShows ==
  ASSUME IInv, TypeOK', NEW i \in Injector, Alone(i), job[i].kind # "kill",
         Calling(i), step[i] <= Len(Script(i)),
         dev' \in {dev, Effect(Command(i)[1], Command(i)[2])},
         job' = job, probed' = probed, failed \subseteq failed',
         NEW n, n = step[i]
  PROVE  LET c == Command(i)
         IN  /\ job[i].kind = "clear" => ImpairedOn(i)' = ImpairedOn(i)
             /\ phase[i] = "applying" /\ job[i].kind # "flap"
                  => ImpairedOn(i) \subseteq ImpairedOn(i)'
             /\ phase[i] = "reverting" => ImpairedOn(i)' \subseteq ImpairedOn(i)
             /\ dev' = Effect(c[1], c[2]) /\ i \notin failed =>
                  /\ phase[i] = "applying" => AppliedSoFar(i, n)'
                  /\ phase[i] = "reverting" => RevertedSoFar(i, n)'
<1> USE DEF IInv
<1> DEFINE c == Command(i)
<1>1. /\ c[2] \in On(i) /\ c[2] \in Resource /\ Fits(c[1], c[2])
      /\ c[1] \in {"netem", "reset", "delroot"} /\ c[2] \in Uplink => BlindOn(c[2])
  BY CommandShape
<1>2. /\ c[1] # "pidof" /\ step[i] \in Nat
      /\ phase[i] = "applying" =>
           /\ step[i] \in 1..Len(ApplyScript(i)) /\ c = ApplyScript(i)[step[i]]
           /\ job[i].kind # "flap" => c[1] \in Impairing \cup {"detect", "clear"}
      /\ phase[i] = "reverting" =>
           /\ step[i] \in 1..Len(RevertScript(i)) /\ c = RevertScript(i)[step[i]]
           /\ c[1] \in Healing \cup {"releaf", "delroot", "detect", "clear"}
  BY NextVerb
<1>3. /\ \A r \in Resource : r # c[2] => dev'[r] = dev[r]
      /\ job[i].kind = "clear" => dev' = dev
  BY CommandKeepsLab
<1>4. /\ On(i)' = On(i)
      /\ ApplyScript(i)' = ApplyScript(i) /\ RevertScript(i)' = RevertScript(i)
  BY SameScript DEF On, ApplyScript, Each
<1>5. PICK lab : lab = Effect(c[1], c[2])
  OBVIOUS
<1>6. dev' = dev \/ dev' = lab
  BY <1>5
<1>7. /\ \A r \in On(i) : r \in ImpairedOn(i) <=> dev[r] \in Faulted
      /\ \A r \in On(i) : r \in ImpairedOn(i)' <=> dev'[r] \in Faulted
      /\ ImpairedOn(i) \subseteq On(i) /\ ImpairedOn(i)' \subseteq On(i)
  <2>1. \A r \in On(i) : r \in ImpairedOn(i) <=> dev[r] \in Faulted
    BY ImpairedOnIs
  <2>2. \A r \in On(i) : r \in Resource
    BY OnResource
  <2>3. DOMAIN dev' = Resource
    BY DEF TypeOK
  <2>4. \A r \in On(i) : r \in ImpairedOn(i)' <=> dev'[r] \in Faulted
    BY <2>2, <2>3, <1>4 DEF ImpairedOn, Impaired, Faulted
  <2> QED
    BY <2>1, <2>4, <1>4 DEF ImpairedOn
<1>8. \A r \in On(i) : r \in Resource
  BY OnResource
<1>9. /\ c[1] \in Impairing \cup {"detect", "clear"} /\ dev[c[2]] \in Faulted
           => lab[c[2]] \in Faulted
      /\ c[1] \in Healing \cup {"releaf", "delroot", "detect", "clear"}
         /\ lab[c[2]] \in Faulted => dev[c[2]] \in Faulted
      /\ c[1] \in {"down", "attach", "raise"} => lab[c[2]] \in Faulted
      /\ c[1] = "splice" /\ dev[c[2]] \in Htb => lab[c[2]] \in Faulted
      /\ c[1] = "netem" /\ dev[c[2]] \notin Htb => lab[c[2]] \in Faulted
      /\ c[1] \in {"up", "detach", "restore"} => lab[c[2]] \notin Faulted
      /\ c[1] = "unsplice" /\ dev[c[2]] \in Htb => lab[c[2]] \notin Faulted
      /\ c[1] = "reset" /\ dev[c[2]] \notin Htb => lab[c[2]] \notin Faulted
  BY <1>1, <1>5, EffectFaults
<1>10. PICK verb, q : verb = c[1] /\ q = c[2]
  OBVIOUS
<1>11. i \notin failed =>
         /\ q \in Uplink => dev[q] \in Htb /\ verb \notin {"netem", "reset", "delroot"}
         /\ q \in Core => dev[q] \notin Htb
  <2>1. ASSUME i \notin failed, q \in Uplink
        PROVE  dev[q] \in Htb /\ verb \notin {"netem", "reset", "delroot"}
    BY <2>1, <1>1, <1>10, AloneShape
  <2>2. ASSUME q \in Core PROVE dev[q] \notin Htb
    BY <2>2, <1>1, <1>10 DEF Sorted, Htb
  <2> QED
    BY <2>1, <2>2
<1>12. ASSUME i \notin failed
       PROVE  /\ verb \in Impairing => lab[q] \in Faulted
              /\ verb \in Healing => lab[q] \notin Faulted
  <2>1. verb \in {"splice", "unsplice"} => dev[q] \in Htb
    BY <1>1, <1>10, <1>11, <1>12 DEF Fits
  <2>2. verb \in {"netem", "reset"} => dev[q] \notin Htb
    BY <1>1, <1>10, <1>11, <1>12 DEF Fits
  <2> QED
    BY <2>1, <2>2, <1>9, <1>10 DEF Impairing, Healing
<1>13. job[i].kind = "clear" => ImpairedOn(i)' = ImpairedOn(i)
  BY <1>3, <1>4 DEF ImpairedOn, Impaired
<1>14. ASSUME phase[i] = "applying", job[i].kind # "flap", NEW r \in ImpairedOn(i)
       PROVE  r \in ImpairedOn(i)'
  <2>1. r \in On(i) /\ r \in Resource /\ dev[r] \in Faulted
    BY <1>7, <1>8, <1>14
  <2>2. dev'[r] \in Faulted
    BY <2>1, <1>2, <1>3, <1>6, <1>9, <1>14
  <2> QED
    BY <2>1, <2>2, <1>7
<1>15. ASSUME phase[i] = "reverting", NEW r \in ImpairedOn(i)'
       PROVE  r \in ImpairedOn(i)
  <2>1. r \in On(i) /\ r \in Resource /\ dev'[r] \in Faulted
    BY <1>7, <1>8, <1>15
  <2>2. dev[r] \in Faulted
    BY <2>1, <1>2, <1>3, <1>6, <1>9, <1>15
  <2> QED
    BY <2>1, <2>2, <1>7
<1>16. ASSUME dev' = lab, i \notin failed, phase[i] = "applying"
       PROVE  AppliedSoFar(i, n)'
  <2>1. CASE job[i].kind = "flap"
    <3>1. step[i] = 4 => verb = "up" /\ q = job[i].on[1]
      BY <2>1, <1>2, <1>10, <1>16, ApplyVerbs
    <3>2. \A r \in On(i) : r = job[i].on[1]
      BY <2>1, JobShape
    <3>3. step[i] = 4 => lab[q] \notin Faulted
      BY <3>1, <1>9, <1>10
    <3>4. step[i] = 4 => ImpairedOn(i)' = {}
      BY <3>1, <3>2, <3>3, <1>7, <1>16
    <3> QED
      BY <2>1, <3>4 DEF AppliedSoFar
  <2>2. CASE job[i].kind # "flap"
    <3>1. verb \in Impairing => q \in ImpairedOn(i)'
      BY <1>1, <1>7, <1>10, <1>12, <1>16
    <3>2. c = ApplyScript(i)[step[i]]
      BY <1>2, <1>16
    <3> HIDE DEF c
    <3> QED
      BY <2>2, <3>1, <3>2, <1>4, <1>10 DEF AppliedSoFar
  <2> QED
    BY <2>1, <2>2
<1>17. ASSUME dev' = lab, i \notin failed, phase[i] = "reverting"
       PROVE  RevertedSoFar(i, n)'
  <2>1. verb \in Healing => q \notin ImpairedOn(i)'
    BY <1>1, <1>7, <1>10, <1>12, <1>17
  <2>2. c = RevertScript(i)[step[i]]
    BY <1>2, <1>17
  <2> HIDE DEF c
  <2> QED
    BY <2>1, <2>2, <1>4, <1>10 DEF RevertedSoFar
<1> QED
  BY <1>5, <1>13, <1>14, <1>15, <1>16, <1>17

-----------------------------------------------------------------------------
(* No step breaks what a call has done so far.                             *)

LEMMA SameCall ==
  ASSUME job' = job, NEW i \in Injector, probed'[i] = probed[i]
  PROVE  /\ On(i)' = On(i) /\ (Alone(i)' <=> Alone(i))
         /\ ApplyScript(i)' = ApplyScript(i) /\ RevertScript(i)' = RevertScript(i)
<1>1. \A k : On(k)' = On(k)
  BY DEF On
<1> QED
  BY <1>1, SameScript DEF Alone, ApplyScript, Each

LEMMA CallUndisturbed ==
  ASSUME TypeOK, TypeOK', NEW i \in Injector, job' = job, probed'[i] = probed[i],
         \A r \in On(i) : dev'[r] = dev[r],
         phase'[i] = phase[i], step'[i] = step[i], before'[i] = before[i],
         failed \subseteq failed', CallSoFar(i), ShownSoFar(i)
  PROVE  CallSoFar(i)' /\ ShownSoFar(i)'
<1>1. /\ On(i)' = On(i)
      /\ ApplyScript(i)' = ApplyScript(i) /\ RevertScript(i)' = RevertScript(i)
  BY SameCall
<1>2. ImpairedOn(i)' = ImpairedOn(i)
  BY SameImpaired
<1>3. CallSoFar(i)'
  BY <1>1, <1>2 DEF CallSoFar
<1>4. \A n : /\ AppliedSoFar(i, n)' <=> AppliedSoFar(i, n)
             /\ RevertedSoFar(i, n)' <=> RevertedSoFar(i, n)
  BY <1>1, <1>2 DEF AppliedSoFar, RevertedSoFar
<1>5. ShownSoFar(i)'
  BY <1>1, <1>4 DEF ShownSoFar
<1> QED
  BY <1>3, <1>5

(* Another injector's step reaches none of what i works on.                *)
LEMMA OtherLife ==
  ASSUME IInv, NEW i \in Injector, Alone(i), NEW k \in Injector, k # i, Life(k)
  PROVE  /\ job' = job /\ probed'[i] = probed[i] /\ phase'[i] = phase[i]
         /\ step'[i] = step[i] /\ before'[i] = before[i] /\ failed \subseteq failed'
         /\ \A r \in On(i) : dev'[r] = dev[r]
<1> USE DEF IInv
<1>1. /\ phase \in [Injector -> Phase] /\ step \in [Injector -> Nat]
      /\ probed \in [Injector -> {"htb", "other"}]
      /\ before \in [Injector -> SUBSET Resource]
  BY DEF TypeOK
<1>2. CASE Build(k)
  BY <1>1, <1>2 DEF Build
<1>3. CASE StartApply(k) \/ StartRevert(k)
  BY <1>1, <1>3 DEF StartApply, StartRevert, Begin
<1>4. /\ \A r \in On(i) : r \in Resource
      /\ \A r \in On(i) : r \notin On(k)
  BY OnResource DEF Alone
<1>5. ASSUME Calling(k), step[k] <= Len(Script(k)),
             dev' \in {dev, Effect(Command(k)[1], Command(k)[2])},
             job' = job, probed' = probed, failed \subseteq failed'
      PROVE  \A r \in On(i) : dev'[r] = dev[r]
  <2>1. Command(k)[2] \in On(k)
    BY <1>5, CommandShape
  <2>2. \A r \in Resource : r # Command(k)[2] => dev'[r] = dev[r]
    BY <1>5, CommandKeepsLab
  <2> QED
    BY <2>1, <2>2, <1>4
<1>6. CASE Work(k)
  <2>1. /\ Calling(k) /\ step[k] <= Len(Script(k))
        /\ dev' = Effect(Command(k)[1], Command(k)[2])
        /\ step' = [step EXCEPT ![k] = step[k] + 1]
        /\ job' = job /\ phase' = phase /\ probed' = probed /\ before' = before
        /\ failed' = failed
    BY <1>6 DEF Work
  <2> QED
    BY <2>1, <1>1, <1>5
<1>7. CASE Refuse(k)
  BY <1>1, <1>7 DEF Refuse
<1>8. CASE TimeOut(k)
  <2>1. /\ Calling(k) /\ step[k] <= Len(Script(k))
        /\ dev' \in {dev, Effect(Command(k)[1], Command(k)[2])}
        /\ job' = job /\ step' = step /\ probed' = probed /\ before' = before
        /\ failed \subseteq failed'
        /\ phase'[i] = phase[i]
    BY <1>1, <1>8 DEF TimeOut
  <2> QED
    BY <2>1, <1>5
<1>9. CASE Return(k)
  BY <1>1, <1>9 DEF Return
<1> QED
  BY <1>2, <1>3, <1>6, <1>7, <1>8, <1>9 DEF Life

(* A daemon that comes back by itself is not one a reset call is on.       *)
LEMMA RespawnApart ==
  ASSUME IInv, NEW i \in Injector, Alone(i), job[i].kind # "kill",
         NEW d \in Daemon, Respawn(d)
  PROVE  /\ job' = job /\ probed'[i] = probed[i] /\ phase'[i] = phase[i]
         /\ step'[i] = step[i] /\ before'[i] = before[i] /\ failed \subseteq failed'
         /\ \A r \in On(i) : dev'[r] = dev[r]
<1> USE DEF IInv
<1>1. /\ job' = job /\ phase' = phase /\ step' = step /\ probed' = probed
      /\ before' = before /\ failed' = failed
      /\ dev[d] = "dead" /\ dev' = [dev EXCEPT ![d] = "running"]
  BY DEF Respawn, Set
<1>2. dev \in [Resource -> States] /\ \A r \in On(i) : r \in Resource
  BY OnResource DEF TypeOK
<1>3. d \notin On(i)
  <2>1. ASSUME d \in On(i) PROVE FALSE
    <3>1. d \in Site(job[i].kind) /\ job[i].kind \in Kind
      BY <2>1, JobShape
    <3>2. job[i].kind = "clear"
      BY <3>1, SortsApart DEF Site, Kind
    <3> QED
      BY <2>1, <3>2, <1>1, AloneShape
  <2> QED
    BY <2>1
<1> QED
  BY <1>1, <1>2, <1>3

LEMMA CallBegins ==
  ASSUME IInv, TypeOK', NEW i \in Injector, StartApply(i) \/ StartRevert(i)
  PROVE  CallSoFar(i)' /\ ShownSoFar(i)'
<1> USE DEF IInv
<1>1. /\ phase[i] # "new" /\ dev' = dev /\ job' = job /\ probed' = probed
      /\ step'[i] = 1 /\ before'[i] = ImpairedOn(i)
  BY DEF StartApply, StartRevert, Begin, ImpairedOn, TypeOK
<1>2. On(i)' = On(i) /\ ImpairedOn(i)' = ImpairedOn(i)
  BY <1>1, SameImpaired
<1>3. CallSoFar(i)'
  BY <1>1, <1>2 DEF CallSoFar, ImpairedOn
<1>4. ShownSoFar(i)'
  BY <1>1 DEF ShownSoFar
<1> QED
  BY <1>3, <1>4

LEMMA CallWorks ==
  ASSUME IInv, TypeOK', NEW i \in Injector, Alone(i), job[i].kind # "kill", Work(i),
         CallSoFar(i), ShownSoFar(i)
  PROVE  CallSoFar(i)' /\ ShownSoFar(i)'
<1> USE DEF IInv
<1>1. /\ Calling(i) /\ step[i] <= Len(Script(i))
      /\ dev' = Effect(Command(i)[1], Command(i)[2])
      /\ job' = job /\ phase' = phase /\ probed' = probed /\ before' = before
      /\ failed' = failed /\ step[i] \in Nat /\ step'[i] = step[i] + 1
  BY DEF Work, TypeOK
<1>2. PICK n : n = step[i]
  OBVIOUS
<1>3. /\ job[i].kind = "clear" => ImpairedOn(i)' = ImpairedOn(i)
      /\ phase[i] = "applying" /\ job[i].kind # "flap"
           => ImpairedOn(i) \subseteq ImpairedOn(i)'
      /\ phase[i] = "reverting" => ImpairedOn(i)' \subseteq ImpairedOn(i)
      /\ i \notin failed =>
           /\ phase[i] = "applying" => AppliedSoFar(i, n)'
           /\ phase[i] = "reverting" => RevertedSoFar(i, n)'
  BY <1>1, <1>2, CommandShows
<1>4. /\ On(i)' = On(i)
      /\ ApplyScript(i)' = ApplyScript(i) /\ RevertScript(i)' = RevertScript(i)
  BY <1>1, SameCall
<1>5. CallSoFar(i)'
  BY <1>1, <1>3, <1>4 DEF CallSoFar
<1>6. ASSUME i \notin failed, phase[i] = "applying",
             NEW m \in 1..Len(ApplyScript(i)), m < step[i] + 1
      PROVE  AppliedSoFar(i, m)'
  <2>1. CASE m = n
    BY <2>1, <1>3, <1>6
  <2>2. CASE m # n
    <3>1. m < step[i]
      BY <2>2, <1>1, <1>2, <1>6
    <3>2. AppliedSoFar(i, m)
      BY <3>1, <1>6 DEF ShownSoFar
    <3>3. m # 4 \/ job[i].kind # "flap"
      <4>1. step[i] <= Len(ApplyScript(i))
        BY <1>1, <1>6 DEF Script
      <4>2. job[i].kind = "flap" => Len(ApplyScript(i)) = 4
        BY ApplyVerbs
      <4>3. step[i] \in Nat /\ (m = 4 => 4 < step[i])
        BY <3>1, <1>1
      <4>4. ASSUME m = 4, job[i].kind = "flap" PROVE FALSE
        <5>1. step[i] <= 4 /\ 4 < step[i]
          BY <4>1, <4>2, <4>3, <4>4
        <5> QED
          BY <5>1, <4>3
      <4> QED
        BY <4>4
    <3> QED
      BY <3>2, <3>3, <1>1, <1>3, <1>4, <1>6 DEF AppliedSoFar
  <2> QED
    BY <2>1, <2>2
<1>7. ASSUME i \notin failed, phase[i] = "reverting",
             NEW m \in 1..Len(RevertScript(i)), m < step[i] + 1
      PROVE  RevertedSoFar(i, m)'
  <2>1. CASE m = n
    BY <2>1, <1>3, <1>7
  <2>2. CASE m # n
    <3>1. m < step[i]
      BY <2>2, <1>1, <1>2, <1>7
    <3>2. RevertedSoFar(i, m)
      BY <3>1, <1>7 DEF ShownSoFar
    <3> QED
      BY <3>2, <1>1, <1>3, <1>4, <1>7 DEF RevertedSoFar
  <2> QED
    BY <2>1, <2>2
<1>8. ShownSoFar(i)'
  BY <1>1, <1>4, <1>6, <1>7 DEF ShownSoFar
<1> QED
  BY <1>5, <1>8

LEMMA CallsInit == Init => CallsSoFar
  BY DEF Init, CallsSoFar, Calling

LEMMA CallsNext == IInv /\ CallsSoFar /\ [Next]_vars => CallsSoFar'
<1> SUFFICES ASSUME IInv, CallsSoFar, [Next]_vars PROVE CallsSoFar'
  OBVIOUS
<1>1. TypeOK /\ TypeOK'
  BY NextInv DEF IInv
<1>2. job' = job
  BY DEF Next, Life, Build, StartApply, StartRevert, Begin, Work, Refuse, TimeOut,
         Return, Respawn, vars
<1>3. SUFFICES ASSUME NEW i \in Injector, Alone(i)', job'[i].kind # "kill", Calling(i)'
               PROVE  CallSoFar(i)' /\ ShownSoFar(i)'
  BY DEF CallsSoFar
<1>4. Alone(i) /\ job[i].kind # "kill"
  BY <1>2, <1>3 DEF Alone, On
<1>5. ASSUME job' = job, probed'[i] = probed[i], phase'[i] = phase[i],
             step'[i] = step[i], before'[i] = before[i], failed \subseteq failed',
             \A r \in On(i) : dev'[r] = dev[r]
      PROVE  CallSoFar(i)' /\ ShownSoFar(i)'
  <2>1. Calling(i)
    BY <1>3, <1>5 DEF Calling
  <2>2. CallSoFar(i) /\ ShownSoFar(i)
    BY <2>1, <1>4 DEF CallsSoFar
  <2> QED
    BY <2>2, <1>1, <1>5, CallUndisturbed
<1>6. ASSUME NEW k \in Injector, k # i, Life(k) PROVE CallSoFar(i)' /\ ShownSoFar(i)'
  BY <1>4, <1>5, <1>6, OtherLife
<1>7. ASSUME NEW d \in Daemon, Respawn(d) PROVE CallSoFar(i)' /\ ShownSoFar(i)'
  BY <1>4, <1>5, <1>7, RespawnApart
<1>8. ASSUME Life(i) PROVE CallSoFar(i)' /\ ShownSoFar(i)'
  <2>1. CASE Build(i)
    BY <2>1, <1>1, <1>3 DEF Build, Calling, TypeOK
  <2>2. CASE StartApply(i) \/ StartRevert(i)
    BY <2>2, <1>1, CallBegins
  <2>3. CASE Work(i)
    <3>1. Calling(i)
      BY <2>3 DEF Work
    <3>2. CallSoFar(i) /\ ShownSoFar(i)
      BY <3>1, <1>4 DEF CallsSoFar
    <3> QED
      BY <3>2, <2>3, <1>1, <1>4, CallWorks
  <2>4. CASE Refuse(i)
    <3>1. /\ Calling(i) /\ step[i] <= Len(Script(i))
          /\ dev' = dev /\ probed' = probed /\ before' = before
          /\ failed' = failed \cup {i} /\ phase \in [Injector -> Phase]
      BY <2>4, <1>1 DEF Refuse, TypeOK
    <3>2. CallSoFar(i)
      BY <3>1, <1>4 DEF CallsSoFar
    <3>3. phase'[i] = phase[i]
      BY <2>4, <3>1, <1>3 DEF Refuse, Calling
    <3>4. On(i)' = On(i) /\ ImpairedOn(i)' = ImpairedOn(i)
      BY <3>1, <1>1, <1>2, SameImpaired
    <3>5. CallSoFar(i)'
      BY <3>1, <3>2, <3>3, <3>4, <1>2 DEF CallSoFar
    <3>6. ShownSoFar(i)'
      BY <3>1 DEF ShownSoFar
    <3> QED
      BY <3>5, <3>6
  <2>5. CASE TimeOut(i)
    BY <2>5, <1>1, <1>3 DEF TimeOut, Calling, TypeOK
  <2>6. CASE Return(i)
    BY <2>6, <1>1, <1>3 DEF Return, Calling, TypeOK
  <2> QED
    BY <2>1, <2>2, <2>3, <2>4, <2>5, <2>6, <1>8 DEF Life
<1>9. CASE UNCHANGED vars
  BY <1>5, <1>9 DEF vars
<1> QED
  BY <1>6, <1>7, <1>8, <1>9 DEF Next

-----------------------------------------------------------------------------
(* What a call ends with.                                                  *)

(* Lab's four operators, over the resources of the injector.               *)
LEMMA LabSays ==
  ASSUME TypeOK, NEW i \in Injector, NEW was, was \subseteq On(i)
  PROVE  LET j == job[i]
             foot == IF j.kind = "clear" THEN {} ELSE On(i)
         IN  /\ L!Applied(was, j, "target") =
                  IF j.kind = "flap" THEN was \ foot ELSE was \cup foot
             /\ L!Reverted(was, j, "target") = was \ foot
             /\ L!ApplyRaised(was, j, "target") =
                  {was \cup part : part \in SUBSET foot}
                  \cup (IF j.kind = "flap" THEN {was \ part : part \in SUBSET foot}
                        ELSE {})
             /\ L!RevertRaised(was, j, "target") = {was \ part : part \in SUBSET foot}
<1> DEFINE j == job[i]
           foot == IF j.kind = "clear" THEN {} ELSE On(i)
           F == [x \in Job |-> [t \in {"target"} |-> Faulty(x)]]
<1>1. j \in Job
  BY DEF TypeOK
<1>2. F[j]["target"] = foot
  BY <1>1 DEF Faulty, On
<1>3. j \in {x \in Job : x.kind = "flap"} <=> j.kind = "flap"
  BY <1>1
<1> HIDE DEF foot
<1>4. /\ L!Applied(was, j, "target") =
           IF j.kind = "flap" THEN was \ foot ELSE was \cup foot
      /\ L!Reverted(was, j, "target") = was \ foot
  BY <1>2, <1>3 DEF L!Applied, L!Reverted
<1>5. L!ApplyRaised(was, j, "target") =
        {was \cup part : part \in SUBSET foot}
        \cup (IF j.kind = "flap" THEN {was \ part : part \in SUBSET foot} ELSE {})
  BY <1>2, <1>3 DEF L!ApplyRaised
<1>6. L!RevertRaised(was, j, "target") = {was \ part : part \in SUBSET foot}
  BY <1>2 DEF L!RevertRaised
<1> QED
  BY <1>4, <1>5, <1>6 DEF foot

(* apply() that raised or was refused somewhere: some part is impaired; of *)
(* a flap, whose one link is up or down, nothing more is to be said.       *)
LEMMA ApplyRaisedIs ==
  ASSUME TypeOK, NEW i \in Injector, NEW was, was \subseteq On(i),
         NEW now, now \subseteq On(i), job[i].kind = "clear" => now = was,
         job[i].kind # "flap" => was \subseteq now
  PROVE  now \in L!ApplyRaised(was, job[i], "target")
<1> DEFINE foot == IF job[i].kind = "clear" THEN {} ELSE On(i)
<1>1. L!ApplyRaised(was, job[i], "target") =
        {was \cup part : part \in SUBSET foot}
        \cup (IF job[i].kind = "flap" THEN {was \ part : part \in SUBSET foot} ELSE {})
  BY LabSays
<1>2. CASE was \subseteq now
  <2>1. now \ was \in SUBSET foot /\ now = was \cup (now \ was)
    BY <1>2
  <2> QED
    BY <2>1, <1>1
<1>3. CASE ~ (was \subseteq now)
  <2>1. job[i].kind = "flap" /\ foot = On(i)
    BY <1>3
  <2>2. \A r \in On(i) : r = job[i].on[1]
    BY <2>1, JobShape
  <2>3. now = {} /\ was = was \ {} /\ now = was \ was
    BY <2>2, <1>3
  <2>4. was \in SUBSET foot
    BY <2>1
  <2> HIDE DEF foot
  <2> QED
    BY <2>1, <2>3, <2>4, <1>1
<1> QED
  BY <1>2, <1>3

LEMMA RevertRaisedIs ==
  ASSUME TypeOK, NEW i \in Injector, NEW was, was \subseteq On(i),
         NEW now, now \subseteq was, job[i].kind = "clear" => now = was
  PROVE  now \in L!RevertRaised(was, job[i], "target")
<1> DEFINE foot == IF job[i].kind = "clear" THEN {} ELSE On(i)
<1>1. L!RevertRaised(was, job[i], "target") = {was \ part : part \in SUBSET foot}
  BY LabSays
<1>2. was \ now \in SUBSET foot /\ now = was \ (was \ now)
  OBVIOUS
<1> QED
  BY <1>1, <1>2

(* A call of which every command took effect.                              *)
LEMMA CompleteIs ==
  ASSUME TypeOK, NEW i \in Injector, job[i].kind # "kill", Calling(i),
         step[i] \in Nat, ~ (step[i] <= Len(Script(i))),
         CallSoFar(i), ShownSoFar(i), i \notin failed
  PROVE  /\ phase[i] = "applying" =>
              ImpairedOn(i) = L!Applied(before[i], job[i], "target")
         /\ phase[i] = "reverting" =>
              ImpairedOn(i) = L!Reverted(before[i], job[i], "target")
<1> DEFINE foot == IF job[i].kind = "clear" THEN {} ELSE On(i)
<1>1. before[i] \subseteq On(i) /\ ImpairedOn(i) \subseteq On(i)
  BY DEF CallSoFar, ImpairedOn
<1>2. /\ L!Applied(before[i], job[i], "target") =
           IF job[i].kind = "flap" THEN before[i] \ foot ELSE before[i] \cup foot
      /\ L!Reverted(before[i], job[i], "target") = before[i] \ foot
  BY <1>1, LabSays
<1>3. job[i].kind = "clear" => ImpairedOn(i) = before[i]
  BY DEF CallSoFar
<1>4. ASSUME phase[i] = "applying"
      PROVE  ImpairedOn(i) = L!Applied(before[i], job[i], "target")
  <2>1. Script(i) = ApplyScript(i) /\ Len(ApplyScript(i)) \in Nat
    BY <1>4, JobShape DEF Script, ApplyScript, Each, Kind
  <2>2. \A n \in 1..Len(ApplyScript(i)) : n < step[i]
    BY <2>1
  <2>3. \A n \in 1..Len(ApplyScript(i)) : AppliedSoFar(i, n)
    BY <2>2, <1>4 DEF ShownSoFar
  <2>4. CASE job[i].kind = "flap"
    <3>1. 4 \in 1..Len(ApplyScript(i))
      BY <2>4, ApplyVerbs
    <3>2. ImpairedOn(i) = {}
      BY <3>1, <2>3, <2>4 DEF AppliedSoFar
    <3> QED
      BY <3>2, <2>4, <1>1, <1>2
  <2>5. CASE job[i].kind = "clear"
    BY <2>5, <1>2, <1>3
  <2>6. CASE job[i].kind \notin {"flap", "clear"}
    <3>1. ASSUME NEW r \in On(i) PROVE r \in ImpairedOn(i)
      <4>1. PICK n \in 1..Len(ApplyScript(i)) :
              ApplyScript(i)[n][1] \in Impairing /\ ApplyScript(i)[n][2] = r
        BY <2>6, ApplyVerbs
      <4> QED
        BY <4>1, <2>3, <2>6 DEF AppliedSoFar
    <3> QED
      BY <3>1, <2>6, <1>1, <1>2
  <2> QED
    BY <2>4, <2>5, <2>6
<1>5. ASSUME phase[i] = "reverting"
      PROVE  ImpairedOn(i) = L!Reverted(before[i], job[i], "target")
  <2>1. Script(i) = RevertScript(i) /\ Len(RevertScript(i)) \in Nat
    BY <1>5, JobShape DEF Script, RevertScript, NetemRevert, LinkRevert, Each, Kind
  <2>2. \A n \in 1..Len(RevertScript(i)) : n < step[i]
    BY <2>1
  <2>3. \A n \in 1..Len(RevertScript(i)) : RevertedSoFar(i, n)
    BY <2>2, <1>5 DEF ShownSoFar
  <2>4. CASE job[i].kind = "clear"
    BY <2>4, <1>2, <1>3
  <2>5. CASE job[i].kind # "clear"
    <3>1. ASSUME NEW r \in On(i) PROVE r \notin ImpairedOn(i)
      <4>1. PICK n \in 1..Len(RevertScript(i)) :
              RevertScript(i)[n][1] \in Healing /\ RevertScript(i)[n][2] = r
        BY <2>5, RevertVerbs
      <4> QED
        BY <4>1, <2>3 DEF RevertedSoFar
    <3> QED
      BY <3>1, <2>5, <1>1, <1>2
  <2> QED
    BY <2>4, <2>5
<1> QED
  BY <1>4, <1>5

(* The end of a call.                                                      *)
LEMMA CallEnds ==
  ASSUME IInv, TypeOK', NEW i \in Injector, Alone(i), job[i].kind # "kill",
         CallSoFar(i), ShownSoFar(i), Refuse(i) \/ TimeOut(i) \/ Return(i)
  PROVE  CallMatchesLab(i)
<1> USE DEF IInv
<1>1. /\ Calling(i) /\ job' = job /\ probed' = probed /\ before' = before
      /\ failed \subseteq failed' /\ step[i] \in Nat
      /\ phase[i] \in {"applying", "reverting"}
  BY DEF Refuse, TimeOut, Return, TypeOK, Calling
<1>2. On(i)' = On(i)
  BY <1>1, SameCall
<1>3. PICK was, now : was = before[i] /\ now = ImpairedOn(i)'
  OBVIOUS
<1>4. (Impaired(dev) \cap On(i))' = now
  BY <1>3 DEF ImpairedOn
<1>5. /\ was \subseteq On(i) /\ ImpairedOn(i) \subseteq On(i) /\ now \subseteq On(i)
      /\ job[i].kind = "clear" => ImpairedOn(i) = was
      /\ phase[i] = "applying" /\ job[i].kind # "flap" => was \subseteq ImpairedOn(i)
      /\ phase[i] = "reverting" => ImpairedOn(i) \subseteq was
  BY <1>2, <1>3 DEF CallSoFar, ImpairedOn
<1>6. /\ job[i].kind = "clear" => now = ImpairedOn(i)
      /\ phase[i] = "applying" /\ job[i].kind # "flap" => ImpairedOn(i) \subseteq now
      /\ phase[i] = "reverting" => now \subseteq ImpairedOn(i)
  <2>1. CASE dev' = dev
    BY <2>1, <1>1, <1>2, <1>3 DEF ImpairedOn
  <2>2. CASE dev' # dev
    <3>1. /\ step[i] <= Len(Script(i))
          /\ dev' \in {dev, Effect(Command(i)[1], Command(i)[2])}
      BY <2>2 DEF Refuse, TimeOut, Return
    <3>2. PICK n : n = step[i]
      OBVIOUS
    <3> QED
      BY <3>1, <3>2, <1>1, <1>3, CommandShows
  <2> QED
    BY <2>1, <2>2
<1>7. phase[i] = "applying" => now \in L!ApplyRaised(was, job[i], "target")
  <2>1. ASSUME phase[i] = "applying" PROVE now \in L!ApplyRaised(was, job[i], "target")
    <3>1. job[i].kind # "flap" => was \subseteq now
      BY <2>1, <1>5, <1>6
    <3>2. job[i].kind = "clear" => now = was
      BY <1>5, <1>6
    <3> QED
      BY <3>1, <3>2, <1>5, ApplyRaisedIs
  <2> QED
    BY <2>1
<1>8. phase[i] = "reverting" => now \in L!RevertRaised(was, job[i], "target")
  <2>1. ASSUME phase[i] = "reverting" PROVE now \in L!RevertRaised(was, job[i], "target")
    <3>1. now \subseteq was
      BY <2>1, <1>5, <1>6
    <3>2. job[i].kind = "clear" => now = was
      BY <1>5, <1>6
    <3> QED
      BY <3>1, <3>2, <1>5, RevertRaisedIs
  <2> QED
    BY <2>1
<1>9. ASSUME i \notin failed'
      PROVE  /\ phase[i] = "applying" => now = L!Applied(was, job[i], "target")
             /\ phase[i] = "reverting" => now = L!Reverted(was, job[i], "target")
  <2>1. Return(i) /\ i \notin failed
    BY <1>1, <1>9 DEF Refuse, TimeOut
  <2>2. dev' = dev /\ step[i] \in Nat /\ ~ (step[i] <= Len(Script(i)))
    <3>1. Len(Script(i)) \in Nat
      BY JobShape DEF Script, ApplyScript, RevertScript, NetemRevert, LinkRevert, Each, Kind
    <3> QED
      BY <2>1, <3>1, <1>1 DEF Return
  <2>3. now = ImpairedOn(i)
    BY <2>2, <1>2, <1>3 DEF ImpairedOn
  <2> QED
    BY <2>1, <2>2, <2>3, <1>1, <1>3, CompleteIs
<1>10. /\ Ends(i, "applying", "applied") \/ Ends(i, "applying", "raised")
            => phase[i] = "applying"
       /\ Ends(i, "reverting", "reverted") \/ Ends(i, "reverting", "stuck")
            => phase[i] = "reverting"
  BY DEF Ends
<1> QED
  BY <1>3, <1>4, <1>7, <1>8, <1>9, <1>10 DEF CallMatchesLab

LEMMA CallsEnd ==
  ASSUME IInv, CallsSoFar, [Next]_vars
  PROVE  [\A i \in Injector : Alone(i) /\ job[i].kind # "kill" => CallMatchesLab(i)]_vars
<1>1. ASSUME NEW i \in Injector, phase'[i] = phase[i] \/ ~Calling(i)
      PROVE  CallMatchesLab(i)
  BY <1>1 DEF CallMatchesLab, Ends, Calling
<1>2. ASSUME NEW i \in Injector, Alone(i), job[i].kind # "kill", NEW k \in Injector, Life(k)
      PROVE  CallMatchesLab(i)
  <2>1. CASE k # i
    BY <2>1, <1>1, <1>2, OtherLife
  <2>2. CASE k = i
    <3>1. CASE ~Calling(i)
      BY <3>1, <1>1
    <3>2. CASE Calling(i)
      <4>1. CallSoFar(i) /\ ShownSoFar(i) /\ TypeOK'
        BY <3>2, <1>2, NextInv DEF CallsSoFar, IInv
      <4>2. CASE Refuse(i) \/ TimeOut(i) \/ Return(i)
        BY <4>1, <4>2, <1>2, CallEnds
      <4>3. CASE Work(i)
        BY <4>3, <1>1 DEF Work
      <4>4. ~Build(i) /\ ~StartApply(i) /\ ~StartRevert(i)
        BY <3>2 DEF Build, StartApply, StartRevert, Calling
      <4> QED
        BY <4>2, <4>3, <4>4, <2>2, <1>2 DEF Life
    <3> QED
      BY <3>1, <3>2
  <2> QED
    BY <2>1, <2>2
<1>3. ASSUME NEW d \in Daemon, Respawn(d), NEW i \in Injector PROVE CallMatchesLab(i)
  BY <1>1, <1>3 DEF Respawn
<1> QED
  BY <1>2, <1>3 DEF Next

(* On resources nobody else works on, whatever the other injectors do and  *)
(* wherever a command is refused or times out, a call of apply() or        *)
(* revert() leaves what Lab says of it: the effect of the complete call    *)
(* when every command took effect, else one of the outcomes Lab allows     *)
(* (injectors.py, apply() and revert() of every injector but DaemonKill).  *)
THEOREM CallsMatch == Spec => CallsMatchLab
<1>1. Init => CallsSoFar
  BY CallsInit
<1>2. IInv /\ CallsSoFar /\ [Next]_vars => CallsSoFar'
  BY CallsNext
<1>3. IInv /\ CallsSoFar /\ [Next]_vars
      => [\A i \in Injector : Alone(i) /\ job[i].kind # "kill" => CallMatchesLab(i)]_vars
  BY CallsEnd
<1> QED
  BY <1>1, <1>2, <1>3, Invariance, PTL DEF Spec, CallsMatchLab
================================================================================
