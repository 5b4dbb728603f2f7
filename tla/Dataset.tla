------------------------------- MODULE Dataset -------------------------------
(***************************************************************************)
(* The labelled synthetic dataset: synthetic/generate.py lays fault        *)
(* episodes, cascades and near misses over a healthy slice and records     *)
(* each in a ledger; synthetic/topology_paths.py and synthetic/events.py   *)
(* derive the edge, path and event tables from the ledger alone;           *)
(* dataapi/export.py labels real rows from a label file.  Four programs    *)
(* must tell one story about every row.                                    *)
(*                                                                         *)
(* Time is in ticks, Step ticks to a bucket, so an impact or an end may    *)
(* fall on a bucket or between two.  Every random draw is a choice.  Of    *)
(* the metrics, the octet counter and the operational status are kept;     *)
(* of the others, which rows an episode moves and which a gap in the       *)
(* collection empties again.                                               *)
(***************************************************************************)
EXTENDS Integers, Sequences, FiniteSets, SequencesExt

CONSTANTS
  Branches,   \* CE routers with a tunnel to every hub
  Hubs,       \* the hubs, the preferred one first
  Cores,      \* PE and P routers
  Faults,     \* fault types drawn, among those of faults/signatures.py
  Step,       \* ticks in a bucket
  Buckets,    \* buckets in the capture
  Spans,      \* the <<lead, recovery>> drawn: ticks to t_impact, and on to t_end
  Hops,       \* depths a cascade may have
  Roots,      \* episodes drawn for a slice
  Negatives,  \* near misses asked for
  Margin,       \* near misses start before the last Margin buckets
  MaxPlain,   \* bound: ledger entries before which a root or near miss is drawn
  MaxLedger   \* bound: ledger entries a cascade may fill up

ASSUME DatasetAssumption ==
  /\ {Step, Buckets, Margin} \subseteq Nat \ {0} /\ Margin < Buckets
  /\ Spans \subseteq (Nat \ {0}) \X (Nat \ {0})
  /\ Roots \in Nat /\ Hops \subseteq Nat
  /\ Hubs \in Seq(ToSet(Hubs)) /\ Hubs # <<>>

VARIABLES
  stream,     \* "F" with campaign faults, "N" without
  pc,         \* what the generator is at: "roots", "cascade", "negatives", "done"
  tries,      \* root episodes drawn
  casc,       \* the cascade under way
  ledger,     \* one entry per episode or near miss
  dicts,      \* the label dictionaries of each entry: rows and provenance
  active,     \* per kind, the <<device, bucket>> pairs already perturbed by it
  octets,     \* per <<device, interface>>, the cumulative counter by bucket
  ops,        \* interface rows with if_oper_status = 0
  near,       \* rows flagged as near misses
  erased      \* device rows whose health metrics a near miss set to NaN

vars == <<stream, pc, tries, casc, ledger, dicts, active, octets, ops, near,
          erased>>

-----------------------------------------------------------------------------
(* The inventory and the fault types.                                      *)

HubSet == ToSet(Hubs)

(* What PathsFollowRamps takes for granted: a branch has somewhere to go   *)
(* when its preferred hub is out of reach.                                 *)
TwoHubs == Len(Hubs) >= 2 /\ \A i \in 2..Len(Hubs) : Hubs[i] # Hubs[1]

Ces == Branches \cup HubSet
Devices == Ces \cup Cores

Physical == {"eth"}
Interfaces == Physical \cup {"lo"}
Tunnels(d) == IF d \in Branches THEN HubSet ELSE {}
Entities(d) == {"device"} \cup Interfaces \cup Tunnels(d)

Adjacent(d) == IF d \in Branches THEN HubSet
               ELSE IF d \in HubSet THEN Branches ELSE {}

IfaceDown == {"node_failure", "p_node_failure", "pop_isolation",
              "core_partition", "srlg_cut", "mpls_underlay_failure"}
IfaceChurn == {"bgp_flap", "policy_drift", "ospf_area_flap", "rr_failure",
               "ldp_session_flap", "bgp_cascade"}
Congest == {"congestion", "core_congestion", "brownout", "tunnel_degrade",
            "hub_spoke_congest", "asymmetric_loss"}

KindOf(ft) == IF ft \in IfaceDown THEN "iface_down"
              ELSE IF ft \in IfaceChurn THEN "iface_churn" ELSE "tunnel_ramp"
Kinds == {"iface_down", "iface_churn", "tunnel_ramp"}

Targets(ft) == IF ft \in {"bgp_flap", "node_failure"} /\ Cores # {}
               THEN Cores ELSE Ces

-----------------------------------------------------------------------------
(* Rows and windows.  An episode or near miss is a ledger entry.           *)

Times == 0..(Buckets - 1)
Epoch(b) == b * Step
CaptureEnd == Buckets * Step

None == 0        \* no motif, parent or entity
Null == -1       \* an open valid_to; the t_impact of a near miss

Inside(ep, b) == ep.start <= Epoch(b) /\ Epoch(b) <= ep.end
Window(ep) == {b \in Times : Inside(ep, b)}
Rows(ep, ents) == {ep.dev} \X ents \X Window(ep)

(* The impairment fraction is 0 at both ends of the window.                *)
Impaired(ep, b) == ep.start < Epoch(b) /\ Epoch(b) < ep.end
Failed(ep, b) == ep.impact < Epoch(b) /\ Epoch(b) <= ep.end

Episode(ft, d, start, span, depth, parent, motif) ==
  [ft |-> ft, kind |-> KindOf(ft), dev |-> d, ent |-> None,
   start |-> start, impact |-> start + span[1],
   end |-> start + span[1] + span[2],
   depth |-> depth, parent |-> parent, motif |-> motif]

(* Mutant: only the bucket an episode starts in must be free.              *)
ClashAtStart(ep) ==
  \/ Window(ep) = {}
  \/ \E b \in Window(ep) : Epoch(b) = ep.start /\ <<ep.dev, b>> \in active[ep.kind]

Clash(ep) ==
  \/ Window(ep) = {}
  \/ \E b \in Window(ep) : <<ep.dev, b>> \in active[ep.kind]

(* Mutant: the label of every row of the device, whatever the fault moves. *)
LabelWindow(ep) == Rows(ep, Entities(ep.dev))

(* The rows an episode labels.                                             *)
LabelRows(ep) ==
  LET iface == \/ ep.kind \in {"iface_churn", "iface_down"}
               \/ ep.ft \in Congest
               \/ ep.ft = "gray_failure"
  IN Rows(ep, {"device"}
              \cup (IF ep.kind = "tunnel_ramp" THEN Tunnels(ep.dev) ELSE {})
              \cup (IF iface THEN Interfaces ELSE {}))

(* The rows of any metric it moves.                                        *)
TunnelRamp(ep) ==
  {r \in Rows(ep, Tunnels(ep.dev)) : ep.kind = "tunnel_ramp" /\ Impaired(ep, r[3])}
Churned(ep) ==
  {r \in Rows(ep, Interfaces) : ep.kind = "iface_churn" /\ Impaired(ep, r[3])}

Downed(ep) ==
  {r \in Rows(ep, Physical) : ep.kind = "iface_down" /\ Failed(ep, r[3])}

ApplyEnv(ep) ==
  {r \in Rows(ep, {"device"} \cup Interfaces) :
     /\ Impaired(ep, r[3])
     /\ \/ r[2] = "device"
        \/ ep.ft \in Congest \cup IfaceChurn \cup IfaceDown \cup {"gray_failure"}}
Moved(ep) == TunnelRamp(ep) \cup Churned(ep) \cup Downed(ep) \cup ApplyEnv(ep)

-----------------------------------------------------------------------------
(* Counters.  An adjustment is a multiple of each bucket's increment; what *)
(* it adds up to by a bucket is carried on after it (np.cumsum).           *)

Carried(c, by) ==
  LET extra[b \in Times] ==
        IF b = 0 THEN 0 ELSE extra[b - 1] + (c[b] - c[b - 1]) * by[b]
  IN  extra

(* Mutant: the window is adjusted and nothing is carried past it.          *)
AdjustWindowOnly(c, by) ==
  LET extra == Carried(c, by)
  IN  [b \in Times |-> IF by[b] = 0 THEN c[b] ELSE c[b] + extra[b]]

CounterAdjust(c, by) ==
  LET extra == Carried(c, by)
  IN  [b \in Times |-> c[b] + extra[b]]

Churn(ep) == [b \in Times |-> IF Impaired(ep, b) THEN 1 ELSE 0]
Frozen(ep) == [b \in Times |-> IF Failed(ep, b) THEN -1 ELSE 0]

Counted(ep) ==
  [x \in Devices \X Interfaces |->
     IF x[1] # ep.dev THEN octets[x]
     ELSE CASE ep.kind = "iface_churn" -> CounterAdjust(octets[x], Churn(ep))
            [] ep.kind = "iface_down" /\ x[2] \in Physical ->
                 CounterAdjust(octets[x], Frozen(ep))
            [] OTHER -> octets[x]]

-----------------------------------------------------------------------------
(* Placing an episode.                                                     *)

ScopedEntity(ep) ==
  IF ep.kind = "tunnel_ramp" /\ Tunnels(ep.dev) # {} THEN Hubs[1] ELSE None

(* Mutant: the recovery after the impact is not held.                      *)
MarkRising(ep) ==
  [active EXCEPT ![ep.kind] =
     @ \cup ({ep.dev} \X {b \in Window(ep) : Epoch(b) <= ep.impact})]

Mark(ep) ==
  [active EXCEPT ![ep.kind] = @ \cup ({ep.dev} \X Window(ep))]

(* dict.motif may differ from the ledger's: a root is retagged later.      *)
Place(ep, motif) ==
  /\ ledger' = Append(ledger, [ep EXCEPT !.ent = ScopedEntity(ep)])
  /\ dicts' = Append(dicts, [rows |-> LabelRows(ep), depth |-> ep.depth,
                             parent |-> ep.parent, motif |-> motif, count |-> 1])
  /\ octets' = Counted(ep)
  /\ ops' = ops \cup Downed(ep)
  /\ active' = Mark(ep)

NoCascade == [root |-> None, cur |-> None, depth |-> 0, hops |-> 0]

Init ==
  /\ stream \in {"F", "N"}
  /\ pc = IF stream = "F" THEN "roots" ELSE "negatives"
  /\ tries = 0
  /\ casc = NoCascade
  /\ ledger = <<>> /\ dicts = <<>>
  /\ active = [kind \in Kinds |-> {}]
  /\ octets = [x \in Devices \X Interfaces |-> [b \in Times |-> b]]
  /\ ops = {} /\ near = {} /\ erased = {}

Room == Len(ledger) < MaxPlain

(* Drawing one root episode; it may clash, stand alone or seed a cascade.  *)
DrawRoot ==
  /\ pc = "roots" /\ tries < Roots /\ Room
  /\ tries' = tries + 1
  /\ \E ft \in Faults : \E d \in Targets(ft), b \in 0..(Buckets - 2),
        span \in Spans :
       LET ep == Episode(ft, d, Epoch(b), span, 0, None, None)
           i == Len(ledger) + 1
       IN \/ /\ Clash(ep)
             /\ UNCHANGED <<pc, casc, ledger, dicts, active, octets, ops>>
          \/ /\ ~Clash(ep)
             /\ \/ Place(ep, None) /\ UNCHANGED <<pc, casc>>
                \/ /\ Place(ep, i)
                   /\ pc' = "cascade"
                   /\ casc' \in [root : {i}, cur : {i}, depth : {1},
                                 hops : {h \in Hops : i + h <= MaxLedger}]
  /\ UNCHANGED <<stream, near, erased>>

Current == ledger[casc.cur]

(* Where the next hop may land: first another kind on the same device,     *)
(* then anything on a neighbour of the last device hit.                    *)
HopTargets ==
  IF casc.depth = 1
  THEN {x \in Faults \X {Current.dev} : KindOf(x[1]) # ledger[casc.root].kind}
  ELSE Faults \X Adjacent(Current.dev)

Hop ==
  /\ pc = "cascade" /\ casc.depth <= casc.hops
  /\ \E x \in HopTargets, span \in Spans :
       LET ep == Episode(x[1], x[2],
                         ledger[casc.root].start + 2 * Step * casc.depth,
                         span, casc.depth, casc.cur, casc.root)
       IN \/ /\ Clash(ep)
             /\ casc' = [casc EXCEPT !.depth = @ + 1]
             /\ UNCHANGED <<ledger, dicts, active, octets, ops>>
          \/ /\ ~Clash(ep)
             /\ Place(ep, casc.root)
             /\ casc' = [casc EXCEPT !.depth = @ + 1, !.cur = Len(ledger) + 1]
  /\ UNCHANGED <<stream, pc, tries, near, erased>>

Motif(m) == {i \in DOMAIN dicts : dicts[i].motif = m}

(* Mutant: the episodes of the motif are counted, not its devices.         *)
MotifEpisodes(m) == Cardinality(Motif(m))

MotifDevices(m) == Cardinality({ledger[i].dev : i \in Motif(m)})

EndCascade ==
  /\ pc = "cascade"
  /\ casc.depth > casc.hops \/ HopTargets = {}
  /\ dicts' = [i \in DOMAIN dicts |->
                 IF i \in Motif(casc.root)
                 THEN [dicts[i] EXCEPT !.count = MotifDevices(casc.root)]
                 ELSE dicts[i]]
  /\ pc' = "roots" /\ casc' = NoCascade
  /\ UNCHANGED <<stream, tries, ledger, active, octets, ops, near, erased>>

EndRoots ==
  /\ pc = "roots" /\ (tries = Roots \/ ~Room)
  /\ pc' = "negatives"
  /\ UNCHANGED <<stream, tries, casc, ledger, dicts, active, octets, ops, near,
                 erased>>

-----------------------------------------------------------------------------
(* Near misses.  They label nothing and are drawn on CE routers only.      *)

Mechanisms == {"congestion_recedes", "self_healing_flap", "maintenance_drain",
               "legit_surge", "collector_dropout", "no_impact_topo_change"}

FirstTwo(S) == {b \in S : Cardinality({c \in S : c < b}) < 2}

Flapped(mech, ep) ==
  LET held == IF mech = "self_healing_flap" THEN FirstTwo(Window(ep))
              ELSE Window(ep)
  IN {ep.dev} \X {ep.ent} \X held

(* The rows a mechanism flags.                                             *)
Flagged(mech, ep) ==
  CASE mech = "congestion_recedes" -> Rows(ep, Tunnels(ep.dev))
    [] mech \in {"self_healing_flap", "no_impact_topo_change"} -> Flapped(mech, ep)
    [] mech = "legit_surge" -> Rows(ep, Interfaces)
    [] OTHER -> Rows(ep, {"device"})

(* Mutant: the gap goes on to the end of the capture.                      *)
ErasedOnwards(mech, ep) ==
  {x \in {ep.dev} \X {"device"} \X Times :
     mech = "collector_dropout" /\ ep.start <= Epoch(x[3])}

(* The rows left without cpu, temperature, power and fan speed: on a       *)
(* device row, all that a fault moves.                                     *)
Erased(mech, ep) ==
  {x \in Rows(ep, {"device"}) : mech = "collector_dropout"}

Picked(mech, d) ==
  CASE mech = "congestion_recedes" -> {Hubs[1]}
    [] mech \in {"self_healing_flap", "no_impact_topo_change"} -> Physical
    [] OTHER -> {None}

NearMiss ==
  /\ pc = "negatives" /\ Room
  /\ Cardinality({i \in DOMAIN ledger : ledger[i].kind = "hard_negative"}) < Negatives
  /\ \E mech \in Mechanisms, d \in Ces, b \in 0..(Buckets - Margin - 1),
        span \in Spans : \E ent \in Picked(mech, d) :
       LET ep == [ft |-> mech, kind |-> "hard_negative", dev |-> d, ent |-> ent,
                  start |-> Epoch(b), impact |-> Null, end |-> Epoch(b) + span[2],
                  depth |-> Null, parent |-> None, motif |-> None]
       IN /\ Flagged(mech, ep) # {}
          /\ ledger' = Append(ledger, ep)
          /\ dicts' = Append(dicts, [rows |-> {}, depth |-> Null, parent |-> None,
                                     motif |-> None, count |-> 0])
          /\ near' = near \cup Flagged(mech, ep)
          /\ erased' = erased \cup Erased(mech, ep)
          /\ ops' = IF mech \in {"self_healing_flap", "no_impact_topo_change"}
                    THEN ops \cup Flapped(mech, ep) ELSE ops
          /\ octets' = IF mech = "legit_surge"
                       THEN [x \in Devices \X Interfaces |->
                               IF x[1] = d
                               THEN CounterAdjust(octets[x], Churn(ep))
                               ELSE octets[x]]
                       ELSE octets
  /\ UNCHANGED <<stream, pc, tries, casc, active>>

IsFault(r) == \E i \in DOMAIN dicts : r \in dicts[i].rows

(* Mutant: a row keeps the flag of a near miss beside a fault's label.     *)
KeptFlags == near

ClearedFlags == {r \in near : ~IsFault(r)}

(* The near misses asked for are made, or the attempts are used up.        *)
Finish ==
  /\ pc = "negatives"
  /\ near' = ClearedFlags
  /\ pc' = "done"
  /\ UNCHANGED <<stream, tries, casc, ledger, dicts, active, octets, ops, erased>>

Next == DrawRoot \/ Hop \/ EndCascade \/ EndRoots \/ NearMiss \/ Finish

Spec == Init /\ [][Next]_vars

-----------------------------------------------------------------------------
(* The edge table: intervals of validity <<valid_from, valid_to>>.         *)

Earlier(a, b) == a[1] < b[1] \/ (a[1] = b[1] /\ a[2] <= b[2])
InOrder(S) ==
  CHOOSE s \in SetToSeqs(S) : \A i, j \in DOMAIN s : i < j => Earlier(s[i], s[j])
Later(x, y) == IF x >= y THEN x ELSE y

(* Mutant: an outage ends where the last one to begin does.                *)
IntervalsLastEnd(downs) ==
  LET Cut(s, w) == [cur |-> w[2],
                    out |-> IF w[1] > s.cur THEN Append(s.out, <<s.cur, w[1]>>)
                            ELSE s.out]
      all == FoldLeft(Cut, [cur |-> 0, out |-> <<>>], InOrder(downs))
  IN Append(all.out, <<all.cur, Null>>)

Intervals(downs) ==
  LET Cut(s, w) == [cur |-> Later(s.cur, w[2]),
                    out |-> IF w[1] > s.cur THEN Append(s.out, <<s.cur, w[1]>>)
                            ELSE s.out]
      all == FoldLeft(Cut, [cur |-> 0, out |-> <<>>], InOrder(downs))
  IN Append(all.out, <<all.cur, Null>>)

Edges ==
  {[devices |-> {d}, ifaces |-> {<<d, i>>}] : d \in Devices, i \in Interfaces}
  \cup {[devices |-> {d, h}, ifaces |-> {<<d, "wg0">>, <<h, "wg0">>}] :
          d \in Branches, h \in HubSet}

EdgeHit(e, ep) ==
  IF ep.ent # None THEN <<ep.dev, ep.ent>> \in e.ifaces ELSE ep.dev \in e.devices

Downing(e) ==
  {i \in DOMAIN ledger : ledger[i].kind = "iface_down" /\ EdgeHit(e, ledger[i])}

Validity(e) == Intervals({<<ledger[i].impact, ledger[i].end>> : i \in Downing(e)})

Holds(iv, t) == iv[1] <= t /\ (iv[2] = Null \/ t < iv[2])

-----------------------------------------------------------------------------
(* The path table: which hub a branch uses, from when to when.             *)

Reroutes(d) ==
  {w \in {<<Later(ledger[i].impact, 0),
            IF ledger[i].end <= CaptureEnd THEN ledger[i].end ELSE CaptureEnd>> :
          i \in {j \in DOMAIN ledger : /\ ledger[j].dev = d
                                       /\ ledger[j].kind = "tunnel_ramp"}} :
     w[2] > w[1]}

Merge(wins) ==
  LET Join(out, w) ==
        IF out # <<>> /\ w[1] <= Last(out)[2]
        THEN Append(Front(out), <<Last(out)[1], Later(Last(out)[2], w[2])>>)
        ELSE Append(out, w)
  IN FoldLeft(Join, <<>>, InOrder(wins))

Alternate(n) == IF Len(Hubs) = 1 THEN Hubs[1] ELSE Hubs[2 + (n % (Len(Hubs) - 1))]

(* The timeline before its last segment is opened.                         *)
Detours(d) ==
  LET Detour(s, w) ==
        [cur |-> w[2], n |-> s.n + 1,
         out |-> Append(IF w[1] > s.cur THEN Append(s.out, <<s.cur, w[1], Hubs[1]>>)
                        ELSE s.out,
                        <<w[1], w[2], Alternate(s.n)>>)]
  IN FoldLeft(Detour, [cur |-> 0, n |-> 0, out |-> <<>>], Merge(Reroutes(d)))

Opened(segs) ==
  Append(Front(segs), <<Last(segs)[1], Null, Last(segs)[3]>>)

(* Mutant: no return to the preferred hub after the last detour.           *)
SegmentsNoReturn(d) ==
  LET s == Detours(d)
  IN Opened(IF s.out = <<>> THEN <<<<0, CaptureEnd, Hubs[1]>>>> ELSE s.out)

Segments(d) ==
  LET s == Detours(d)
  IN Opened(IF s.cur < CaptureEnd \/ s.out = <<>>
            THEN Append(s.out, <<s.cur, CaptureEnd, Hubs[1]>>) ELSE s.out)

-----------------------------------------------------------------------------
(* The event table, of it the sessions that are announced down or up:      *)
(* <<device, session, up or down, time>>.  Near misses announce nothing.   *)

DownUp(ep, session) == {<<session, "down", ep.impact>>, <<session, "up", ep.end>>}

Announced(ep) ==
  IF ep.kind = "hard_negative" THEN {}
  ELSE CASE ep.ft \in {"bgp_flap", "bgp_cascade", "rr_failure"} -> DownUp(ep, "bgp")
         [] ep.ft = "ospf_area_flap" -> DownUp(ep, "ospf")
         [] ep.ft \in {"ldp_session_flap", "mpls_underlay_failure"} -> DownUp(ep, "ldp")
         [] ep.ft \in IfaceDown \ {"mpls_underlay_failure"} ->
              DownUp(ep, "link") \cup {<<"ospf", "down", ep.impact>>}
         [] OTHER -> {}

EventsOf(ep) == {<<ep.dev>> \o a : a \in Announced(ep)}

Events == UNION {EventsOf(ledger[i]) : i \in DOMAIN ledger}

-----------------------------------------------------------------------------
(* The export's join of a label file on real rows, here of this ledger.    *)

(* Mutant: a bucket that ends where the window begins is joined.           *)
JoinsTouching(ep, b) == Epoch(b) + Step >= ep.start /\ Epoch(b) <= ep.end

Joins(ep, b) == Epoch(b) + Step > ep.start /\ Epoch(b) <= ep.end

Joined(ep) == {ep.dev} \X Entities(ep.dev) \X {b \in Times : Joins(ep, b)}

-----------------------------------------------------------------------------
(* The bridge's replay of the finished table (streaming/bridge.py, replay): *)
(* the labels are taken off the rows and become label rows again, one of   *)
(* an episode, with the device and the span of the rows that carry it.     *)

LabelBuckets(i) == {r[3] : r \in dicts[i].rows}
LabelDevice(i) == CHOOSE d \in Devices : \E r \in dicts[i].rows : r[1] = d

(* Mutant: the span is read off the bucket the label is sent in.           *)
ReplaySpanFirst(i) == <<Min(LabelBuckets(i)), Min(LabelBuckets(i))>>

ReplaySpan(i) == <<Min(LabelBuckets(i)), Max(LabelBuckets(i))>>

(* What a consumer labels a window of device d with (consume.py, _overlaps). *)
ReplayLabels(d, t0, t1) ==
  {i \in DOMAIN dicts : /\ dicts[i].rows # {} /\ LabelDevice(i) = d
                        /\ ReplaySpan(i)[1] <= t1 /\ ReplaySpan(i)[2] >= t0}

-----------------------------------------------------------------------------
(* Properties.                                                             *)

(* The state is well formed: label dictionaries and ledger entries pair    *)
(* up, and the hop of a cascade starts from an entry that is there.        *)
TypeOK ==
  /\ stream \in {"F", "N"} /\ pc \in {"roots", "cascade", "negatives", "done"}
  /\ tries \in 0..Roots
  /\ Len(ledger) = Len(dicts)
  /\ (pc = "cascade") => {casc.root, casc.cur} \subseteq DOMAIN ledger
  /\ \A i \in DOMAIN ledger :
       /\ ledger[i].kind \in Kinds \cup {"hard_negative"}
       /\ ledger[i].start \in 0..CaptureEnd /\ ledger[i].start < ledger[i].end
       /\ dicts[i].rows \subseteq Rows(ledger[i], Entities(ledger[i].dev))
  /\ \A kind \in Kinds : active[kind] \subseteq Devices \X Times
  /\ \A x \in Devices \X Interfaces : octets[x] \in [Times -> Nat]
  /\ ops \subseteq Devices \X Physical \X Times

(* Whatever faults and surges overlap on an interface, and in whatever     *)
(* order they were laid down, its octet counter never steps back, and it   *)
(* stands still in every bucket an outage covers: perturbations compose as *)
(* changes of the rate (synthetic/generate.py, _counter_adjust).           *)
CountersComposeAsRates ==
  \A x \in Devices \X Interfaces, b \in Times \ {0} :
    /\ octets[x][b] >= octets[x][b - 1]
    /\ (\E i \in DOMAIN ledger : /\ ledger[i].kind = "iface_down"
                                 /\ ledger[i].dev = x[1] /\ x[2] \in Physical
                                 /\ Failed(ledger[i], b))
       => octets[x][b] = octets[x][b - 1]

(* The rows of a near miss that is a gap in the collection.                *)
DroppedOut(r) ==
  \E n \in DOMAIN ledger :
    /\ ledger[n].kind = "hard_negative" /\ ledger[n].ft = "collector_dropout"
    /\ r \in Rows(ledger[n], {"device"})

(* A label and a signal come together: every row an episode moves carries  *)
(* its label, and every row it labels strictly inside its window was moved *)
(* by it and shows it still (synthetic/generate.py, "Label ONLY rows a     *)
(* perturbation actually reaches"), but for exactly the device rows inside *)
(* a collection gap drawn later, which keep the label and lose the signal, *)
(* and which the ledger names.  The label mask, the perturbations and the  *)
(* near misses are computed apart.                                         *)
LabelsHaveSignals ==
  \A i \in DOMAIN ledger :
    ledger[i].kind # "hard_negative" =>
      /\ Moved(ledger[i]) \subseteq dicts[i].rows
      /\ \A r \in dicts[i].rows :
           Impaired(ledger[i], r[3]) =>
             (r \in Moved(ledger[i]) \ erased <=> ~DroppedOut(r))

(* No row is moved twice by faults of one kind, though roots, hops of      *)
(* cascades and episodes of other kinds share devices and buckets.         *)
KindsDoNotStack ==
  \A i, j \in DOMAIN ledger :
    /\ i # j /\ ledger[i].kind # "hard_negative"
    /\ ledger[i].kind = ledger[j].kind
    => dicts[i].rows \cap dicts[j].rows = {}

(* A finished slice has no row that is a near miss and that a fault moved, *)
(* in whatever order the two were laid down.                               *)
NearMissesAreClean ==
  pc = "done" =>
    \A i \in DOMAIN ledger :
      ledger[i].kind # "hard_negative" => near \cap Moved(ledger[i]) = {}

(* The labels of a cascade can be traced: one root; every other episode    *)
(* hangs on one of the same cascade that started before it, on the same    *)
(* device or a neighbour of it; its first hop stays on the root's device   *)
(* with another kind; and all carry the number of devices hit.             *)
CascadesAreTraceable ==
  pc \notin {"cascade"} =>
    \A m \in {dicts[i].motif : i \in DOMAIN dicts} \ {None} :
      /\ {i \in Motif(m) : dicts[i].parent = None} = {m}
      /\ \A i \in Motif(m) :
           /\ dicts[i].count = Cardinality({ledger[j].dev : j \in Motif(m)})
           /\ i # m =>
                LET p == dicts[i].parent
                IN /\ p \in Motif(m) /\ dicts[p].depth < dicts[i].depth
                   /\ ledger[p].start < ledger[i].start
                   /\ \/ ledger[i].dev \in Adjacent(ledger[p].dev)
                      \/ /\ ledger[i].dev = ledger[p].dev
                         /\ ledger[i].kind # ledger[m].kind

(* The edge table tells of the outages the rows show: an edge's intervals  *)
(* are in order and apart; where it is out, and not at the very impact of  *)
(* an outage, an end of it has all its interfaces down; and an interface   *)
(* is down in a row no near miss flags only where its edges are out, or at *)
(* the very end of an outage.                                              *)
EdgesFollowOutages ==
  pc = "done" =>
    \A e \in Edges :
      LET iv == Validity(e)
          At(t, f(_)) == \E i \in Downing(e) : f(ledger[i]) = t
          Impact(ep) == ep.impact
          End(ep) == ep.end
          Valid(t) == \E n \in DOMAIN iv : Holds(iv[n], t)
      IN /\ \A n \in 1..(Len(iv) - 1) :
              iv[n][1] < iv[n][2] /\ iv[n][2] <= iv[n + 1][1]
         /\ iv[Len(iv)][2] = Null
         /\ \A b \in Times :
              /\ ~Valid(Epoch(b)) /\ ~At(Epoch(b), Impact)
                 => \E d \in e.devices : {d} \X Physical \X {b} \subseteq ops
              /\ (\E d \in e.devices, i \in Physical :
                    <<d, i, b>> \in ops
                    /\ ~\E n \in DOMAIN ledger :
                          /\ ledger[n].kind = "hard_negative"
                          /\ ledger[n].dev = d /\ Inside(ledger[n], b))
                 /\ ~At(Epoch(b), End)
                 => ~Valid(Epoch(b))

(* The path table of a branch covers the capture without gap or overlap,   *)
(* and the branch is off its preferred hub in exactly the buckets between  *)
(* the impact and the end of a ramp on it.                                 *)
PathsFollowRamps ==
  pc = "done" =>
    \A d \in Branches :
      LET segs == Segments(d)
          Hub(t) == {segs[n][3] : n \in {k \in DOMAIN segs : Holds(segs[k], t)}}
      IN /\ segs[1][1] = 0 /\ Last(segs)[2] = Null
         /\ \A n \in 1..(Len(segs) - 1) :
              segs[n][1] < segs[n][2] /\ segs[n][2] = segs[n + 1][1]
         /\ \A b \in Times :
              (Hub(Epoch(b)) # {Hubs[1]})
              <=> \E i \in DOMAIN ledger :
                    /\ ledger[i].dev = d /\ ledger[i].kind = "tunnel_ramp"
                    /\ ledger[i].impact <= Epoch(b) /\ Epoch(b) < ledger[i].end

(* On one device the down and up events of a BGP session or a link         *)
(* alternate, though the writer looks at one episode at a time: two        *)
(* episodes that announce the same session are never at work together.     *)
(* (Of OSPF and LDP this is not so: two kinds of episode announce them.)   *)
SessionsAlternate ==
  \A x, y \in {v \in Events : v[2] \in {"bgp", "link"} /\ v[3] = "down"} :
    x[1] = y[1] /\ x[2] = y[2] /\ x[4] < y[4]
    => \E z \in Events : /\ z[1] = x[1] /\ z[2] = x[2] /\ z[3] = "up"
                         /\ x[4] < z[4] /\ z[4] < y[4]

(* The generator and the export's join label alike: on device rows the     *)
(* same buckets, and no row the generator labels is missed by the join.    *)
JoinsAgree ==
  \A i \in DOMAIN ledger :
    ledger[i].kind # "hard_negative" =>
      /\ dicts[i].rows \subseteq Joined(ledger[i])
      /\ \A r \in Joined(ledger[i]) : r[2] = "device" => r \in dicts[i].rows

(* Recovering the labels from the rows is exact: a consumer of the replay  *)
(* labels a window with the episodes that label a row of its device in it, *)
(* also an episode whose first row lies before the window.                 *)
ReplayIsExact ==
  pc = "done" =>
    \A d \in Devices, t0, t1 \in Times : t0 <= t1 =>
      ReplayLabels(d, t0, t1) =
        {i \in DOMAIN dicts : \E r \in dicts[i].rows :
                                r[1] = d /\ r[3] \in t0..t1}

(* Labels, signals and near misses fit each other, row by row.             *)
LabelsAreExact == LabelsHaveSignals /\ KindsDoNotStack /\ NearMissesAreClean

(* Ledger and label dictionaries stay paired, cascades stay trees.         *)
LedgerIsSound == TypeOK /\ CascadesAreTraceable

(* Edges, paths, events, the export's join and a replay tell of the same   *)
(* outages.                                                                *)
TablesFollowLedger ==
  /\ EdgesFollowOutages /\ PathsFollowRamps /\ SessionsAlternate
  /\ JoinsAgree /\ ReplayIsExact
=============================================================================
