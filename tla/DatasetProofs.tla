----------------------------- MODULE DatasetProofs -----------------------------
(***************************************************************************)
(* Proofs about Dataset, for any inventory, any fault types and timings,   *)
(* any number of episodes, cascades and near misses.                       *)
(***************************************************************************)
EXTENDS Dataset, FiniteSetTheorems, WellFoundedInduction, TLAPS

(* The parameters, one fact at a time.                                     *)
LEMMA Sizes ==
  /\ Step \in Nat /\ Step # 0
  /\ Buckets \in Nat /\ Buckets # 0
  /\ Margin \in Nat /\ Margin # 0 /\ Margin < Buckets
  /\ Roots \in Nat /\ Hops \subseteq Nat
  /\ \A span \in Spans : /\ span[1] \in Nat /\ span[1] # 0
                         /\ span[2] \in Nat /\ span[2] # 0
  /\ Hubs[1] \in HubSet
<1>1. Hubs[1] \in HubSet
  BY DatasetAssumption DEF HubSet, ToSet
<1> QED
  BY <1>1, DatasetAssumption

LEMMA EpochType ==
  ASSUME NEW b \in Nat
  PROVE  /\ Epoch(b) \in Nat
         /\ \A c \in Nat : b <= c => Epoch(b) <= Epoch(c)
         /\ \A c \in Nat : b < c => Epoch(b) < Epoch(c)
<1>1. Epoch(b) \in Nat
  BY Sizes DEF Epoch
<1>2. ASSUME NEW c \in Nat, b < c PROVE Epoch(b) < Epoch(c)
  <2>1. PICK d \in Nat : c = b + d /\ d # 0
    <3>1. c - b \in Nat /\ c - b # 0 /\ c = b + (c - b)
      BY <1>2
    <3> QED
      BY <3>1
  <2>2. (b + d) * Step = b * Step + d * Step
    BY Sizes
  <2>3. d * Step \in Nat /\ d * Step # 0
    BY <2>1, Sizes
  <2>4. b * Step \in Nat
    BY Sizes
  <2> QED
    BY <2>1, <2>2, <2>3, <2>4 DEF Epoch
<1>3. ASSUME NEW c \in Nat, b <= c PROVE Epoch(b) <= Epoch(c)
  <2>1. CASE b = c
    BY <2>1, <1>1
  <2>2. CASE b # c
    <3>1. b < c
      BY <2>2, <1>3
    <3>2. Epoch(c) \in Nat
      BY Sizes DEF Epoch
    <3> QED
      BY <3>1, <3>2, <1>1, <1>2
  <2> QED
    BY <2>1, <2>2
<1> QED
  BY <1>1, <1>2, <1>3

-----------------------------------------------------------------------------
(* What the state is made of.                                              *)

Ents == {"device"} \cup Interfaces \cup HubSet
AllRows == Devices \X Ents \X Times

Entry == [ft : Faults \cup Mechanisms, kind : Kinds \cup {"hard_negative"},
          dev : Devices, ent : {None} \cup HubSet \cup Physical,
          start : Nat, impact : Int, end : Nat,
          depth : Int, parent : Nat, motif : Nat]

Dict == [rows : SUBSET AllRows, depth : Int, parent : Nat, motif : Nat, count : Nat]

Typed ==
  /\ stream \in {"F", "N"} /\ pc \in {"roots", "cascade", "negatives", "done"}
  /\ tries \in 0..Roots
  /\ casc \in [root : Nat, cur : Nat, depth : Nat, hops : Nat]
  /\ (pc = "cascade") => {casc.root, casc.cur} \subseteq DOMAIN ledger
  /\ ledger \in Seq(Entry) /\ dicts \in Seq(Dict)
  /\ Len(ledger) = Len(dicts)
  /\ active \in [Kinds -> SUBSET (Devices \X Times)]
  /\ octets \in [Devices \X Interfaces -> [Times -> Nat]]
  /\ ops \subseteq Devices \X Physical \X Times
  /\ near \subseteq AllRows

(* An entry and its label dictionary are of one fault episode.             *)
IsEpisode(ep, d) ==
  /\ ep.kind = KindOf(ep.ft)
  /\ ep.start < ep.impact /\ ep.impact < ep.end
  /\ \E b \in Times : ep.start = Epoch(b)
  /\ d.rows = LabelRows(ep)

(* An entry and its dictionary are of one near miss.                       *)
IsNearMiss(ep, d) ==
  /\ ep.kind = "hard_negative"
  /\ ep.start < ep.end /\ ep.start <= CaptureEnd
  /\ d.rows = {} /\ d.motif = None /\ d.parent = None

Paired ==
  \A i \in DOMAIN ledger :
    IsEpisode(ledger[i], dicts[i]) \/ IsNearMiss(ledger[i], dicts[i])

(* The lock of a kind covers the windows of its episodes.                  *)
Marked ==
  \A i \in DOMAIN ledger :
    ledger[i].kind # "hard_negative" =>
      {ledger[i].dev} \X Window(ledger[i]) \subseteq active[ledger[i].kind]

(* Entries of one kind that are both at work on a bucket of a device are   *)
(* the same.                                                               *)
Apart ==
  \A i, j \in DOMAIN ledger :
    /\ i # j /\ ledger[i].kind # "hard_negative"
    /\ ledger[i].kind = ledger[j].kind /\ ledger[i].dev = ledger[j].dev
    => Window(ledger[i]) \cap Window(ledger[j]) = {}

(* The flags of a finished slice have been cleared.                        *)
Cleared == pc = "done" => \A r \in near : ~IsFault(r)

(* What a counter has counted, it keeps; where an outage covers a bucket,  *)
(* it counts nothing.                                                      *)
Counting ==
  \A x \in Devices \X Interfaces, b \in Times \ {0} :
    /\ octets[x][b] >= octets[x][b - 1]
    /\ (\E i \in DOMAIN ledger : /\ ledger[i].kind = "iface_down"
                                 /\ ledger[i].dev = x[1] /\ x[2] \in Physical
                                 /\ Failed(ledger[i], b))
       => octets[x][b] = octets[x][b - 1]

(* The tree of every cascade, also of the one under way.                   *)
Hangs(i, m) ==
  LET p == dicts[i].parent
  IN  /\ p \in Motif(m) /\ dicts[p].depth < dicts[i].depth
      /\ ledger[p].start < ledger[i].start
      /\ \/ ledger[i].dev \in Adjacent(ledger[p].dev)
         \/ ledger[i].dev = ledger[p].dev /\ ledger[i].kind # ledger[m].kind

InTree(i) ==
  LET m == dicts[i].motif
  IN  /\ m \in DOMAIN dicts /\ m <= i
      /\ i = m => dicts[i].parent = None
      /\ i # m => dicts[i].parent # None /\ Hangs(i, m)
      /\ dicts[m].motif = m
      /\ \/ pc = "cascade" /\ m = casc.root
         \/ dicts[i].count = MotifDevices(m)

Trees == \A i \in DOMAIN dicts : dicts[i].motif # None => InTree(i)

UnderWay ==
  pc = "cascade" =>
    /\ dicts[casc.root].motif = casc.root
    /\ casc.cur \in Motif(casc.root)
    /\ casc.depth # 0
    /\ dicts[casc.cur].depth < casc.depth
    /\ casc.depth = 1 => casc.cur = casc.root
    /\ ledger[casc.cur].start < ledger[casc.root].start + 2 * Step * casc.depth

DataInv ==
  /\ Typed /\ Paired /\ Marked /\ Apart /\ Cleared /\ Counting /\ Trees /\ UnderWay

-----------------------------------------------------------------------------
(* Counters.  A least counterexample stands for induction over buckets.    *)

LEMMA NatMin ==
  ASSUME NEW T \in SUBSET Nat, T # {}
  PROVE  \E x \in T : \A y \in T : x <= y
<1> DEFINE R == OpToRel(<, Nat)
<1>1. IsWellFoundedOn(R, Nat)
  BY NatLessThanWellFounded
<1> HIDE DEF R
<1>2. PICK x \in T : \A y \in T : <<y, x>> \notin R
  BY <1>1, WFMin
<1>3. \A y \in T : ~ (y < x)
  BY <1>2 DEF R, OpToRel
<1> QED
  BY <1>3

(* What np.cumsum carries by each bucket up to the n-th.                   *)
IsCarried(e, c, by, n) ==
  e = [b \in 0..n |-> IF b = 0 THEN 0 ELSE e[b - 1] + (c[b] - c[b - 1]) * by[b]]

LEMMA CarriedExists ==
  ASSUME NEW c, NEW by, NEW n \in Nat
  PROVE  \E e : IsCarried(e, c, by, n)
<1> DEFINE T == {m \in Nat : ~ \E e : IsCarried(e, c, by, m)}
<1> SUFFICES ASSUME T # {} PROVE FALSE
  OBVIOUS
<1>1. PICK x \in T : \A y \in T : x <= y
  <2>1. T \in SUBSET Nat
    OBVIOUS
  <2> HIDE DEF T
  <2> QED
    BY <2>1, NatMin
<1>2. x \in Nat /\ ~ \E e : IsCarried(e, c, by, x)
  OBVIOUS
<1>3. x # 0
  <2>1. IsCarried([b \in 0..0 |-> 0], c, by, 0)
    BY DEF IsCarried
  <2> QED
    BY <2>1, <1>2
<1>4. x - 1 \in Nat /\ x - 1 < x
  BY <1>2, <1>3
<1>5. PICK e : IsCarried(e, c, by, x - 1)
  <2>1. x - 1 \notin T
    BY <1>1, <1>4
  <2> QED
    BY <1>4, <2>1
<1>6. PICK f : f = [b \in 0..x |-> IF b = x THEN e[x - 1] + (c[x] - c[x - 1]) * by[x]
                                    ELSE e[b]]
  OBVIOUS
<1>7. ASSUME NEW b \in 0..x
      PROVE  f[b] = IF b = 0 THEN 0 ELSE f[b - 1] + (c[b] - c[b - 1]) * by[b]
  <2>1. CASE b = x
    <3>1. x - 1 \in 0..x /\ x - 1 # x /\ f[x - 1] = e[x - 1]
      BY <1>2, <1>4, <1>6
    <3> QED
      BY <2>1, <3>1, <1>2, <1>3, <1>6
  <2>2. CASE b # x
    <3>1. b \in 0..(x - 1) /\ f[b] = e[b]
      BY <2>2, <1>2, <1>6
    <3>2. e[b] = IF b = 0 THEN 0 ELSE e[b - 1] + (c[b] - c[b - 1]) * by[b]
      BY <3>1, <1>5 DEF IsCarried
    <3>3. ASSUME b # 0 PROVE f[b - 1] = e[b - 1]
      <4>1. b - 1 \in 0..x /\ b - 1 # x
        BY <3>3, <1>2
      <4> QED
        BY <4>1, <1>6
    <3> QED
      BY <3>1, <3>2, <3>3
  <2> QED
    BY <2>1, <2>2
<1>8. IsCarried(f, c, by, x)
  BY <1>6, <1>7, Zenon DEF IsCarried
<1> QED
  BY <1>2, <1>8

LEMMA CarriedSteps ==
  ASSUME NEW c, NEW by
  PROVE  /\ Carried(c, by)[0] = 0
         /\ \A b \in Times \ {0} :
              Carried(c, by)[b] = Carried(c, by)[b - 1] + (c[b] - c[b - 1]) * by[b]
<1>1. PICK n \in Nat : n = Buckets - 1
  <2>1. Buckets - 1 \in Nat
    BY Sizes
  <2> QED
    BY <2>1
<1>2. PICK e : e = Carried(c, by)
  OBVIOUS
<1>3. IsCarried(e, c, by, n)
  <2>1. e = CHOOSE f : IsCarried(f, c, by, n)
    BY <1>1, <1>2 DEF Carried, IsCarried, Times
  <2> QED
    BY <2>1, CarriedExists
<1>4. \A b \in 0..n : e[b] = IF b = 0 THEN 0 ELSE e[b - 1] + (c[b] - c[b - 1]) * by[b]
  BY <1>3 DEF IsCarried
<1>5. Times = 0..n /\ 0 \in 0..n
  BY <1>1 DEF Times
<1> QED
  BY <1>2, <1>4, <1>5

(* The increment of an adjusted counter is a multiple of the original's.   *)
LEMMA AdjustedSteps ==
  ASSUME NEW c \in [Times -> Nat], NEW by \in [Times -> {-1, 0, 1}],
         \A b \in Times \ {0} : c[b] >= c[b - 1]
  PROVE  /\ CounterAdjust(c, by) \in [Times -> Nat]
         /\ \A b \in Times \ {0} :
              CounterAdjust(c, by)[b]
                = CounterAdjust(c, by)[b - 1] + (c[b] - c[b - 1]) * (1 + by[b])
<1>1. PICK a, e : a = CounterAdjust(c, by) /\ e = Carried(c, by)
  OBVIOUS
<1>2. a = [b \in Times |-> c[b] + e[b]]
  BY <1>1 DEF CounterAdjust
<1>3. e[0] = 0 /\ \A b \in Times \ {0} : e[b] = e[b - 1] + (c[b] - c[b - 1]) * by[b]
  BY <1>1, CarriedSteps
<1>4. Times \subseteq Nat /\ 0 \in Times /\ \A b \in Times \ {0} : b - 1 \in Times
  BY Sizes DEF Times
<1>5. ASSUME NEW b \in Times \ {0}
      PROVE  (c[b] - c[b - 1]) * by[b] \in Int /\ (c[b] - c[b - 1]) * (1 + by[b]) \in Nat
  <2>1. PICK d \in Nat : d = c[b] - c[b - 1]
    <3>1. c[b] \in Nat /\ c[b - 1] \in Nat /\ c[b] >= c[b - 1]
      BY <1>4
    <3>2. c[b] - c[b - 1] \in Nat
      BY <3>1
    <3> QED
      BY <3>2
  <2>2. PICK k \in {-1, 0, 1} : k = by[b]
    OBVIOUS
  <2>3. d * k \in Int /\ d * (1 + k) \in Nat
    OBVIOUS
  <2> QED
    BY <2>1, <2>2, <2>3
<1> DEFINE T == {b \in Nat : b \in Times /\ e[b] \notin Int}
<1>6. T = {}
  <2> SUFFICES ASSUME T # {} PROVE FALSE
    OBVIOUS
  <2>1. PICK x \in T : \A y \in T : x <= y
    <3>1. T \in SUBSET Nat
      OBVIOUS
    <3> HIDE DEF T
    <3> QED
      BY <3>1, NatMin
  <2>2. x \in Nat /\ x \in Times /\ e[x] \notin Int
    OBVIOUS
  <2>3. x # 0
    BY <2>2, <1>3
  <2>4. x - 1 \in Nat /\ x - 1 < x /\ x - 1 \in Times
    BY <2>2, <2>3, <1>4
  <2>5. e[x - 1] \in Int
    <3>1. x - 1 \notin T
      BY <2>1, <2>4
    <3> QED
      BY <2>4, <3>1
  <2> QED
    BY <2>2, <2>3, <2>5, <1>3, <1>5
<1>7. \A b \in Times : e[b] \in Int /\ a[b] = c[b] + e[b] /\ a[b] \in Int
  BY <1>2, <1>4, <1>6
<1>8. ASSUME NEW b \in Times \ {0}
      PROVE  a[b] = a[b - 1] + (c[b] - c[b - 1]) * (1 + by[b])
  <2>1. PICK p, q \in Nat : p = c[b] /\ q = c[b - 1]
    BY <1>4
  <2>2. PICK k \in {-1, 0, 1} : k = by[b]
    OBVIOUS
  <2>3. PICK u, v \in Int : u = e[b] /\ v = e[b - 1]
    BY <1>4, <1>7
  <2>4. u = v + (p - q) * k
    BY <2>1, <2>2, <2>3, <1>3
  <2>5. p + u = q + v + (p - q) * (1 + k)
    BY <2>4
  <2>6. a[b] = p + u /\ a[b - 1] = q + v
    BY <2>1, <2>3, <1>4, <1>7
  <2> QED
    BY <2>1, <2>2, <2>5, <2>6
<1> DEFINE U == {b \in Nat : b \in Times /\ a[b] \notin Nat}
<1>9. U = {}
  <2> SUFFICES ASSUME U # {} PROVE FALSE
    OBVIOUS
  <2>1. PICK x \in U : \A y \in U : x <= y
    <3>1. U \in SUBSET Nat
      OBVIOUS
    <3> HIDE DEF U
    <3> QED
      BY <3>1, NatMin
  <2>2. x \in Nat /\ x \in Times /\ a[x] \notin Nat
    OBVIOUS
  <2>3. x # 0
    BY <2>2, <1>3, <1>4, <1>7
  <2>4. x - 1 \in Nat /\ x - 1 < x /\ x - 1 \in Times
    BY <2>2, <2>3, <1>4
  <2>5. a[x - 1] \in Nat
    <3>1. x - 1 \notin U
      BY <2>1, <2>4
    <3> QED
      BY <2>4, <3>1
  <2> QED
    BY <2>2, <2>3, <2>5, <1>5, <1>8
<1>10. a \in [Times -> Nat]
  BY <1>2, <1>4, <1>9
<1> QED
  BY <1>1, <1>8, <1>10

-----------------------------------------------------------------------------
(* Rows, windows and episodes.                                             *)

LEMMA RowTypes ==
  ASSUME NEW ep, ep.dev \in Devices
  PROVE  /\ Window(ep) \subseteq Times
         /\ \A ents \in SUBSET Ents : Rows(ep, ents) \subseteq AllRows
         /\ LabelRows(ep) \subseteq Rows(ep, Entities(ep.dev))
         /\ Entities(ep.dev) \subseteq Ents
<1>1. Window(ep) \subseteq Times
  BY DEF Window
<1>2. \A ents \in SUBSET Ents : Rows(ep, ents) \subseteq AllRows
  BY <1>1 DEF Rows, AllRows
<1>3. Entities(ep.dev) \subseteq Ents
  BY DEF Entities, Ents, Tunnels
<1>4. LabelRows(ep) \subseteq Rows(ep, Entities(ep.dev))
  BY DEF LabelRows, Rows, Entities
<1> QED
  BY <1>1, <1>2, <1>3, <1>4

(* Rows are told by the timing, the device and the type of an entry.       *)
LEMMA SameRows ==
  ASSUME NEW e, NEW f, e.ft = f.ft, e.kind = f.kind, e.dev = f.dev,
         e.start = f.start, e.impact = f.impact, e.end = f.end
  PROVE  /\ Window(e) = Window(f) /\ LabelRows(e) = LabelRows(f)
         /\ \A b \in Times : Failed(e, b) = Failed(f, b)
<1>1. Window(e) = Window(f)
  BY DEF Window, Inside
<1>2. \A ents : Rows(e, ents) = Rows(f, ents)
  BY <1>1 DEF Rows
<1>3. LabelRows(e) = LabelRows(f)
  BY <1>2 DEF LabelRows
<1>4. \A b \in Times : Failed(e, b) = Failed(f, b)
  BY DEF Failed
<1> QED
  BY <1>1, <1>3, <1>4

(* A fault episode as DrawRoot and Hop draw it.                            *)
Drawn(ep) ==
  /\ ep \in Entry /\ ep.kind \in Kinds /\ ep.kind = KindOf(ep.ft)
  /\ ep.start < ep.impact /\ ep.impact < ep.end
  /\ \E b \in Nat : ep.start = Epoch(b)

LEMMA EpisodeDrawn ==
  ASSUME NEW ft \in Faults, NEW d \in Devices, NEW b \in Nat, NEW span \in Spans,
         NEW depth \in Nat, NEW parent \in Nat, NEW motif \in Nat
  PROVE  LET ep == Episode(ft, d, Epoch(b), span, depth, parent, motif)
         IN  /\ Drawn(ep)
             /\ ep.ft = ft /\ ep.dev = d /\ ep.start = Epoch(b)
             /\ ep.depth = depth /\ ep.parent = parent /\ ep.motif = motif
<1>1. PICK start \in Nat : start = Epoch(b)
  BY EpochType
<1>2. PICK s, r \in Nat : s = span[1] /\ r = span[2] /\ s # 0 /\ r # 0
  BY Sizes
<1>3. KindOf(ft) \in Kinds
  BY DEF KindOf, Kinds
<1>4. PICK ep : ep = Episode(ft, d, Epoch(b), span, depth, parent, motif)
  OBVIOUS
<1>5. ep = [ft |-> ft, kind |-> KindOf(ft), dev |-> d, ent |-> None,
            start |-> start, impact |-> start + s, end |-> start + s + r,
            depth |-> depth, parent |-> parent, motif |-> motif]
  BY <1>1, <1>2, <1>4 DEF Episode
<1>6. ep \in Entry
  BY <1>2, <1>3, <1>5 DEF Entry
<1>7. ep.start < ep.impact /\ ep.impact < ep.end
  BY <1>2, <1>5
<1> QED
  BY <1>1, <1>3, <1>4, <1>5, <1>6, <1>7 DEF Drawn

(* What has room on its device starts in the capture.                      *)
LEMMA StartsInside ==
  ASSUME NEW ep, Drawn(ep), ~Clash(ep)
  PROVE  /\ \E b \in Times : ep.start = Epoch(b)
         /\ ep.start <= CaptureEnd
         /\ \A b \in Window(ep) : <<ep.dev, b>> \notin active[ep.kind]
<1>1. PICK b \in Nat : ep.start = Epoch(b)
  BY DEF Drawn
<1>2. PICK c \in Window(ep) : TRUE
  BY DEF Clash
<1>3. c \in Times /\ Epoch(b) <= Epoch(c)
  BY <1>1, <1>2 DEF Window, Inside
<1>4. c \in Nat /\ c < Buckets /\ c <= Buckets - 1
  BY <1>3, Sizes DEF Times
<1>5. b <= c
  <2> SUFFICES ASSUME c < b PROVE FALSE
    BY <1>4
  <2>1. Epoch(c) < Epoch(b)
    BY <1>4, EpochType
  <2>2. Epoch(c) \in Nat /\ Epoch(b) \in Nat
    BY <1>4, EpochType
  <2> QED
    BY <2>1, <2>2, <1>3
<1>6. b \in Times
  BY <1>4, <1>5, Sizes DEF Times
<1>7. Epoch(b) <= Epoch(Buckets)
  <2>1. b <= Buckets
    BY <1>4, <1>5, Sizes
  <2> QED
    BY <2>1, EpochType, Sizes
<1>8. CaptureEnd = Epoch(Buckets)
  BY DEF CaptureEnd, Epoch
<1> QED
  BY <1>1, <1>6, <1>7, <1>8 DEF Clash

-----------------------------------------------------------------------------
(* Laying an episode.                                                      *)

(* What a step adds to the ledger: one entry and its dictionary, without   *)
(* a change of the others.                                                 *)
Added(ep, d) ==
  /\ ledger' = Append(ledger, ep) /\ dicts' = Append(dicts, d)
  /\ ep \in Entry /\ d \in Dict

LEMMA AddedFacts ==
  ASSUME Typed, NEW ep, NEW d, Added(ep, d)
  PROVE  /\ ledger' \in Seq(Entry) /\ dicts' \in Seq(Dict)
         /\ Len(ledger) \in Nat /\ Len(dicts) = Len(ledger)
         /\ Len(ledger') = Len(ledger) + 1 /\ Len(dicts') = Len(ledger) + 1
         /\ DOMAIN ledger = 1..Len(ledger) /\ DOMAIN dicts = 1..Len(ledger)
         /\ DOMAIN ledger' = 1..(Len(ledger) + 1)
         /\ DOMAIN dicts' = 1..(Len(ledger) + 1)
         /\ \A i \in 1..Len(ledger) : ledger'[i] = ledger[i] /\ dicts'[i] = dicts[i]
         /\ ledger'[Len(ledger) + 1] = ep /\ dicts'[Len(ledger) + 1] = d
<1>1. PICK n \in Nat : n = Len(ledger) /\ n = Len(dicts)
  BY DEF Typed
<1> QED
  BY <1>1 DEF Added, Typed

(* The entry Place appends for ep, and its dictionary.                     *)
Laid(ep) == [ep EXCEPT !.ent = ScopedEntity(ep)]
Labelled(ep, motif) == [rows |-> LabelRows(ep), depth |-> ep.depth,
                        parent |-> ep.parent, motif |-> motif, count |-> 1]

LEMMA LaidFacts ==
  ASSUME NEW ep, Drawn(ep), NEW motif \in Nat
  PROVE  LET e == Laid(ep)
             d == Labelled(ep, motif)
         IN  /\ e \in Entry /\ d \in Dict
             /\ e.ft = ep.ft /\ e.kind = ep.kind /\ e.dev = ep.dev
             /\ e.start = ep.start /\ e.impact = ep.impact /\ e.end = ep.end
             /\ Window(e) = Window(ep) /\ LabelRows(e) = LabelRows(ep)
             /\ \A b \in Times : Failed(e, b) = Failed(ep, b)
<1>1. PICK e : e = Laid(ep)
  OBVIOUS
<1>2. ep \in Entry /\ ScopedEntity(ep) \in {None} \cup HubSet \cup Physical
  BY Sizes DEF Drawn, ScopedEntity
<1>3. /\ e \in Entry
      /\ e.ft = ep.ft /\ e.kind = ep.kind /\ e.dev = ep.dev
      /\ e.start = ep.start /\ e.impact = ep.impact /\ e.end = ep.end
  BY <1>1, <1>2 DEF Laid, Entry
<1>4. /\ Window(e) = Window(ep) /\ LabelRows(e) = LabelRows(ep)
      /\ \A b \in Times : Failed(e, b) = Failed(ep, b)
  BY <1>3, SameRows
<1>5. Labelled(ep, motif) \in Dict
  <2>1. ep.dev \in Devices /\ ep.depth \in Int /\ ep.parent \in Nat
    BY <1>2 DEF Entry
  <2>2. LabelRows(ep) \in SUBSET AllRows
    BY <2>1, RowTypes
  <2> QED
    BY <2>1, <2>2 DEF Labelled, Dict
<1> QED
  BY <1>1, <1>3, <1>4, <1>5

LEMMA PlaceAdds ==
  ASSUME NEW ep, Drawn(ep), NEW motif \in Nat, Place(ep, motif)
  PROVE  Added(Laid(ep), Labelled(ep, motif))
BY LaidFacts DEF Place, Added, Laid, Labelled

(* Each of the counters is adjusted or left alone.                         *)
LEMMA CountedFacts ==
  ASSUME NEW ep, Drawn(ep), Typed, NEW x \in Devices \X Interfaces
  PROVE  \/ Counted(ep)[x] = octets[x]
         \/ \E by \in [Times -> {-1, 0, 1}] :
              Counted(ep)[x] = CounterAdjust(octets[x], by)
<1>1. Churn(ep) \in [Times -> {-1, 0, 1}] /\ Frozen(ep) \in [Times -> {-1, 0, 1}]
  BY DEF Churn, Frozen
<1>2. CASE x[1] = ep.dev /\ ep.kind = "iface_churn"
  BY <1>1, <1>2 DEF Counted
<1>3. CASE x[1] = ep.dev /\ ep.kind = "iface_down" /\ x[2] \in Physical
  BY <1>1, <1>3 DEF Counted
<1>4. CASE /\ ~ (x[1] = ep.dev /\ ep.kind = "iface_churn")
           /\ ~ (x[1] = ep.dev /\ ep.kind = "iface_down" /\ x[2] \in Physical)
  BY <1>4 DEF Counted
<1> QED
  BY <1>2, <1>3, <1>4

(* An adjustment keeps a counter's type, its order and its halts.          *)
LEMMA AdjustKeeps ==
  ASSUME NEW c \in [Times -> Nat], NEW by \in [Times -> {-1, 0, 1}],
         \A b \in Times \ {0} : c[b] >= c[b - 1]
  PROVE  /\ CounterAdjust(c, by) \in [Times -> Nat]
         /\ \A b \in Times \ {0} :
              /\ CounterAdjust(c, by)[b] >= CounterAdjust(c, by)[b - 1]
              /\ c[b] = c[b - 1] \/ by[b] = -1
                   => CounterAdjust(c, by)[b] = CounterAdjust(c, by)[b - 1]
<1>1. PICK a : a = CounterAdjust(c, by)
  OBVIOUS
<1>2. a \in [Times -> Nat]
  BY <1>1, AdjustedSteps
<1>3. ASSUME NEW b \in Times \ {0}
      PROVE  /\ a[b] >= a[b - 1]
             /\ c[b] = c[b - 1] \/ by[b] = -1 => a[b] = a[b - 1]
  <2>1. b - 1 \in Times
    BY Sizes DEF Times
  <2>2. PICK p, q \in Nat : p = c[b] /\ q = c[b - 1] /\ p >= q
    BY <2>1
  <2>3. PICK k \in {-1, 0, 1} : k = by[b]
    OBVIOUS
  <2>4. a[b] = a[b - 1] + (p - q) * (1 + k)
    BY <1>1, <2>2, <2>3, AdjustedSteps
  <2>5. (p - q) * (1 + k) \in Nat /\ (p = q \/ k = -1 => (p - q) * (1 + k) = 0)
    BY <2>2
  <2>6. a[b] \in Nat /\ a[b - 1] \in Nat
    BY <1>2, <2>1
  <2> QED
    BY <2>2, <2>3, <2>4, <2>5, <2>6
<1> QED
  BY <1>1, <1>2, <1>3

LEMMA PlaceTyped ==
  ASSUME Typed, Counting, NEW ep, Drawn(ep), NEW motif \in Nat, Place(ep, motif)
  PROVE  /\ ledger' \in Seq(Entry) /\ dicts' \in Seq(Dict) /\ Len(ledger') = Len(dicts')
         /\ active' \in [Kinds -> SUBSET (Devices \X Times)]
         /\ octets' \in [Devices \X Interfaces -> [Times -> Nat]]
         /\ ops' \subseteq Devices \X Physical \X Times
<1>1. ep.dev \in Devices /\ ep.kind \in Kinds
  BY DEF Drawn, Entry
<1>2. /\ ledger' \in Seq(Entry) /\ dicts' \in Seq(Dict) /\ Len(ledger') = Len(dicts')
  BY PlaceAdds, AddedFacts
<1>3. Window(ep) \subseteq Times
  BY <1>1, RowTypes
<1>4. active' \in [Kinds -> SUBSET (Devices \X Times)]
  <2>1. active' = [active EXCEPT ![ep.kind] = @ \cup ({ep.dev} \X Window(ep))]
    BY DEF Place, Mark
  <2>2. {ep.dev} \X Window(ep) \subseteq Devices \X Times
    BY <1>1, <1>3
  <2>3. active[ep.kind] \cup ({ep.dev} \X Window(ep)) \in SUBSET (Devices \X Times)
    BY <1>1, <2>2 DEF Typed
  <2> QED
    BY <2>1, <2>3 DEF Typed
<1>5. octets' \in [Devices \X Interfaces -> [Times -> Nat]]
  <2>1. octets' = Counted(ep)
    BY DEF Place
  <2>2. ASSUME NEW x \in Devices \X Interfaces PROVE Counted(ep)[x] \in [Times -> Nat]
    <3>1. octets[x] \in [Times -> Nat] /\ \A b \in Times \ {0} : octets[x][b] >= octets[x][b - 1]
      BY DEF Typed, Counting
    <3> QED
      BY <3>1, CountedFacts, AdjustKeeps
  <2>3. \E f : Counted(ep) = [x \in Devices \X Interfaces |-> f[x]]
    <3>1. Counted(ep) = [x \in Devices \X Interfaces |-> Counted(ep)[x]]
      BY DEF Counted
    <3> QED
      BY <3>1
  <2> QED
    BY <2>1, <2>2, <2>3
<1>6. ops' \subseteq Devices \X Physical \X Times
  <2>1. Downed(ep) \subseteq Devices \X Physical \X Times
    BY <1>1, <1>3 DEF Downed, Rows
  <2> QED
    BY <2>1 DEF Place, Typed
<1> QED
  BY <1>2, <1>4, <1>5, <1>6

LEMMA PairedAdded ==
  ASSUME Typed, Paired, NEW e, NEW d, Added(e, d), IsEpisode(e, d) \/ IsNearMiss(e, d)
  PROVE  Paired'
<1>1. ASSUME NEW i \in DOMAIN ledger'
      PROVE  IsEpisode(ledger'[i], dicts'[i]) \/ IsNearMiss(ledger'[i], dicts'[i])
  <2>1. CASE i \in 1..Len(ledger)
    BY <2>1, AddedFacts DEF Paired
  <2>2. CASE i \notin 1..Len(ledger)
    <3>1. i = Len(ledger) + 1
      BY <2>2, AddedFacts
    <3> QED
      BY <3>1, AddedFacts
  <2> QED
    BY <2>1, <2>2
<1> QED
  BY <1>1 DEF Paired

LEMMA LaidIsEpisode ==
  ASSUME NEW ep, Drawn(ep), ~Clash(ep), NEW motif \in Nat
  PROVE  IsEpisode(Laid(ep), Labelled(ep, motif))
<1>1. PICK e, d : e = Laid(ep) /\ d = Labelled(ep, motif)
  OBVIOUS
<1>2. /\ e.ft = ep.ft /\ e.kind = ep.kind /\ e.dev = ep.dev
      /\ e.start = ep.start /\ e.impact = ep.impact /\ e.end = ep.end
      /\ LabelRows(e) = LabelRows(ep)
  BY <1>1, LaidFacts
<1>3. d.rows = LabelRows(e)
  BY <1>1, <1>2 DEF Labelled
<1>4. \E b \in Times : e.start = Epoch(b)
  BY <1>2, StartsInside
<1>5. e.kind = KindOf(e.ft) /\ e.start < e.impact /\ e.impact < e.end
  BY <1>2 DEF Drawn
<1> QED
  BY <1>1, <1>3, <1>4, <1>5 DEF IsEpisode

(* The kinds of episodes, and of near misses.                              *)
LEMMA EntryKinds ==
  ASSUME Typed, Paired, NEW i \in DOMAIN ledger
  PROVE  /\ ledger[i] \in Entry /\ ledger[i].dev \in Devices
         /\ ledger[i].kind \in Kinds \cup {"hard_negative"}
         /\ ledger[i].kind # "hard_negative" <=> IsEpisode(ledger[i], dicts[i])
         /\ ledger[i].kind # "hard_negative" <=> ledger[i].kind \in Kinds
<1>1. ledger[i] \in Entry
  BY DEF Typed
<1>2. IsEpisode(ledger[i], dicts[i]) => ledger[i].kind \in Kinds
  BY DEF IsEpisode, KindOf, Kinds
<1>3. "hard_negative" \notin Kinds
  BY DEF Kinds
<1>4. IsNearMiss(ledger[i], dicts[i]) => ledger[i].kind = "hard_negative"
  BY DEF IsNearMiss
<1> QED
  BY <1>1, <1>2, <1>3, <1>4 DEF Paired, Entry

LEMMA PlaceMarked ==
  ASSUME Typed, Paired, Marked, Apart, NEW ep, Drawn(ep), ~Clash(ep),
         NEW motif \in Nat, Place(ep, motif)
  PROVE  Marked' /\ Apart'
<1>1. PICK e, d, n : e = Laid(ep) /\ d = Labelled(ep, motif) /\ n = Len(ledger)
  OBVIOUS
<1>2. /\ n \in Nat /\ DOMAIN ledger = 1..n /\ DOMAIN ledger' = 1..(n + 1)
      /\ \A i \in 1..n : ledger'[i] = ledger[i]
      /\ ledger'[n + 1] = e
  BY <1>1, PlaceAdds, AddedFacts
<1>3. ep.kind \in Kinds
  BY DEF Drawn
<1>4. /\ \A k \in Kinds : active[k] \subseteq active'[k]
      /\ {ep.dev} \X Window(ep) \subseteq active'[ep.kind]
  BY <1>3 DEF Place, Mark, Typed
<1>5. e.kind = ep.kind /\ e.dev = ep.dev /\ Window(e) = Window(ep)
  BY <1>1, LaidFacts
<1>6. Marked'
  <2>1. ASSUME NEW i \in DOMAIN ledger', ledger'[i].kind # "hard_negative"
        PROVE  {ledger'[i].dev} \X Window(ledger'[i]) \subseteq active'[ledger'[i].kind]
    <3>1. CASE i \in 1..n
      <4>1. ledger'[i] = ledger[i] /\ ledger[i].kind \in Kinds
        BY <2>1, <3>1, <1>2, EntryKinds
      <4>2. {ledger[i].dev} \X Window(ledger[i]) \subseteq active[ledger[i].kind]
        BY <2>1, <3>1, <4>1, <1>2 DEF Marked
      <4> QED
        BY <4>1, <4>2, <1>4
    <3>2. CASE i \notin 1..n
      <4>1. ledger'[i] = e
        BY <2>1, <3>2, <1>2
      <4> QED
        BY <4>1, <1>4, <1>5
    <3> QED
      BY <3>1, <3>2
  <2> QED
    BY <2>1 DEF Marked
<1>7. ASSUME NEW i \in 1..n, ledger[i].kind = ep.kind, ledger[i].dev = ep.dev
      PROVE  Window(ledger[i]) \cap Window(ep) = {}
  <2>1. {ep.dev} \X Window(ledger[i]) \subseteq active[ep.kind]
    <3>1. i \in DOMAIN ledger /\ ledger[i].kind # "hard_negative"
      BY <1>2, <1>3, <1>7 DEF Kinds
    <3> QED
      BY <1>7, <3>1 DEF Marked
  <2>2. \A b \in Window(ep) : <<ep.dev, b>> \notin active[ep.kind]
    BY StartsInside
  <2> QED
    BY <2>1, <2>2
<1>8. Apart'
  <2>1. ASSUME NEW i \in DOMAIN ledger', NEW j \in DOMAIN ledger', i # j,
               ledger'[i].kind # "hard_negative", ledger'[i].kind = ledger'[j].kind,
               ledger'[i].dev = ledger'[j].dev
        PROVE  Window(ledger'[i]) \cap Window(ledger'[j]) = {}
    <3>1. CASE i \in 1..n /\ j \in 1..n
      <4>1. ledger'[i] = ledger[i] /\ ledger'[j] = ledger[j]
        BY <3>1, <1>2
      <4> QED
        BY <4>1, <3>1, <2>1, <1>2 DEF Apart
    <3>2. CASE i \in 1..n /\ j \notin 1..n
      <4>1. ledger'[i] = ledger[i] /\ ledger'[j] = e
        BY <2>1, <3>2, <1>2
      <4> QED
        BY <4>1, <3>2, <2>1, <1>5, <1>7
    <3>3. CASE i \notin 1..n /\ j \in 1..n
      <4>1. ledger'[i] = e /\ ledger'[j] = ledger[j]
        BY <2>1, <3>3, <1>2
      <4>2. Window(ledger[j]) \cap Window(ep) = {}
        BY <4>1, <3>3, <2>1, <1>5, <1>7
      <4> QED
        BY <4>1, <4>2, <1>5
    <3>4. CASE i \notin 1..n /\ j \notin 1..n
      BY <2>1, <3>4, <1>2
    <3> QED
      BY <3>1, <3>2, <3>3, <3>4
  <2> QED
    BY <2>1 DEF Apart
<1> QED
  BY <1>6, <1>8

LEMMA PlaceCounting ==
  ASSUME Typed, Counting, NEW ep, Drawn(ep), NEW motif \in Nat, Place(ep, motif)
  PROVE  Counting'
<1>1. PICK e, d, n : e = Laid(ep) /\ d = Labelled(ep, motif) /\ n = Len(ledger)
  OBVIOUS
<1>2. /\ n \in Nat /\ DOMAIN ledger = 1..n /\ DOMAIN ledger' = 1..(n + 1)
      /\ \A i \in 1..n : ledger'[i] = ledger[i]
      /\ ledger'[n + 1] = e
  BY <1>1, PlaceAdds, AddedFacts
<1>3. e.kind = ep.kind /\ e.dev = ep.dev /\ \A b \in Times : Failed(e, b) = Failed(ep, b)
  BY <1>1, LaidFacts
<1>4. octets' = Counted(ep)
  BY DEF Place
<1>5. ASSUME NEW x \in Devices \X Interfaces, NEW b \in Times \ {0}
      PROVE  /\ Counted(ep)[x][b] >= Counted(ep)[x][b - 1]
             /\ octets[x][b] = octets[x][b - 1]
                  => Counted(ep)[x][b] = Counted(ep)[x][b - 1]
  <2>1. octets[x] \in [Times -> Nat] /\ \A u \in Times \ {0} : octets[x][u] >= octets[x][u - 1]
    BY DEF Typed, Counting
  <2> QED
    BY <2>1, CountedFacts, AdjustKeeps
<1>6. ASSUME NEW x \in Devices \X Interfaces, NEW b \in Times \ {0},
             ep.kind = "iface_down", ep.dev = x[1], x[2] \in Physical, Failed(ep, b)
      PROVE  Counted(ep)[x][b] = Counted(ep)[x][b - 1]
  <2>1. Counted(ep)[x] = CounterAdjust(octets[x], Frozen(ep))
    BY <1>6 DEF Counted
  <2>2. Frozen(ep) \in [Times -> {-1, 0, 1}] /\ Frozen(ep)[b] = -1
    BY <1>6 DEF Frozen
  <2>3. octets[x] \in [Times -> Nat] /\ \A u \in Times \ {0} : octets[x][u] >= octets[x][u - 1]
    BY DEF Typed, Counting
  <2> QED
    BY <2>1, <2>2, <2>3, AdjustKeeps
<1>7. ASSUME NEW x \in Devices \X Interfaces, NEW b \in Times \ {0},
             NEW i \in DOMAIN ledger', ledger'[i].kind = "iface_down",
             ledger'[i].dev = x[1], x[2] \in Physical, Failed(ledger'[i], b)
      PROVE  Counted(ep)[x][b] = Counted(ep)[x][b - 1]
  <2>1. CASE i \in 1..n
    <3>1. ledger'[i] = ledger[i] /\ i \in DOMAIN ledger
      BY <2>1, <1>2
    <3>2. octets[x][b] = octets[x][b - 1]
      BY <3>1, <1>7 DEF Counting
    <3> QED
      BY <3>2, <1>5
  <2>2. CASE i \notin 1..n
    <3>1. ledger'[i] = e
      BY <2>2, <1>2, <1>7
    <3> QED
      BY <3>1, <1>3, <1>6, <1>7
  <2> QED
    BY <2>1, <2>2
<1> QED
  BY <1>4, <1>5, <1>7 DEF Counting

-----------------------------------------------------------------------------
(* The trees of cascades.                                                  *)

LEMMA AddedMotifs ==
  ASSUME Typed, NEW e, NEW d, Added(e, d), NEW m
  PROVE  /\ Motif(m) \subseteq Motif(m)'
         /\ Motif(m)' \subseteq Motif(m) \cup {Len(ledger) + 1}
         /\ d.motif # m => /\ Motif(m)' = Motif(m)
                           /\ MotifDevices(m)' = MotifDevices(m)
<1>1. PICK n : n = Len(ledger)
  OBVIOUS
<1>2. /\ n \in Nat /\ DOMAIN dicts = 1..n /\ DOMAIN dicts' = 1..(n + 1)
      /\ \A i \in 1..n : ledger'[i] = ledger[i] /\ dicts'[i] = dicts[i]
      /\ dicts'[n + 1] = d
  BY <1>1, AddedFacts
<1>3. /\ Motif(m) \subseteq Motif(m)'
      /\ Motif(m)' \subseteq Motif(m) \cup {n + 1}
  BY <1>2 DEF Motif
<1>4. ASSUME d.motif # m PROVE Motif(m)' = Motif(m)
  BY <1>2, <1>4 DEF Motif
<1>5. ASSUME d.motif # m PROVE MotifDevices(m)' = MotifDevices(m)
  <2>1. Motif(m) \subseteq 1..n
    BY <1>2 DEF Motif
  <2>2. {ledger'[i].dev : i \in Motif(m)'} = {ledger[i].dev : i \in Motif(m)}
    BY <2>1, <1>2, <1>4, <1>5
  <2> QED
    BY <2>2 DEF MotifDevices
<1> QED
  BY <1>1, <1>3, <1>4, <1>5

(* A place in a tree stays one when an entry is added anywhere.            *)
LEMMA HangsStill ==
  ASSUME Typed, NEW e, NEW d, Added(e, d), NEW i \in DOMAIN dicts, NEW m \in DOMAIN dicts,
         Hangs(i, m)
  PROVE  Hangs(i, m)'
<1>1. PICK n : n = Len(ledger)
  OBVIOUS
<1>2. /\ DOMAIN dicts = 1..n /\ i \in 1..n /\ m \in 1..n
      /\ \A k \in 1..n : ledger'[k] = ledger[k] /\ dicts'[k] = dicts[k]
  BY <1>1, AddedFacts
<1>3. PICK p : p = dicts[i].parent
  OBVIOUS
<1>4. p \in Motif(m) /\ p \in 1..n
  BY <1>2, <1>3 DEF Hangs, Motif
<1>5. p = dicts'[i].parent /\ p \in Motif(m)'
  BY <1>2, <1>3, <1>4, AddedMotifs
<1> QED
  BY <1>2, <1>3, <1>4, <1>5 DEF Hangs

(* A tree stays one: only the cascade under way is added to.               *)
LEMMA TreeStill ==
  ASSUME Typed, Trees, NEW e, NEW d, Added(e, d), NEW i \in DOMAIN dicts,
         dicts[i].motif # None,
         d.motif # dicts[i].motif \/ (pc = "cascade" /\ dicts[i].motif = casc.root),
         pc = "cascade" => pc' = "cascade" /\ casc'.root = casc.root
  PROVE  InTree(i)'
<1>1. PICK n, m : n = Len(ledger) /\ m = dicts[i].motif
  OBVIOUS
<1>2. /\ n \in Nat /\ DOMAIN dicts = 1..n /\ DOMAIN dicts' = 1..(n + 1)
      /\ \A k \in 1..n : dicts'[k] = dicts[k]
  BY <1>1, AddedFacts
<1>3. /\ m \in DOMAIN dicts /\ m <= i
      /\ i = m => dicts[i].parent = None
      /\ i # m => dicts[i].parent # None /\ Hangs(i, m)
      /\ dicts[m].motif = m
      /\ \/ pc = "cascade" /\ m = casc.root
         \/ dicts[i].count = MotifDevices(m)
  BY <1>1 DEF Trees, InTree
<1>4. i # m => Hangs(i, m)'
  BY <1>3, HangsStill
<1>5. \/ pc = "cascade" /\ m = casc.root
      \/ dicts[i].count = MotifDevices(m)'
  <2>1. d.motif # m => MotifDevices(m)' = MotifDevices(m)
    BY AddedMotifs
  <2> QED
    BY <1>1, <1>3, <2>1
<1>6. dicts'[i] = dicts[i] /\ m \in DOMAIN dicts' /\ dicts'[m] = dicts[m]
  BY <1>2, <1>3
<1> QED
  BY <1>1, <1>3, <1>4, <1>5, <1>6 DEF InTree

LEMMA TreesAdded ==
  ASSUME Typed, Trees, NEW e, NEW d, Added(e, d),
         \A i \in DOMAIN dicts :
           \/ dicts[i].motif = None \/ d.motif # dicts[i].motif
           \/ pc = "cascade" /\ dicts[i].motif = casc.root,
         pc = "cascade" => pc' = "cascade" /\ casc'.root = casc.root,
         d.motif = None \/ \E n : n = Len(ledger) /\ InTree(n + 1)'
  PROVE  Trees'
<1>1. PICK n : n = Len(ledger) /\ (d.motif = None \/ InTree(n + 1)')
  OBVIOUS
<1>2. /\ n \in Nat /\ DOMAIN dicts = 1..n /\ DOMAIN dicts' = 1..(n + 1)
      /\ \A k \in 1..n : dicts'[k] = dicts[k]
      /\ dicts'[n + 1] = d
  BY <1>1, AddedFacts
<1>3. ASSUME NEW i \in DOMAIN dicts', dicts'[i].motif # None PROVE InTree(i)'
  <2>1. CASE i \in 1..n
    BY <2>1, <1>2, <1>3, TreeStill
  <2>2. CASE i \notin 1..n
    <3>1. i = n + 1
      BY <2>2, <1>2, <1>3
    <3> QED
      BY <3>1, <1>1, <1>2, <1>3
  <2> QED
    BY <2>1, <2>2
<1> QED
  BY <1>3 DEF Trees

(* An entry outside every cascade leaves the trees as they are.            *)
LEMMA TreesBeside ==
  ASSUME Typed, Trees, NEW e, NEW d, Added(e, d), d.motif = None,
         pc = "cascade" => pc' = "cascade" /\ casc'.root = casc.root
  PROVE  Trees'
<1>1. PICK n : n = Len(ledger)
  OBVIOUS
<1>2. /\ n \in Nat /\ DOMAIN dicts = 1..n /\ DOMAIN dicts' = 1..(n + 1)
      /\ \A k \in 1..n : dicts'[k] = dicts[k]
      /\ dicts'[n + 1] = d
  BY <1>1, AddedFacts
<1>3. ASSUME NEW i \in DOMAIN dicts', dicts'[i].motif # None PROVE InTree(i)'
  <2>1. i \in DOMAIN dicts /\ dicts[i].motif # None
    BY <1>2, <1>3
  <2>2. d.motif # dicts[i].motif
    BY <2>1
  <2> QED
    BY <2>1, <2>2, TreeStill
<1> QED
  BY <1>3 DEF Trees

-----------------------------------------------------------------------------
(* The steps of the generator.                                             *)

(* What Place does, to all but the trees.                                  *)
LEMMA PlaceKeeps ==
  ASSUME DataInv, NEW ep, Drawn(ep), ~Clash(ep), NEW motif \in Nat, Place(ep, motif)
  PROVE  /\ Added(Laid(ep), Labelled(ep, motif))
         /\ ledger' \in Seq(Entry) /\ dicts' \in Seq(Dict) /\ Len(ledger') = Len(dicts')
         /\ active' \in [Kinds -> SUBSET (Devices \X Times)]
         /\ octets' \in [Devices \X Interfaces -> [Times -> Nat]]
         /\ ops' \subseteq Devices \X Physical \X Times
         /\ Paired' /\ Marked' /\ Apart' /\ Counting'
BY PlaceAdds, PlaceTyped, PairedAdded, LaidIsEpisode, PlaceMarked, PlaceCounting DEF DataInv

(* What a step that lays nothing leaves as it is.                          *)
LEMMA LedgerFrame ==
  ASSUME DataInv, UNCHANGED <<ledger, dicts, active, octets>>
  PROVE  Paired' /\ Marked' /\ Apart' /\ Counting'
<1>1. Paired' /\ Marked' /\ Apart'
  BY DEF DataInv, Paired, Marked, Apart
<1>2. Counting'
  BY DEF DataInv, Counting
<1> QED
  BY <1>1, <1>2

LEMMA TreesFrame ==
  ASSUME Trees, UNCHANGED <<ledger, dicts>>,
         pc = "cascade" => pc' = "cascade" /\ casc'.root = casc.root
  PROVE  Trees'
<1>1. \A m : Motif(m)' = Motif(m)
  BY DEF Motif
<1>2. \A m : MotifDevices(m)' = MotifDevices(m)
  BY <1>1 DEF MotifDevices
<1>3. \A i, m : Hangs(i, m) => Hangs(i, m)'
  BY <1>1 DEF Hangs
<1>4. ASSUME NEW i \in DOMAIN dicts, InTree(i) PROVE InTree(i)'
  BY <1>2, <1>3, <1>4 DEF InTree
<1> QED
  BY <1>4 DEF Trees

LEMMA StutterKeeps == ASSUME DataInv, UNCHANGED vars PROVE DataInv'
<1>1. Paired' /\ Marked' /\ Apart' /\ Counting' /\ Trees'
  BY LedgerFrame, TreesFrame DEF vars, DataInv
<1>2. Typed' /\ Cleared' /\ UnderWay'
  BY DEF vars, DataInv, Typed, Cleared, IsFault, UnderWay, Motif
<1> QED
  BY <1>1, <1>2 DEF DataInv

LEMMA InitKeeps == Init => DataInv
<1> SUFFICES ASSUME Init PROVE DataInv
  OBVIOUS
<1>1. Typed
  <2>1. casc \in [root : Nat, cur : Nat, depth : Nat, hops : Nat]
    BY DEF Init, NoCascade, None
  <2>2. ledger \in Seq(Entry) /\ dicts \in Seq(Dict) /\ Len(ledger) = Len(dicts)
    BY DEF Init
  <2>3. octets \in [Devices \X Interfaces -> [Times -> Nat]]
    BY Sizes DEF Init, Times
  <2>4. active \in [Kinds -> SUBSET (Devices \X Times)]
    BY DEF Init
  <2>5. pc \in {"roots", "negatives"} /\ stream \in {"F", "N"}
    BY DEF Init
  <2> QED
    BY <2>1, <2>2, <2>3, <2>4, <2>5, Sizes DEF Init, Typed
<1>2. DOMAIN ledger = {} /\ DOMAIN dicts = {}
  BY DEF Init
<1>3. Paired /\ Marked /\ Apart /\ Trees
  BY <1>2 DEF Paired, Marked, Apart, Trees
<1>4. pc # "cascade" /\ pc # "done"
  BY DEF Init
<1>5. Cleared /\ UnderWay
  BY <1>4 DEF Cleared, UnderWay
<1>6. Counting
  <2>1. ASSUME NEW x \in Devices \X Interfaces, NEW b \in Times \ {0}
        PROVE  octets[x][b] >= octets[x][b - 1]
    <3>1. b \in Nat /\ b - 1 \in Times
      BY Sizes DEF Times
    <3>2. octets[x][b] = b /\ octets[x][b - 1] = b - 1
      BY <3>1 DEF Init
    <3> QED
      BY <3>1, <3>2
  <2> QED
    BY <2>1, <1>2 DEF Counting
<1> QED
  BY <1>1, <1>3, <1>5, <1>6 DEF DataInv

(* Drawing a root: nothing, an episode of its own, or the seed of a        *)
(* cascade that is the only one of its motif.                              *)
LEMMA DrawRootKeeps == ASSUME DataInv, DrawRoot PROVE DataInv'
<1>1. /\ pc = "roots" /\ tries' = tries + 1 /\ tries < Roots
      /\ UNCHANGED <<stream, near>>
  BY DEF DrawRoot
<1>2. PICK ft \in Faults, d \in Devices, b \in Nat, span \in Spans :
        LET ep == Episode(ft, d, Epoch(b), span, 0, None, None)
            n == Len(ledger)
        IN  \/ Clash(ep) /\ UNCHANGED <<pc, casc, ledger, dicts, active, octets, ops>>
            \/ /\ ~Clash(ep)
               /\ \/ Place(ep, None) /\ UNCHANGED <<pc, casc>>
                  \/ /\ Place(ep, n + 1) /\ pc' = "cascade"
                     /\ \E h \in Hops : casc' = [root |-> n + 1, cur |-> n + 1,
                                                 depth |-> 1, hops |-> h]
  <2>1. \A ft \in Faults : Targets(ft) \subseteq Devices
    BY DEF Targets, Devices, Ces
  <2> QED
    BY <2>1 DEF DrawRoot
<1> DEFINE e0 == Episode(ft, d, Epoch(b), span, 0, None, None)
<1>3. PICK ep, n :
        /\ ep = e0 /\ n = Len(ledger)
        /\ \/ Clash(ep) /\ UNCHANGED <<pc, casc, ledger, dicts, active, octets, ops>>
           \/ /\ ~Clash(ep)
              /\ \/ Place(ep, None) /\ UNCHANGED <<pc, casc>>
                 \/ /\ Place(ep, n + 1) /\ pc' = "cascade"
                    /\ \E h \in Hops : casc' = [root |-> n + 1, cur |-> n + 1,
                                                depth |-> 1, hops |-> h]
  BY <1>2
<1>4. Typed /\ Trees
  BY DEF DataInv
<1>5. tries' \in 0..Roots
  BY <1>1, <1>4, Sizes DEF Typed
<1>6. n \in Nat /\ DOMAIN dicts = 1..n /\ Len(dicts) = n /\ DOMAIN ledger = 1..n
  BY <1>3, <1>4 DEF Typed
<1>7. Drawn(ep) /\ ep.depth = 0 /\ ep.parent = None
  BY <1>3, EpisodeDrawn DEF None
<1>8. CASE Clash(ep)
  <2>1. UNCHANGED <<pc, casc, ledger, dicts, active, octets, ops>>
    BY <1>3, <1>8
  <2>2. Paired' /\ Marked' /\ Apart' /\ Counting' /\ Trees'
    BY <2>1, <1>4, LedgerFrame, TreesFrame
  <2>3. Typed' /\ Cleared' /\ UnderWay'
    BY <2>1, <1>1, <1>4, <1>5 DEF Typed, Cleared, UnderWay
  <2> QED
    BY <2>2, <2>3 DEF DataInv
<1>9. CASE ~Clash(ep) /\ Place(ep, None) /\ UNCHANGED <<pc, casc>>
  <2>1. /\ Added(Laid(ep), Labelled(ep, None))
        /\ ledger' \in Seq(Entry) /\ dicts' \in Seq(Dict) /\ Len(ledger') = Len(dicts')
        /\ active' \in [Kinds -> SUBSET (Devices \X Times)]
        /\ octets' \in [Devices \X Interfaces -> [Times -> Nat]]
        /\ ops' \subseteq Devices \X Physical \X Times
        /\ Paired' /\ Marked' /\ Apart' /\ Counting'
    BY <1>7, <1>9, PlaceKeeps DEF None
  <2>2. PICK e, l : e = Laid(ep) /\ l = Labelled(ep, None)
    OBVIOUS
  <2>3. Trees'
    <3>1. l.motif = None
      BY <2>2 DEF Labelled
    <3>2. Added(e, l)
      BY <2>1, <2>2
    <3>3. pc # "cascade"
      BY <1>1
    <3> QED
      BY <3>1, <3>2, <3>3, <1>4, TreesBeside
  <2>4. Typed' /\ Cleared' /\ UnderWay'
    BY <2>1, <1>1, <1>4, <1>5, <1>9 DEF Typed, Cleared, UnderWay
  <2> QED
    BY <2>1, <2>3, <2>4 DEF DataInv
<1>10. CASE /\ ~Clash(ep) /\ Place(ep, n + 1) /\ pc' = "cascade"
           /\ \E h \in Hops : casc' = [root |-> n + 1, cur |-> n + 1,
                                       depth |-> 1, hops |-> h]
  <2>1. /\ Added(Laid(ep), Labelled(ep, n + 1))
        /\ ledger' \in Seq(Entry) /\ dicts' \in Seq(Dict) /\ Len(ledger') = Len(dicts')
        /\ active' \in [Kinds -> SUBSET (Devices \X Times)]
        /\ octets' \in [Devices \X Interfaces -> [Times -> Nat]]
        /\ ops' \subseteq Devices \X Physical \X Times
        /\ Paired' /\ Marked' /\ Apart' /\ Counting'
    <3>1. PICK m \in Nat : m = n + 1
      BY <1>6
    <3>2. ~Clash(ep) /\ Place(ep, m)
      BY <1>10, <3>1
    <3>3. /\ Added(Laid(ep), Labelled(ep, m))
          /\ ledger' \in Seq(Entry) /\ dicts' \in Seq(Dict) /\ Len(ledger') = Len(dicts')
          /\ active' \in [Kinds -> SUBSET (Devices \X Times)]
          /\ octets' \in [Devices \X Interfaces -> [Times -> Nat]]
          /\ ops' \subseteq Devices \X Physical \X Times
          /\ Paired' /\ Marked' /\ Apart' /\ Counting'
      BY <1>7, <3>2, PlaceKeeps
    <3> QED
      BY <3>1, <3>3
  <2>2. PICK h \in Nat : casc' = [root |-> n + 1, cur |-> n + 1, depth |-> 1, hops |-> h]
    BY <1>10, Sizes
  <2>3. PICK l : l = Labelled(ep, n + 1)
    OBVIOUS
  <2>4. l.motif = n + 1 /\ l.parent = None /\ l.depth = 0
    BY <2>3, <1>7 DEF Labelled
  <2>5. /\ DOMAIN dicts' = 1..(n + 1) /\ dicts'[n + 1] = l
        /\ DOMAIN ledger' = 1..(n + 1) /\ ledger'[n + 1] \in Entry
    BY <2>1, <2>3, <1>3, <1>4, AddedFacts
  <2>6. InTree(n + 1)'
    BY <2>2, <2>4, <2>5, <1>6, <1>10 DEF InTree
  <2>7. \A i \in DOMAIN dicts : dicts[i].motif = None \/ l.motif # dicts[i].motif
    <3>1. ASSUME NEW i \in DOMAIN dicts, dicts[i].motif # None PROVE dicts[i].motif # n + 1
      BY <3>1, <1>4, <1>6 DEF Trees, InTree
    <3> QED
      BY <3>1, <2>4
  <2>8. Trees'
    BY <2>1, <2>3, <2>6, <2>7, <1>1, <1>3, <1>4, TreesAdded
  <2>9. UnderWay'
    <3>1. /\ casc'.root = n + 1 /\ casc'.cur = n + 1 /\ casc'.depth = 1
      BY <2>2
    <3>2. n + 1 \in Motif(n + 1)'
      BY <2>4, <2>5, <1>6 DEF Motif
    <3>3. ledger'[n + 1].start < ledger'[n + 1].start + 2 * Step * 1
      <4>1. PICK s \in Nat : s = ledger'[n + 1].start
        BY <2>5 DEF Entry
      <4> QED
        BY <4>1, Sizes
    <3> QED
      BY <3>1, <3>2, <3>3, <2>4, <2>5 DEF UnderWay
  <2>10. Typed'
    <3>1. casc' \in [root : Nat, cur : Nat, depth : Nat, hops : Nat]
      BY <2>2, <1>6
    <3>2. {casc'.root, casc'.cur} \subseteq DOMAIN ledger'
      BY <2>2, <2>5, <1>6
    <3> QED
      BY <2>1, <3>1, <3>2, <1>1, <1>4, <1>5, <1>10 DEF Typed
  <2>11. Cleared'
    BY <1>10 DEF Cleared
  <2> QED
    BY <2>1, <2>8, <2>9, <2>10, <2>11 DEF DataInv
<1> QED
  BY <1>3, <1>8, <1>9, <1>10

(* The hops of a cascade are two buckets apart.                            *)
LEMMA HopTimes ==
  ASSUME NEW b \in Nat, NEW k \in Nat
  PROVE  /\ 2 * Step * k \in Nat
         /\ Epoch(b) + 2 * Step * k = Epoch(b + 2 * k)
         /\ 2 * Step * k < 2 * Step * (k + 1)
<1>1. PICK s \in Nat : s = Step /\ s # 0
  BY Sizes
<1>2. 2 * s * k \in Nat
  OBVIOUS
<1>3. b * s + 2 * s * k = (b + 2 * k) * s
  OBVIOUS
<1>4. 2 * s * (k + 1) = 2 * s * k + 2 * s
  OBVIOUS
<1> QED
  BY <1>1, <1>2, <1>3, <1>4 DEF Epoch

(* What a hop draws, from where the cascade is.                            *)
LEMMA HopDraws ==
  ASSUME DataInv, Hop
  PROVE  \E ep, n, root, cur, k, hops :
           /\ {n, root, cur, k, hops} \subseteq Nat
           /\ n = Len(ledger) /\ root \in 1..n /\ cur \in 1..n
           /\ casc = [root |-> root, cur |-> cur, depth |-> k, hops |-> hops]
           /\ Drawn(ep)
           /\ ep.start = ledger[root].start + 2 * Step * k
           /\ ep.depth = k /\ ep.parent = cur
           /\ \/ ep.dev \in Adjacent(ledger[cur].dev)
              \/ ep.dev = ledger[cur].dev /\ ep.kind # ledger[root].kind
           /\ \/ /\ Clash(ep)
                 /\ casc' = [root |-> root, cur |-> cur, depth |-> k + 1, hops |-> hops]
                 /\ UNCHANGED <<ledger, dicts, active, octets, ops>>
              \/ /\ ~Clash(ep) /\ Place(ep, root)
                 /\ casc' = [root |-> root, cur |-> n + 1, depth |-> k + 1, hops |-> hops]
<1>1. pc = "cascade"
  BY DEF Hop
<1>2. PICK n, root, cur, k, hops \in Nat :
        /\ n = Len(ledger)
        /\ casc = [root |-> root, cur |-> cur, depth |-> k, hops |-> hops]
  BY DEF DataInv, Typed
<1>3. root \in 1..n /\ cur \in 1..n /\ DOMAIN ledger = 1..n
  <2>1. {casc.root, casc.cur} \subseteq DOMAIN ledger /\ ledger \in Seq(Entry)
    BY <1>1 DEF DataInv, Typed
  <2> QED
    BY <2>1, <1>2
<1>4. PICK b0 \in Times : ledger[root].start = Epoch(b0)
  <2>1. dicts[root].motif = root
    BY <1>1, <1>2 DEF DataInv, UnderWay
  <2>2. IsEpisode(ledger[root], dicts[root])
    BY <1>3, <2>1 DEF DataInv, Paired, IsNearMiss, None
  <2> QED
    BY <2>2 DEF IsEpisode
<1>5. PICK b \in Nat : Epoch(b) = ledger[root].start + 2 * Step * k
  <2>1. b0 \in Nat
    BY Sizes DEF Times
  <2>2. b0 + 2 * k \in Nat
    BY <2>1
  <2> QED
    BY <2>1, <2>2, <1>4, HopTimes
<1>6. PICK x \in HopTargets, span \in Spans :
        LET e == Episode(x[1], x[2], Epoch(b), span, k, cur, root)
        IN  \/ /\ Clash(e)
               /\ casc' = [casc EXCEPT !.depth = @ + 1]
               /\ UNCHANGED <<ledger, dicts, active, octets, ops>>
            \/ /\ ~Clash(e) /\ Place(e, root)
               /\ casc' = [casc EXCEPT !.depth = @ + 1, !.cur = Len(ledger) + 1]
  BY <1>2, <1>5 DEF Hop
<1>7. /\ x[1] \in Faults /\ x[2] \in Devices
      /\ \/ x[2] \in Adjacent(ledger[cur].dev)
         \/ x[2] = ledger[cur].dev /\ KindOf(x[1]) # ledger[root].kind
  <2>1. ledger[cur].dev \in Devices
    <3>1. Typed /\ Paired
      BY DEF DataInv
    <3> QED
      BY <3>1, <1>3, EntryKinds
  <2>2. Adjacent(ledger[cur].dev) \subseteq Devices
    BY DEF Adjacent, Devices, Ces
  <2> QED
    BY <2>1, <2>2, <1>2 DEF HopTargets, Current
<1>8. PICK ep : ep = Episode(x[1], x[2], Epoch(b), span, k, cur, root)
  OBVIOUS
<1>9. /\ Drawn(ep) /\ ep.ft = x[1] /\ ep.dev = x[2] /\ ep.start = Epoch(b)
      /\ ep.depth = k /\ ep.parent = cur
  <2>1. PICK ft \in Faults, d \in Devices : ft = x[1] /\ d = x[2]
    BY <1>7
  <2>2. ep = Episode(ft, d, Epoch(b), span, k, cur, root)
    BY <2>1, <1>8
  <2>3. /\ Drawn(ep) /\ ep.ft = ft /\ ep.dev = d /\ ep.start = Epoch(b)
        /\ ep.depth = k /\ ep.parent = cur
    BY <2>2, EpisodeDrawn
  <2> QED
    BY <2>1, <2>3
<1>10. ep.kind = KindOf(x[1])
  BY <1>9 DEF Drawn
<1>11. \/ /\ Clash(ep)
          /\ casc' = [root |-> root, cur |-> cur, depth |-> k + 1, hops |-> hops]
          /\ UNCHANGED <<ledger, dicts, active, octets, ops>>
       \/ /\ ~Clash(ep) /\ Place(ep, root)
          /\ casc' = [root |-> root, cur |-> n + 1, depth |-> k + 1, hops |-> hops]
  BY <1>2, <1>6, <1>8
<1> WITNESS ep, n, root, cur, k, hops
<1> QED
  BY <1>2, <1>3, <1>5, <1>7, <1>9, <1>10, <1>11

LEMMA HopKeeps == ASSUME DataInv, Hop PROVE DataInv'
<1>1. pc = "cascade" /\ UNCHANGED <<stream, pc, tries, near>>
  BY DEF Hop
<1>2. Typed /\ Trees /\ UnderWay
  BY DEF DataInv
<1>3. PICK ep, n, root, cur, k, hops :
        /\ {n, root, cur, k, hops} \subseteq Nat
        /\ n = Len(ledger) /\ root \in 1..n /\ cur \in 1..n
        /\ casc = [root |-> root, cur |-> cur, depth |-> k, hops |-> hops]
        /\ Drawn(ep)
        /\ ep.start = ledger[root].start + 2 * Step * k
        /\ ep.depth = k /\ ep.parent = cur
        /\ \/ ep.dev \in Adjacent(ledger[cur].dev)
           \/ ep.dev = ledger[cur].dev /\ ep.kind # ledger[root].kind
        /\ \/ /\ Clash(ep)
              /\ casc' = [root |-> root, cur |-> cur, depth |-> k + 1, hops |-> hops]
              /\ UNCHANGED <<ledger, dicts, active, octets, ops>>
           \/ /\ ~Clash(ep) /\ Place(ep, root)
              /\ casc' = [root |-> root, cur |-> n + 1, depth |-> k + 1, hops |-> hops]
  BY HopDraws, Zenon
<1>4. /\ n \in Nat /\ root \in Nat /\ cur \in Nat /\ k \in Nat /\ hops \in Nat
      /\ DOMAIN ledger = 1..n /\ DOMAIN dicts = 1..n
  BY <1>2, <1>3 DEF Typed
<1>5. /\ dicts[root].motif = root /\ cur \in Motif(root) /\ k # 0
      /\ dicts[cur].depth < k
      /\ ledger[cur].start < ledger[root].start + 2 * Step * k
  BY <1>1, <1>2, <1>3 DEF UnderWay
<1>6. /\ casc'.root = root /\ casc'.depth = k + 1 /\ casc'.hops = hops
      /\ pc' = "cascade" /\ casc.root = root
  BY <1>1, <1>3
<1>7. ledger[root].start \in Nat /\ ledger[cur].start \in Nat /\ dicts[cur].depth \in Int
  <2>1. ledger[root] \in Entry /\ ledger[cur] \in Entry /\ dicts[cur] \in Dict
    BY <1>2, <1>3, <1>4 DEF Typed
  <2> QED
    BY <2>1 DEF Entry, Dict
<1>8. 2 * Step * k \in Nat /\ 2 * Step * (k + 1) \in Nat /\ 2 * Step * k < 2 * Step * (k + 1)
  <2>1. k + 1 \in Nat
    BY <1>4
  <2> QED
    BY <2>1, <1>4, HopTimes
<1>9. Cleared'
  BY <1>6 DEF Cleared
<1>10. CASE Clash(ep)
  <2>1. /\ casc' = [root |-> root, cur |-> cur, depth |-> k + 1, hops |-> hops]
        /\ UNCHANGED <<ledger, dicts, active, octets, ops>>
    BY <1>3, <1>10
  <2>2. Paired' /\ Marked' /\ Apart' /\ Counting'
    BY <2>1, LedgerFrame
  <2>3. Trees'
    BY <2>1, <1>2, <1>6, TreesFrame
  <2>4. UnderWay'
    <3>1. Motif(root)' = Motif(root)
      BY <2>1 DEF Motif
    <3>2. dicts[cur].depth < k + 1 /\ k + 1 # 0 /\ k + 1 # 1
      BY <1>4, <1>5, <1>7
    <3>3. ledger[cur].start < ledger[root].start + 2 * Step * (k + 1)
      <4>1. PICK c, r, s, t \in Nat : /\ c = ledger[cur].start /\ r = ledger[root].start
                                      /\ s = 2 * Step * k /\ t = 2 * Step * (k + 1)
        BY <1>7, <1>8
      <4>2. c < r + s /\ s < t
        BY <4>1, <1>5, <1>8
      <4>3. c < r + t
        BY <4>2
      <4> QED
        BY <4>1, <4>3
    <3>4. casc'.cur = cur
      BY <2>1
    <3> QED
      BY <2>1, <3>1, <3>2, <3>3, <3>4, <1>5, <1>6 DEF UnderWay
  <2>5. Typed'
    <3>1. casc' \in [root : Nat, cur : Nat, depth : Nat, hops : Nat]
      BY <2>1, <1>4
    <3>2. {casc'.root, casc'.cur} \subseteq DOMAIN ledger'
      BY <2>1, <1>3, <1>4
    <3> QED
      BY <2>1, <3>1, <3>2, <1>1, <1>2 DEF Typed
  <2> QED
    BY <2>2, <2>3, <2>4, <2>5, <1>9 DEF DataInv
<1>11. CASE /\ ~Clash(ep) /\ Place(ep, root)
            /\ casc' = [root |-> root, cur |-> n + 1, depth |-> k + 1, hops |-> hops]
  <2>1. /\ Added(Laid(ep), Labelled(ep, root))
        /\ ledger' \in Seq(Entry) /\ dicts' \in Seq(Dict) /\ Len(ledger') = Len(dicts')
        /\ active' \in [Kinds -> SUBSET (Devices \X Times)]
        /\ octets' \in [Devices \X Interfaces -> [Times -> Nat]]
        /\ ops' \subseteq Devices \X Physical \X Times
        /\ Paired' /\ Marked' /\ Apart' /\ Counting'
    BY <1>3, <1>4, <1>11, PlaceKeeps
  <2>2. PICK e, l : e = Laid(ep) /\ l = Labelled(ep, root)
    OBVIOUS
  <2>3. /\ l.motif = root /\ l.parent = cur /\ l.depth = k
        /\ e.start = ep.start /\ e.dev = ep.dev /\ e.kind = ep.kind
    <3>1. l.motif = root /\ l.parent = cur /\ l.depth = k
      BY <2>2, <1>3 DEF Labelled
    <3> QED
      BY <2>2, <3>1, <1>3, <1>4, LaidFacts
  <2>4. Added(e, l)
    BY <2>1, <2>2
  <2>5. /\ DOMAIN dicts' = 1..(n + 1) /\ dicts'[n + 1] = l
        /\ DOMAIN ledger' = 1..(n + 1) /\ ledger'[n + 1] = e
        /\ \A i \in 1..n : ledger'[i] = ledger[i] /\ dicts'[i] = dicts[i]
    BY <2>4, <1>2, <1>3, AddedFacts
  <2>6. cur \in Motif(root)' /\ n + 1 \in Motif(root)' /\ root \in 1..(n + 1)
    BY <2>3, <2>5, <1>3, <1>4, <1>5 DEF Motif
  <2>7. Hangs(n + 1, root)'
    <3>1. dicts'[n + 1].parent = cur /\ dicts'[cur].depth < dicts'[n + 1].depth
      BY <2>3, <2>5, <1>3, <1>5
    <3>2. ledger'[cur].start < ledger'[n + 1].start
      BY <2>3, <2>5, <1>3, <1>5
    <3>3. \/ ledger'[n + 1].dev \in Adjacent(ledger'[cur].dev)
          \/ ledger'[n + 1].dev = ledger'[cur].dev /\ ledger'[n + 1].kind # ledger'[root].kind
      BY <2>3, <2>5, <1>3
    <3> QED
      BY <3>1, <3>2, <3>3, <2>6 DEF Hangs
  <2>8. InTree(n + 1)'
    <3>1. dicts'[n + 1].motif = root /\ dicts'[n + 1].parent = cur /\ dicts'[root].motif = root
      BY <2>3, <2>5, <1>3, <1>5
    <3>2. root <= n + 1 /\ root # n + 1 /\ cur # None /\ root \in DOMAIN dicts'
      BY <2>5, <1>3, <1>4 DEF None
    <3> QED
      BY <3>1, <3>2, <2>7, <1>6 DEF InTree
  <2>9. Trees'
    <3>1. \A i \in DOMAIN dicts :
            \/ dicts[i].motif = None \/ l.motif # dicts[i].motif
            \/ pc = "cascade" /\ dicts[i].motif = casc.root
      BY <2>3, <1>1, <1>6
    <3>2. \E q : q = Len(ledger) /\ InTree(q + 1)'
      BY <2>8, <1>3
    <3> QED
      BY <2>4, <3>1, <3>2, <1>2, <1>6, TreesAdded
  <2>10. UnderWay'
    <3>1. casc'.cur = n + 1
      BY <1>11
    <3>2. k < k + 1 /\ k + 1 # 0 /\ k + 1 # 1
      BY <1>4, <1>5
    <3>3. ledger'[n + 1].start < ledger'[root].start + 2 * Step * (k + 1)
      <4>1. PICK r, s, t \in Nat : /\ r = ledger[root].start
                                   /\ s = 2 * Step * k /\ t = 2 * Step * (k + 1)
        BY <1>7, <1>8
      <4>2. ep.start = r + s /\ s < t
        BY <4>1, <1>3, <1>8
      <4>3. ep.start < r + t
        BY <4>2
      <4> QED
        BY <4>1, <4>3, <2>3, <2>5, <1>3
    <3>4. dicts'[root].motif = root /\ dicts'[n + 1].depth = k
      BY <2>3, <2>5, <1>3, <1>5
    <3> QED
      BY <2>6, <3>1, <3>2, <3>3, <3>4, <1>6 DEF UnderWay
  <2>11. Typed'
    <3>1. casc' \in [root : Nat, cur : Nat, depth : Nat, hops : Nat]
      BY <1>4, <1>11
    <3>2. {casc'.root, casc'.cur} \subseteq DOMAIN ledger'
      BY <2>5, <1>3, <1>4, <1>11
    <3> QED
      BY <2>1, <3>1, <3>2, <1>1, <1>2 DEF Typed
  <2> QED
    BY <2>1, <2>9, <2>10, <2>11, <1>9 DEF DataInv
<1> QED
  BY <1>3, <1>10, <1>11

LEMMA MotifDevicesType == ASSUME Typed, NEW m PROVE MotifDevices(m) \in Nat
<1>1. PICK n \in Nat : DOMAIN dicts = 1..n
  BY DEF Typed
<1> DEFINE M == Motif(m)
           D == {ledger[i].dev : i \in M}
<1>2. M \subseteq 1..n
  BY <1>1 DEF Motif
<1> HIDE DEF M
<1>3. IsFiniteSet(M)
  <2>1. IsFiniteSet(1..n)
    BY <1>1, FS_Interval
  <2> QED
    BY <1>2, <2>1, FS_Subset
<1>4. IsFiniteSet(D)
  <2>1. [i \in M |-> ledger[i].dev] \in Surjection(M, D)
    BY DEF Surjection
  <2> HIDE DEF D
  <2> QED
    BY <2>1, <1>3, FS_Surjection
<1> HIDE DEF D
<1>5. Cardinality(D) \in Nat
  BY <1>4, FS_CardinalityType
<1> QED
  BY <1>5 DEF D, M, MotifDevices

(* The end of a cascade changes nothing but the count its dictionaries     *)
(* carry, and that to the devices of its motif.                            *)
LEMMA EndCascadeKeeps == ASSUME DataInv, EndCascade PROVE DataInv'
<1>1. /\ pc = "cascade" /\ pc' = "roots" /\ casc' = NoCascade
      /\ UNCHANGED <<stream, tries, ledger, active, octets, ops, near>>
  BY DEF EndCascade
<1>2. Typed /\ Trees /\ Paired
  BY DEF DataInv
<1>3. PICK n, root, c \in Nat : /\ n = Len(ledger) /\ root = casc.root
                                /\ c = MotifDevices(root)
  <2>1. casc.root \in Nat /\ Len(ledger) \in Nat
    BY <1>2 DEF Typed
  <2> QED
    BY <2>1, <1>2, MotifDevicesType
<1>4. DOMAIN ledger = 1..n /\ DOMAIN dicts = 1..n /\ \A i \in 1..n : dicts[i] \in Dict
  BY <1>2, <1>3 DEF Typed
<1>5. dicts' = [i \in 1..n |-> IF i \in Motif(root) THEN [dicts[i] EXCEPT !.count = c]
                               ELSE dicts[i]]
  BY <1>3, <1>4 DEF EndCascade
<1>6. ASSUME NEW i \in 1..n
      PROVE  /\ dicts'[i] \in Dict
             /\ dicts'[i].rows = dicts[i].rows /\ dicts'[i].depth = dicts[i].depth
             /\ dicts'[i].parent = dicts[i].parent /\ dicts'[i].motif = dicts[i].motif
             /\ dicts'[i].count = IF i \in Motif(root) THEN c ELSE dicts[i].count
  <2>1. PICK x \in Dict : x = dicts[i]
    BY <1>4
  <2>2. dicts'[i] = IF i \in Motif(root) THEN [x EXCEPT !.count = c] ELSE x
    BY <2>1, <1>5
  <2> QED
    BY <2>1, <2>2 DEF Dict
<1>7. dicts' \in Seq(Dict) /\ Len(dicts') = n /\ DOMAIN dicts' = 1..n
  <2>1. dicts' \in [1..n -> Dict]
    BY <1>5, <1>6, Zenon
  <2> QED
    BY <2>1, <1>3
<1>8. \A m : Motif(m)' = Motif(m) /\ MotifDevices(m)' = MotifDevices(m)
  <2>1. \A m : Motif(m)' = Motif(m)
    BY <1>4, <1>6, <1>7 DEF Motif
  <2> QED
    BY <2>1, <1>1 DEF MotifDevices
<1>9. Typed'
  <2>1. casc' \in [root : Nat, cur : Nat, depth : Nat, hops : Nat]
    BY <1>1 DEF NoCascade, None
  <2> QED
    BY <2>1, <1>1, <1>2, <1>3, <1>7 DEF Typed
<1>10. Paired'
  <2>1. ASSUME NEW i \in 1..n
        PROVE  IsEpisode(ledger[i], dicts'[i]) \/ IsNearMiss(ledger[i], dicts'[i])
    BY <1>2, <1>4, <1>6 DEF Paired, IsEpisode, IsNearMiss
  <2> QED
    BY <2>1, <1>1, <1>4 DEF Paired
<1>11. Marked' /\ Apart'
  BY <1>1 DEF DataInv, Marked, Apart
<1>12. Counting'
  BY <1>1 DEF DataInv, Counting
<1>13. Cleared' /\ UnderWay'
  BY <1>1 DEF Cleared, UnderWay
<1>14. ASSUME NEW i \in 1..n, dicts'[i].motif # None PROVE InTree(i)'
  <2>1. PICK m : m = dicts[i].motif
    OBVIOUS
  <2>2. /\ m \in 1..n /\ m <= i
        /\ i = m => dicts[i].parent = None
        /\ i # m => dicts[i].parent # None /\ Hangs(i, m)
        /\ dicts[m].motif = m
        /\ m = root \/ dicts[i].count = MotifDevices(m)
    <3>1. InTree(i)
      BY <1>2, <1>4, <1>6, <1>14 DEF Trees
    <3> QED
      BY <3>1, <2>1, <1>3, <1>4 DEF InTree
  <2>3. i # m => Hangs(i, m)'
    <3> SUFFICES ASSUME i # m PROVE Hangs(i, m)'
      OBVIOUS
    <3>1. PICK p : p = dicts[i].parent
      OBVIOUS
    <3>2. p \in Motif(m) /\ p \in 1..n
      BY <3>1, <2>2, <1>4 DEF Hangs, Motif
    <3>3. p = dicts'[i].parent /\ p \in Motif(m)'
      BY <3>1, <3>2, <1>6, <1>8
    <3> QED
      BY <3>1, <3>2, <3>3, <2>2, <1>1, <1>6 DEF Hangs
  <2>4. dicts'[i].count = MotifDevices(m)'
    <3>1. CASE m = root
      <4>1. i \in Motif(root)
        BY <3>1, <2>1, <1>4 DEF Motif
      <4> QED
        BY <3>1, <4>1, <1>3, <1>6, <1>8
    <3>2. CASE m # root
      <4>1. i \notin Motif(root)
        BY <3>2, <2>1 DEF Motif
      <4> QED
        BY <3>2, <4>1, <2>2, <1>6, <1>8
    <3> QED
      BY <3>1, <3>2
  <2> QED
    BY <2>1, <2>2, <2>3, <2>4, <1>6, <1>7 DEF InTree
<1>15. Trees'
  BY <1>7, <1>14 DEF Trees
<1> QED
  BY <1>9, <1>10, <1>11, <1>12, <1>13, <1>15 DEF DataInv

LEMMA EndRootsKeeps == ASSUME DataInv, EndRoots PROVE DataInv'
<1>1. /\ pc = "roots" /\ pc' = "negatives"
      /\ UNCHANGED <<stream, tries, casc, ledger, dicts, active, octets, ops, near>>
  BY DEF EndRoots
<1>2. Typed /\ Trees
  BY DEF DataInv
<1>3. Paired' /\ Marked' /\ Apart' /\ Counting' /\ Trees'
  BY <1>1, <1>2, LedgerFrame, TreesFrame
<1>4. Typed' /\ Cleared' /\ UnderWay'
  BY <1>1, <1>2 DEF Typed, Cleared, UnderWay
<1> QED
  BY <1>3, <1>4 DEF DataInv

LEMMA FinishKeeps == ASSUME DataInv, Finish PROVE DataInv'
<1>1. /\ pc = "negatives" /\ pc' = "done" /\ near' = ClearedFlags
      /\ UNCHANGED <<stream, tries, casc, ledger, dicts, active, octets, ops>>
  BY DEF Finish
<1>2. Typed /\ Trees
  BY DEF DataInv
<1>3. Paired' /\ Marked' /\ Apart' /\ Counting' /\ Trees'
  BY <1>1, <1>2, LedgerFrame, TreesFrame
<1>4. Typed' /\ UnderWay'
  BY <1>1, <1>2 DEF Typed, UnderWay, ClearedFlags
<1>5. Cleared'
  BY <1>1 DEF Cleared, ClearedFlags, IsFault
<1> QED
  BY <1>3, <1>4, <1>5 DEF DataInv

(* A near miss as NearMiss draws it.                                       *)
NearDrawn(ep, mech) ==
  /\ ep \in Entry /\ ep.kind = "hard_negative" /\ ep.motif = None
  /\ ep.start < ep.end /\ ep.start <= CaptureEnd
  /\ mech \in {"self_healing_flap", "no_impact_topo_change"} => ep.ent \in Physical

LEMMA NearDraws ==
  ASSUME NEW mech \in Mechanisms, NEW d \in Ces, NEW b \in 0..(Buckets - Margin - 1),
         NEW span \in Spans, NEW ent \in Picked(mech, d), NEW ep,
         ep = [ft |-> mech, kind |-> "hard_negative", dev |-> d, ent |-> ent,
               start |-> Epoch(b), impact |-> Null, end |-> Epoch(b) + span[2],
               depth |-> Null, parent |-> None, motif |-> None]
  PROVE  NearDrawn(ep, mech)
<1>1. b \in Nat /\ Buckets \in Nat /\ b < Buckets
  BY Sizes
<1>2. PICK e, c \in Nat : e = Epoch(b) /\ c = Epoch(Buckets) /\ e < c
  BY <1>1, EpochType
<1>3. c = CaptureEnd
  BY <1>2 DEF CaptureEnd, Epoch
<1>4. PICK r \in Nat : r = span[2] /\ r # 0
  BY Sizes
<1>5. ent \in {None} \cup HubSet \cup Physical /\ d \in Devices
  BY Sizes DEF Picked, Devices
<1>6. ep = [ft |-> mech, kind |-> "hard_negative", dev |-> d, ent |-> ent,
            start |-> e, impact |-> -1, end |-> e + r,
            depth |-> -1, parent |-> 0, motif |-> 0]
  BY <1>2, <1>4 DEF Null, None
<1>7. ep \in Entry
  BY <1>5, <1>6 DEF Entry
<1>8. ep.start < ep.end /\ ep.start <= CaptureEnd
  BY <1>2, <1>3, <1>4, <1>6
<1>9. mech \in {"self_healing_flap", "no_impact_topo_change"} => ep.ent \in Physical
  BY <1>6 DEF Picked
<1> QED
  BY <1>6, <1>7, <1>8, <1>9 DEF NearDrawn, None

(* What a near miss flags are rows, and what it flaps are links.           *)
LEMMA FlaggedTypes ==
  ASSUME NEW mech \in Mechanisms, NEW ep, NearDrawn(ep, mech)
  PROVE  /\ Flagged(mech, ep) \subseteq AllRows
         /\ mech \in {"self_healing_flap", "no_impact_topo_change"}
              => Flapped(mech, ep) \subseteq Devices \X Physical \X Times
<1>1. ep.dev \in Devices
  BY DEF NearDrawn, Entry
<1>2. Window(ep) \subseteq Times
  BY <1>1, RowTypes
<1>3. ASSUME mech \in {"self_healing_flap", "no_impact_topo_change"}
      PROVE  Flapped(mech, ep) \subseteq Devices \X Physical \X Times
  <2>1. ep.ent \in Physical
    BY <1>3 DEF NearDrawn
  <2>2. FirstTwo(Window(ep)) \subseteq Times
    BY <1>2 DEF FirstTwo
  <2> QED
    BY <2>1, <2>2, <1>1, <1>2 DEF Flapped
<1>4. Devices \X Physical \X Times \subseteq AllRows
  BY DEF AllRows, Ents, Interfaces
<1>5. \A ents \in SUBSET Ents : Rows(ep, ents) \subseteq AllRows
  BY <1>1, RowTypes
<1>6. Tunnels(ep.dev) \in SUBSET Ents /\ Interfaces \in SUBSET Ents /\ {"device"} \in SUBSET Ents
  BY DEF Tunnels, Ents
<1>7. Flagged(mech, ep) \subseteq AllRows
  <2>1. CASE mech = "congestion_recedes"
    BY <2>1, <1>5, <1>6 DEF Flagged
  <2>2. CASE mech \in {"self_healing_flap", "no_impact_topo_change"}
    BY <2>2, <1>3, <1>4 DEF Flagged
  <2>3. CASE mech = "legit_surge"
    BY <2>3, <1>5, <1>6 DEF Flagged
  <2>4. CASE mech \in {"maintenance_drain", "collector_dropout"}
    BY <2>4, <1>5, <1>6 DEF Flagged
  <2> QED
    BY <2>1, <2>2, <2>3, <2>4 DEF Mechanisms
<1> QED
  BY <1>3, <1>7

(* A near miss adds an entry that no lock and no counter knows of.         *)
LEMMA NearMissKeeps == ASSUME DataInv, NearMiss PROVE DataInv'
<1>1. /\ pc = "negatives" /\ UNCHANGED <<stream, pc, tries, casc, active>>
  BY DEF NearMiss
<1>2. Typed /\ Trees /\ Paired
  BY DEF DataInv
<1>3. PICK mech \in Mechanisms, d \in Ces, b \in 0..(Buckets - Margin - 1), span \in Spans :
        \E ent \in Picked(mech, d) :
          LET ep == [ft |-> mech, kind |-> "hard_negative", dev |-> d, ent |-> ent,
                     start |-> Epoch(b), impact |-> Null, end |-> Epoch(b) + span[2],
                     depth |-> Null, parent |-> None, motif |-> None]
          IN  /\ Flagged(mech, ep) # {}
              /\ ledger' = Append(ledger, ep)
              /\ dicts' = Append(dicts, [rows |-> {}, depth |-> Null, parent |-> None,
                                         motif |-> None, count |-> 0])
              /\ near' = near \cup Flagged(mech, ep)
              /\ erased' = erased \cup Erased(mech, ep)
              /\ ops' = IF mech \in {"self_healing_flap", "no_impact_topo_change"}
                        THEN ops \cup Flapped(mech, ep) ELSE ops
              /\ octets' = IF mech = "legit_surge"
                           THEN [x \in Devices \X Interfaces |->
                                   IF x[1] = d
                                   THEN CounterAdjust(octets[x], Churn(ep))
                                   ELSE octets[x]]
                           ELSE octets
  BY Zenon DEF NearMiss
<1> DEFINE Missed(e, entry) ==
        /\ entry = [ft |-> mech, kind |-> "hard_negative", dev |-> d, ent |-> e,
                 start |-> Epoch(b), impact |-> Null, end |-> Epoch(b) + span[2],
                 depth |-> Null, parent |-> None, motif |-> None]
        /\ ledger' = Append(ledger, entry)
        /\ dicts' = Append(dicts, [rows |-> {}, depth |-> Null, parent |-> None,
                                   motif |-> None, count |-> 0])
        /\ near' = near \cup Flagged(mech, entry)
        /\ erased' = erased \cup Erased(mech, entry)
        /\ ops' = IF mech \in {"self_healing_flap", "no_impact_topo_change"}
                  THEN ops \cup Flapped(mech, entry) ELSE ops
        /\ octets' = IF mech = "legit_surge"
                     THEN [x \in Devices \X Interfaces |->
                             IF x[1] = d
                             THEN CounterAdjust(octets[x], Churn(entry))
                             ELSE octets[x]]
                     ELSE octets
<1>3a. PICK ent \in Picked(mech, d) : \E entry : Missed(ent, entry)
  BY <1>3
<1>4. PICK ep : Missed(ent, ep)
  BY <1>3a
<1>5. NearDrawn(ep, mech)
  BY <1>4, NearDraws
<1>6. PICK l : l = [rows |-> {}, depth |-> -1, parent |-> 0, motif |-> 0, count |-> 0]
  OBVIOUS
<1>7. l \in Dict /\ l.rows = {} /\ l.motif = None /\ l.parent = None
  BY <1>6 DEF Dict, None
<1>8. Added(ep, l)
  BY <1>4, <1>5, <1>6, <1>7 DEF Added, NearDrawn, Null, None
<1>9. PICK n \in Nat : /\ n = Len(ledger)
                       /\ DOMAIN ledger = 1..n /\ DOMAIN ledger' = 1..(n + 1)
                       /\ \A i \in 1..n : ledger'[i] = ledger[i]
                       /\ ledger'[n + 1] = ep
  BY <1>2, <1>8, AddedFacts
<1>10. ep.kind = "hard_negative"
  BY <1>5 DEF NearDrawn
<1>11. Paired'
  <2>1. IsNearMiss(ep, l)
    BY <1>5, <1>7 DEF IsNearMiss, NearDrawn
  <2> QED
    BY <2>1, <1>2, <1>8, PairedAdded
<1>12. Marked'
  <2>1. ASSUME NEW i \in DOMAIN ledger', ledger'[i].kind # "hard_negative"
        PROVE  i \in DOMAIN ledger /\ ledger'[i] = ledger[i]
    BY <2>1, <1>9, <1>10
  <2> QED
    BY <2>1, <1>1 DEF DataInv, Marked
<1>13. Apart'
  <2>1. ASSUME NEW i \in DOMAIN ledger', ledger'[i].kind # "hard_negative"
        PROVE  i \in DOMAIN ledger /\ ledger'[i] = ledger[i]
    BY <2>1, <1>9, <1>10
  <2> QED
    BY <2>1 DEF DataInv, Apart
<1>14. ASSUME NEW x \in Devices \X Interfaces
       PROVE  /\ octets'[x] \in [Times -> Nat]
              /\ \A c \in Times \ {0} :
                   /\ octets'[x][c] >= octets'[x][c - 1]
                   /\ octets[x][c] = octets[x][c - 1] => octets'[x][c] = octets'[x][c - 1]
  <2>1. /\ octets[x] \in [Times -> Nat]
        /\ \A c \in Times \ {0} : octets[x][c] >= octets[x][c - 1]
    BY DEF DataInv, Typed, Counting
  <2>2. CASE mech = "legit_surge" /\ x[1] = d
    <3>1. octets'[x] = CounterAdjust(octets[x], Churn(ep))
      BY <2>2, <1>4
    <3>2. Churn(ep) \in [Times -> {-1, 0, 1}]
      BY DEF Churn
    <3> QED
      BY <2>1, <3>1, <3>2, AdjustKeeps
  <2>3. CASE ~ (mech = "legit_surge" /\ x[1] = d)
    <3>1. octets'[x] = octets[x]
      BY <2>3, <1>4
    <3> QED
      BY <2>1, <3>1
  <2> QED
    BY <2>2, <2>3
<1>15. octets' \in [Devices \X Interfaces -> [Times -> Nat]]
  <2>1. octets' = [x \in Devices \X Interfaces |-> octets'[x]]
    BY <1>2, <1>4 DEF Typed
  <2> QED
    BY <2>1, <1>14
<1>16. Counting'
  <2>1. ASSUME NEW i \in DOMAIN ledger', ledger'[i].kind = "iface_down"
        PROVE  i \in DOMAIN ledger /\ ledger'[i] = ledger[i]
    BY <2>1, <1>9, <1>10
  <2> QED
    BY <2>1, <1>14 DEF DataInv, Counting
<1>17. Trees'
  BY <1>1, <1>2, <1>7, <1>8, TreesBeside
<1>18. Typed'
  <2>1. /\ ledger' \in Seq(Entry) /\ dicts' \in Seq(Dict) /\ Len(ledger') = Len(dicts')
    BY <1>2, <1>8, AddedFacts
  <2>2. near' \subseteq AllRows /\ ops' \subseteq Devices \X Physical \X Times
    BY <1>2, <1>4, <1>5, FlaggedTypes DEF Typed
  <2> QED
    BY <2>1, <2>2, <1>1, <1>2, <1>15 DEF Typed
<1>19. Cleared' /\ UnderWay'
  BY <1>1 DEF Cleared, UnderWay
<1> QED
  BY <1>11, <1>12, <1>13, <1>16, <1>17, <1>18, <1>19 DEF DataInv

LEMMA DataNext == DataInv /\ [Next]_vars => DataInv'
BY StutterKeeps, DrawRootKeeps, HopKeeps, EndCascadeKeeps, EndRootsKeeps, NearMissKeeps,
   FinishKeeps DEF Next

LEMMA DataAlways == Spec => []DataInv
<1>1. Init => DataInv
  BY InitKeeps
<1>2. DataInv /\ [Next]_vars => DataInv'
  BY DataNext
<1> QED
  BY <1>1, <1>2, PTL DEF Spec

-----------------------------------------------------------------------------
(* The theorems.                                                           *)

(* Whatever faults and surges overlap, and in whatever order they were     *)
(* laid down, every octet counter only counts up and stands still in the   *)
(* buckets of an outage (synthetic/generate.py, _counter_adjust).          *)
THEOREM CountersCompose == Spec => []CountersComposeAsRates
<1>1. DataInv => CountersComposeAsRates
  BY DEF DataInv, Counting, CountersComposeAsRates
<1> QED
  BY <1>1, DataAlways, PTL

(* What an episode moves and what it labels, compared metric by metric.    *)
LEMMA MovedAndLabelled ==
  ASSUME NEW ep, ep.kind = KindOf(ep.ft)
  PROVE  /\ Moved(ep) \subseteq LabelRows(ep)
         /\ \A r \in LabelRows(ep) : Impaired(ep, r[3]) => r \in Moved(ep)
<1> DEFINE iface == \/ ep.kind \in {"iface_churn", "iface_down"}
                    \/ ep.ft \in Congest
                    \/ ep.ft = "gray_failure"
           tunnels == IF ep.kind = "tunnel_ramp" THEN Tunnels(ep.dev) ELSE {}
           ifaces == IF iface THEN Interfaces ELSE {}
<1>1. LabelRows(ep) = Rows(ep, {"device"} \cup tunnels \cup ifaces)
  BY DEF LabelRows
<1>2. iface <=> ep.ft \in Congest \cup IfaceChurn \cup IfaceDown \cup {"gray_failure"}
  BY DEF KindOf, IfaceChurn, IfaceDown
<1>3. \A S, T, r : r \in Rows(ep, S) => /\ r[2] \in S
                                        /\ r \in Rows(ep, T) <=> r[2] \in T
  BY DEF Rows
<1>4. TunnelRamp(ep) \subseteq LabelRows(ep)
  BY <1>1, <1>3 DEF TunnelRamp
<1>5. Churned(ep) \subseteq LabelRows(ep)
  <2>1. ASSUME NEW r \in Churned(ep) PROVE r \in LabelRows(ep)
    <3>1. r \in Rows(ep, Interfaces) /\ iface
      BY DEF Churned
    <3> QED
      BY <3>1, <1>1, <1>3
  <2> QED
    BY <2>1
<1>6. Downed(ep) \subseteq LabelRows(ep)
  <2>1. ASSUME NEW r \in Downed(ep) PROVE r \in LabelRows(ep)
    <3>1. r \in Rows(ep, Physical) /\ iface
      BY DEF Downed
    <3>2. r[2] \in Interfaces
      BY <3>1, <1>3 DEF Interfaces
    <3> QED
      BY <3>1, <3>2, <1>1, <1>3
  <2> QED
    BY <2>1
<1>7. ApplyEnv(ep) \subseteq LabelRows(ep)
  <2>1. ASSUME NEW r \in ApplyEnv(ep) PROVE r \in LabelRows(ep)
    <3>1. /\ r \in Rows(ep, {"device"} \cup Interfaces)
          /\ r[2] = "device" \/ iface
      BY <1>2 DEF ApplyEnv
    <3>2. r[2] \in {"device"} \cup ifaces
      BY <3>1, <1>3
    <3> QED
      BY <3>1, <3>2, <1>1, <1>3
  <2> QED
    BY <2>1
<1>8. ASSUME NEW r \in LabelRows(ep), Impaired(ep, r[3]) PROVE r \in Moved(ep)
  <2>1. r[2] \in {"device"} \cup tunnels \cup ifaces
    BY <1>1, <1>3
  <2>2. CASE r[2] \in tunnels
    <3>1. r \in Rows(ep, Tunnels(ep.dev)) /\ ep.kind = "tunnel_ramp"
      BY <2>2, <1>1, <1>3
    <3>2. r \in TunnelRamp(ep)
      BY <3>1, <1>8 DEF TunnelRamp
    <3> QED
      BY <3>2 DEF Moved
  <2>3. CASE r[2] \in {"device"} \cup ifaces
    <3>1. /\ r \in Rows(ep, {"device"} \cup Interfaces)
          /\ r[2] = "device" \/ iface
      BY <2>3, <1>1, <1>3
    <3>2. r \in ApplyEnv(ep)
      BY <3>1, <1>2, <1>8 DEF ApplyEnv
    <3> QED
      BY <3>2 DEF Moved
  <2> QED
    BY <2>1, <2>2, <2>3
<1> QED
  BY <1>4, <1>5, <1>6, <1>7, <1>8 DEF Moved

(* What the drawing of an episode does to the ledger.                      *)
LEMMA EpisodeSteps ==
  ASSUME DataInv, DrawRoot \/ Hop
  PROVE  /\ erased' = erased
         /\ \E ep : /\ Drawn(ep)
                    /\ \/ UNCHANGED <<ledger, ops>>
                       \/ \E motif \in Nat : Place(ep, motif)
<1>1. CASE DrawRoot
  <2>1. PICK ft \in Faults, d \in Devices, b \in Nat, span \in Spans :
          LET ep == Episode(ft, d, Epoch(b), span, 0, None, None)
          IN  \/ UNCHANGED <<ledger, ops>>
              \/ Place(ep, None) \/ Place(ep, Len(ledger) + 1)
    <3>1. \A ft \in Faults : Targets(ft) \subseteq Devices
      BY DEF Targets, Devices, Ces
    <3> QED
      BY <3>1, <1>1 DEF DrawRoot
  <2>2. PICK ep : ep = Episode(ft, d, Epoch(b), span, 0, None, None)
    OBVIOUS
  <2>3. Drawn(ep)
    BY <2>2, EpisodeDrawn DEF None
  <2>4. None \in Nat /\ Len(ledger) + 1 \in Nat
    BY DEF DataInv, Typed, None
  <2>5. UNCHANGED <<ledger, ops>> \/ \E motif \in Nat : Place(ep, motif)
    BY <2>1, <2>2, <2>4
  <2>6. erased' = erased
    BY <1>1 DEF DrawRoot
  <2> QED
    BY <2>3, <2>5, <2>6
<1>2. CASE Hop
  <2>1. PICK ep, n, root, cur, k, hops :
           /\ {n, root, cur, k, hops} \subseteq Nat
           /\ n = Len(ledger) /\ root \in 1..n /\ cur \in 1..n
           /\ casc = [root |-> root, cur |-> cur, depth |-> k, hops |-> hops]
           /\ Drawn(ep)
           /\ ep.start = ledger[root].start + 2 * Step * k
           /\ ep.depth = k /\ ep.parent = cur
           /\ \/ ep.dev \in Adjacent(ledger[cur].dev)
              \/ ep.dev = ledger[cur].dev /\ ep.kind # ledger[root].kind
           /\ \/ /\ Clash(ep)
                 /\ casc' = [root |-> root, cur |-> cur, depth |-> k + 1, hops |-> hops]
                 /\ UNCHANGED <<ledger, dicts, active, octets, ops>>
              \/ /\ ~Clash(ep) /\ Place(ep, root)
                 /\ casc' = [root |-> root, cur |-> n + 1, depth |-> k + 1, hops |-> hops]
    BY <1>2, HopDraws, Zenon
  <2>2. root \in Nat /\ Drawn(ep)
    BY <2>1
  <2>3. UNCHANGED <<ledger, ops>> \/ Place(ep, root)
    BY <2>1
  <2>4. erased' = erased
    BY <1>2 DEF Hop
  <2> QED
    BY <2>2, <2>3, <2>4
<1> QED
  BY <1>1, <1>2

(* What the drawing of a near miss does.                                   *)
LEMMA NearSteps ==
  ASSUME NearMiss
  PROVE  \E mech, ep, l :
           /\ NearDrawn(ep, mech) /\ Added(ep, l)
           /\ ep.kind = "hard_negative" /\ ep.ft = mech
           /\ ops' = ops \/ ops' = ops \cup Flapped(mech, ep)
           /\ erased' = erased \cup Erased(mech, ep)
<1>1. PICK mech \in Mechanisms, d \in Ces, b \in 0..(Buckets - Margin - 1), span \in Spans :
        \E ent \in Picked(mech, d) :
          LET ep == [ft |-> mech, kind |-> "hard_negative", dev |-> d, ent |-> ent,
                     start |-> Epoch(b), impact |-> Null, end |-> Epoch(b) + span[2],
                     depth |-> Null, parent |-> None, motif |-> None]
          IN  /\ Flagged(mech, ep) # {}
              /\ ledger' = Append(ledger, ep)
              /\ dicts' = Append(dicts, [rows |-> {}, depth |-> Null, parent |-> None,
                                         motif |-> None, count |-> 0])
              /\ near' = near \cup Flagged(mech, ep)
              /\ erased' = erased \cup Erased(mech, ep)
              /\ ops' = IF mech \in {"self_healing_flap", "no_impact_topo_change"}
                        THEN ops \cup Flapped(mech, ep) ELSE ops
              /\ octets' = IF mech = "legit_surge"
                           THEN [x \in Devices \X Interfaces |->
                                   IF x[1] = d
                                   THEN CounterAdjust(octets[x], Churn(ep))
                                   ELSE octets[x]]
                           ELSE octets
  BY Zenon DEF NearMiss
<1>2. PICK ep : /\ NearDrawn(ep, mech) /\ ep.ft = mech
                /\ ledger' = Append(ledger, ep)
                /\ dicts' = Append(dicts, [rows |-> {}, depth |-> Null, parent |-> None,
                                           motif |-> None, count |-> 0])
                /\ ops' = IF mech \in {"self_healing_flap", "no_impact_topo_change"}
                          THEN ops \cup Flapped(mech, ep) ELSE ops
                /\ erased' = erased \cup Erased(mech, ep)
  BY <1>1, NearDraws
<1>3. PICK l : l = [rows |-> {}, depth |-> -1, parent |-> 0, motif |-> 0, count |-> 0]
  OBVIOUS
<1>4. l \in Dict
  BY <1>3 DEF Dict
<1>5. Added(ep, l)
  BY <1>2, <1>3, <1>4 DEF Added, NearDrawn, Null, None
<1>6. ep.kind = "hard_negative"
  BY <1>2 DEF NearDrawn
<1>7. ops' = ops \/ ops' = ops \cup Flapped(mech, ep)
  BY <1>2
<1> QED
  BY <1>2, <1>5, <1>6, <1>7

(* The rows a gap has emptied are those of the gaps in the ledger.         *)
Gap(ep) == ep.kind = "hard_negative" /\ ep.ft = "collector_dropout"
Emptied == \A r : r \in erased <=> DroppedOut(r)

LEMMA GapsFrame ==
  ASSUME Emptied, erased' = erased, Typed,
         NEW e, NEW d, Added(e, d), ~Gap(e)
  PROVE  Emptied'
<1>1. PICK n \in Nat : /\ n = Len(ledger)
                       /\ DOMAIN ledger = 1..n /\ DOMAIN ledger' = 1..(n + 1)
                       /\ \A i \in 1..n : ledger'[i] = ledger[i]
                       /\ ledger'[n + 1] = e
  BY AddedFacts
<1>2. \A i : i \in DOMAIN ledger' /\ Gap(ledger'[i])
               <=> i \in DOMAIN ledger /\ Gap(ledger[i])
  BY <1>1
<1>3. \A i \in DOMAIN ledger : ledger'[i] = ledger[i]
  BY <1>1
<1>4. \A r : DroppedOut(r)' <=> DroppedOut(r)
  BY <1>2, <1>3 DEF DroppedOut, Gap, Rows, Window, Inside
<1> QED
  BY <1>4 DEF Emptied

LEMMA GapAdded ==
  ASSUME Emptied, Typed, NEW mech, NEW e, NEW d, Added(e, d),
         e.kind = "hard_negative", e.ft = mech,
         erased' = erased \cup Erased(mech, e)
  PROVE  Emptied'
<1>1. PICK n \in Nat : /\ n = Len(ledger)
                       /\ DOMAIN ledger = 1..n /\ DOMAIN ledger' = 1..(n + 1)
                       /\ \A i \in 1..n : ledger'[i] = ledger[i]
                       /\ ledger'[n + 1] = e
  BY AddedFacts
<1>2. \A r : r \in Erased(mech, e) <=> Gap(e) /\ r \in Rows(e, {"device"})
  BY DEF Erased, Gap
<1>3. \A r : DroppedOut(r)' <=> DroppedOut(r) \/ (Gap(e) /\ r \in Rows(e, {"device"}))
  <2>1. ASSUME NEW r, DroppedOut(r)
        PROVE  DroppedOut(r)'
    BY <2>1, <1>1 DEF DroppedOut, Rows, Window, Inside
  <2>2. ASSUME NEW r, Gap(e), r \in Rows(e, {"device"})
        PROVE  DroppedOut(r)'
    BY <2>2, <1>1 DEF DroppedOut, Gap, Rows, Window, Inside
  <2>3. ASSUME NEW r, DroppedOut(r)', ~DroppedOut(r)
        PROVE  Gap(e) /\ r \in Rows(e, {"device"})
    BY <2>3, <1>1 DEF DroppedOut, Gap, Rows, Window, Inside
  <2> QED
    BY <2>1, <2>2, <2>3
<1> QED
  BY <1>2, <1>3 DEF Emptied

LEMMA PlaceEmptied ==
  ASSUME Emptied, Typed, erased' = erased,
         NEW ep, Drawn(ep), NEW motif \in Nat, Place(ep, motif)
  PROVE  Emptied'
<1>1. Added(Laid(ep), Labelled(ep, motif)) /\ Laid(ep).kind = ep.kind
  BY PlaceAdds, LaidFacts
<1>2. ep.kind # "hard_negative"
  BY DEF Drawn, Kinds
<1> QED
  BY <1>1, <1>2, GapsFrame DEF Gap

LEMMA EmptiedNext ==
  ASSUME DataInv, Emptied, [Next]_vars
  PROVE  Emptied'
<1>0. Typed /\ Paired
  BY DEF DataInv
<1>1. ASSUME UNCHANGED <<ledger, erased>> PROVE Emptied'
  BY <1>1 DEF Emptied, DroppedOut, Rows, Window, Inside
<1>2. CASE DrawRoot \/ Hop
  <2>1. PICK ep : /\ Drawn(ep)
                  /\ \/ UNCHANGED <<ledger, ops>>
                     \/ \E motif \in Nat : Place(ep, motif)
    BY <1>2, EpisodeSteps
  <2>2. erased' = erased
    BY <1>2, EpisodeSteps
  <2>3. CASE UNCHANGED <<ledger, ops>>
    BY <2>2, <2>3, <1>1
  <2>4. CASE \E motif \in Nat : Place(ep, motif)
    BY <2>1, <2>2, <2>4, <1>0, PlaceEmptied
  <2> QED
    BY <2>1, <2>3, <2>4
<1>3. CASE NearMiss
  BY <1>3, <1>0, NearSteps, GapAdded
<1>4. CASE EndCascade \/ EndRoots \/ Finish \/ UNCHANGED vars
  <2>1. UNCHANGED <<ledger, erased>>
    BY <1>4 DEF EndCascade, EndRoots, Finish, vars
  <2> QED
    BY <2>1, <1>1
<1> QED
  BY <1>2, <1>3, <1>4 DEF Next

LEMMA EmptiedAlways == Spec => [](DataInv /\ Emptied)
<1>1. Init => DataInv /\ Emptied
  <2>1. Init => Emptied
    BY DEF Init, Emptied, DroppedOut
  <2> QED
    BY <2>1, InitKeeps
<1>2. (DataInv /\ Emptied) /\ [Next]_vars => (DataInv /\ Emptied)'
  BY EmptiedNext, DataNext
<1> QED
  BY <1>1, <1>2, PTL DEF Spec

LEMMA SignalsFromInv == DataInv /\ Emptied => LabelsHaveSignals
<1> SUFFICES ASSUME DataInv, Emptied,
                    NEW i \in DOMAIN ledger, ledger[i].kind # "hard_negative"
             PROVE  /\ Moved(ledger[i]) \subseteq dicts[i].rows
                    /\ \A r \in dicts[i].rows :
                         Impaired(ledger[i], r[3]) =>
                           (r \in Moved(ledger[i]) \ erased <=> ~DroppedOut(r))
  BY DEF LabelsHaveSignals
<1>1. ledger[i].kind = KindOf(ledger[i].ft) /\ dicts[i].rows = LabelRows(ledger[i])
  BY DEF DataInv, Paired, IsEpisode, IsNearMiss
<1>2. /\ Moved(ledger[i]) \subseteq dicts[i].rows
      /\ \A r \in dicts[i].rows : Impaired(ledger[i], r[3]) => r \in Moved(ledger[i])
  BY <1>1, MovedAndLabelled
<1>3. \A r : r \in erased <=> DroppedOut(r)
  BY DEF Emptied
<1> QED
  BY <1>2, <1>3

LEMMA StackingFromInv == DataInv => KindsDoNotStack
<1> SUFFICES ASSUME DataInv, NEW i \in DOMAIN ledger, NEW j \in DOMAIN ledger, i # j,
                    ledger[i].kind # "hard_negative", ledger[i].kind = ledger[j].kind,
                    NEW r \in dicts[i].rows, r \in dicts[j].rows
             PROVE  FALSE
  BY DEF KindsDoNotStack
<1>1. dicts[i].rows = LabelRows(ledger[i]) /\ dicts[j].rows = LabelRows(ledger[j])
  BY DEF DataInv, Paired, IsEpisode, IsNearMiss
<1>2. /\ r[1] = ledger[i].dev /\ r[3] \in Window(ledger[i])
      /\ r[1] = ledger[j].dev /\ r[3] \in Window(ledger[j])
  BY <1>1 DEF LabelRows, Rows
<1>3. Window(ledger[i]) \cap Window(ledger[j]) = {}
  BY <1>2 DEF DataInv, Apart
<1> QED
  BY <1>2, <1>3

LEMMA CleanFromInv == DataInv => NearMissesAreClean
<1> SUFFICES ASSUME DataInv, pc = "done", NEW i \in DOMAIN ledger,
                    ledger[i].kind # "hard_negative",
                    NEW r \in near, r \in Moved(ledger[i])
             PROVE  FALSE
  BY DEF NearMissesAreClean
<1>1. i \in DOMAIN dicts
  BY DEF DataInv, Typed
<1>2. r \in dicts[i].rows
  <2>1. ledger[i].kind = KindOf(ledger[i].ft) /\ dicts[i].rows = LabelRows(ledger[i])
    BY DEF DataInv, Paired, IsEpisode, IsNearMiss
  <2> QED
    BY <2>1, MovedAndLabelled
<1> QED
  BY <1>1, <1>2 DEF DataInv, Cleared, IsFault

(* Every row an episode moves carries its label, and every row it labels   *)
(* inside its window was moved by it and still shows it, unless a later    *)
(* gap in the collection, named in the ledger, emptied it; episodes of one *)
(* kind share no row; and a finished slice flags no row a fault moved      *)
(* (synthetic/generate.py).                                                *)
THEOREM LabelsExact == Spec => []LabelsAreExact
<1>1. DataInv /\ Emptied => LabelsAreExact
  BY SignalsFromInv, StackingFromInv, CleanFromInv DEF LabelsAreExact
<1> QED
  BY <1>1, EmptiedAlways, PTL

LEMMA TypesFromInv == DataInv => TypeOK
<1> SUFFICES ASSUME DataInv PROVE TypeOK
  OBVIOUS
<1>1. Typed /\ Paired
  BY DEF DataInv
<1>2. ASSUME NEW i \in DOMAIN ledger
      PROVE  /\ ledger[i].kind \in Kinds \cup {"hard_negative"}
             /\ ledger[i].start \in 0..CaptureEnd /\ ledger[i].start < ledger[i].end
             /\ dicts[i].rows \subseteq Rows(ledger[i], Entities(ledger[i].dev))
  <2>1. PICK ep, d : ep = ledger[i] /\ d = dicts[i]
    OBVIOUS
  <2>2. ep \in Entry /\ ep.dev \in Devices /\ ep.kind \in Kinds \cup {"hard_negative"}
    BY <2>1, <1>1, EntryKinds
  <2>3. ep.start \in Nat /\ ep.impact \in Int /\ ep.end \in Nat
    BY <2>2 DEF Entry
  <2>4. CaptureEnd \in Nat /\ CaptureEnd = Epoch(Buckets)
    BY Sizes, EpochType DEF CaptureEnd, Epoch
  <2>5. CASE IsEpisode(ep, d)
    <3>1. ep.start < ep.end
      BY <2>3, <2>5 DEF IsEpisode
    <3>2. ep.start <= CaptureEnd
      <4>1. PICK b \in Times : ep.start = Epoch(b)
        BY <2>5 DEF IsEpisode
      <4>2. b \in Nat /\ b <= Buckets
        BY Sizes DEF Times
      <4> QED
        BY <4>1, <4>2, <2>4, Sizes, EpochType
    <3>3. d.rows \subseteq Rows(ep, Entities(ep.dev))
      BY <2>2, <2>5, RowTypes DEF IsEpisode
    <3> QED
      BY <2>1, <2>2, <2>3, <2>4, <3>1, <3>2, <3>3
  <2>6. CASE IsNearMiss(ep, d)
    BY <2>1, <2>2, <2>3, <2>4, <2>6 DEF IsNearMiss
  <2> QED
    BY <2>1, <2>5, <2>6, <1>1 DEF Paired
<1>3. Len(ledger) = Len(dicts) /\ (pc = "cascade" => {casc.root, casc.cur} \subseteq DOMAIN ledger)
  BY <1>1 DEF Typed
<1>4. /\ \A kind \in Kinds : active[kind] \subseteq Devices \X Times
      /\ \A x \in Devices \X Interfaces : octets[x] \in [Times -> Nat]
  BY <1>1 DEF Typed
<1> QED
  BY <1>1, <1>2, <1>3, <1>4 DEF Typed, TypeOK

LEMMA TracesFromInv == DataInv => CascadesAreTraceable
<1> SUFFICES ASSUME DataInv, pc # "cascade",
                    NEW m \in {dicts[i].motif : i \in DOMAIN dicts} \ {None}
             PROVE  /\ {i \in Motif(m) : dicts[i].parent = None} = {m}
                    /\ \A i \in Motif(m) :
                         /\ dicts[i].count = Cardinality({ledger[j].dev : j \in Motif(m)})
                         /\ i # m =>
                              LET p == dicts[i].parent
                              IN  /\ p \in Motif(m) /\ dicts[p].depth < dicts[i].depth
                                  /\ ledger[p].start < ledger[i].start
                                  /\ \/ ledger[i].dev \in Adjacent(ledger[p].dev)
                                     \/ /\ ledger[i].dev = ledger[p].dev
                                        /\ ledger[i].kind # ledger[m].kind
  BY DEF CascadesAreTraceable
<1>1. ASSUME NEW i \in Motif(m)
      PROVE  /\ m \in DOMAIN dicts /\ dicts[m].motif = m
             /\ i = m => dicts[i].parent = None
             /\ i # m => dicts[i].parent # None /\ Hangs(i, m)
             /\ dicts[i].count = MotifDevices(m)
  <2>1. i \in DOMAIN dicts /\ dicts[i].motif = m
    BY DEF Motif
  <2>2. InTree(i)
    BY <2>1 DEF DataInv, Trees
  <2> QED
    BY <2>1, <2>2 DEF InTree
<1>2. PICK k \in Motif(m) : TRUE
  BY DEF Motif
<1>3. m \in Motif(m)
  BY <1>1, <1>2 DEF Motif
<1>4. {i \in Motif(m) : dicts[i].parent = None} = {m}
  BY <1>1, <1>3
<1> QED
  BY <1>1, <1>4 DEF Hangs, MotifDevices

(* Ledger and label dictionaries pair up and are well formed, and outside  *)
(* a cascade under way the labels of every cascade form one tree: one      *)
(* root, hops that start after what they hang on, on the same device with  *)
(* another kind or on a neighbour, and the count of devices they share     *)
(* (synthetic/generate.py, _inject_faults).                                *)
THEOREM LedgerSound == Spec => []LedgerIsSound
<1>1. DataInv => LedgerIsSound
  BY TypesFromInv, TracesFromInv DEF LedgerIsSound
<1> QED
  BY <1>1, DataAlways, PTL

-----------------------------------------------------------------------------
(* What other programs make of the ledger.                                 *)

(* An episode of the ledger, with the facts of its timing.                 *)
LEMMA EpisodeTimes ==
  ASSUME DataInv, NEW i \in DOMAIN ledger, ledger[i].kind # "hard_negative"
  PROVE  /\ ledger[i].dev \in Devices /\ dicts[i].rows = LabelRows(ledger[i])
         /\ ledger[i].kind = KindOf(ledger[i].ft)
         /\ ledger[i].start \in Nat /\ ledger[i].impact \in Nat /\ ledger[i].end \in Nat
         /\ ledger[i].start < ledger[i].impact /\ ledger[i].impact < ledger[i].end
         /\ \E b \in Times : ledger[i].start = Epoch(b)
<1>1. Typed /\ Paired
  BY DEF DataInv
<1>2. IsEpisode(ledger[i], dicts[i]) /\ ledger[i].dev \in Devices /\ ledger[i] \in Entry
  BY <1>1, EntryKinds
<1>3. ledger[i].start \in Nat /\ ledger[i].impact \in Int /\ ledger[i].end \in Nat
  BY <1>2 DEF Entry
<1> QED
  BY <1>2, <1>3 DEF IsEpisode

LEMMA JoinsFromInv == DataInv => JoinsAgree
<1> SUFFICES ASSUME DataInv, NEW i \in DOMAIN ledger, ledger[i].kind # "hard_negative"
             PROVE  /\ dicts[i].rows \subseteq Joined(ledger[i])
                    /\ \A r \in Joined(ledger[i]) : r[2] = "device" => r \in dicts[i].rows
  BY DEF JoinsAgree
<1>1. PICK ep : ep = ledger[i]
  OBVIOUS
<1>2. /\ ep.dev \in Devices /\ dicts[i].rows = LabelRows(ep)
      /\ ep.start \in Nat /\ ep.end \in Nat
  BY <1>1, EpisodeTimes
<1>3. PICK s \in Times : ep.start = Epoch(s)
  BY <1>1, EpisodeTimes
<1>4. ASSUME NEW b \in Times PROVE Inside(ep, b) <=> Joins(ep, b)
  <2>1. b \in Nat /\ s \in Nat /\ b + 1 \in Nat
    BY Sizes DEF Times
  <2>2. PICK e, f, t \in Nat : e = Epoch(b) /\ f = Epoch(b + 1) /\ t = Epoch(s)
    BY <2>1, EpochType
  <2>3. f = e + Step /\ Step \in Nat /\ Step # 0
    <3>1. PICK w \in Nat : w = Step /\ w # 0
      BY Sizes
    <3>2. (b + 1) * w = b * w + w
      BY <2>1
    <3> QED
      BY <3>1, <3>2, <2>2 DEF Epoch
  <2>4. t <= e => f > t
    BY <2>2, <2>3
  <2>5. f > t => t <= e
    <3> SUFFICES ASSUME f > t, ~ (s <= b) PROVE FALSE
      BY <2>1, <2>2, EpochType
    <3>1. b + 1 <= s
      BY <2>1
    <3>2. f <= t
      BY <2>1, <2>2, <3>1, EpochType
    <3> QED
      BY <2>2, <3>2
  <2> QED
    BY <1>2, <1>3, <2>2, <2>3, <2>4, <2>5 DEF Inside, Joins
<1>5. Joined(ep) = Rows(ep, Entities(ep.dev))
  BY <1>4 DEF Joined, Rows, Window
<1>6. LabelRows(ep) \subseteq Rows(ep, Entities(ep.dev))
  BY <1>2, RowTypes
<1>7. ASSUME NEW r \in Joined(ep), r[2] = "device" PROVE r \in LabelRows(ep)
  BY <1>5, <1>7 DEF Rows, LabelRows
<1> QED
  BY <1>1, <1>2, <1>5, <1>6, <1>7

(* Two episodes at different buckets of one device, neither in the other's *)
(* window: the one that starts first ends before the other starts.         *)
LEMMA ApartInTime ==
  ASSUME DataInv, NEW i \in DOMAIN ledger, NEW j \in DOMAIN ledger,
         ledger[i].kind # "hard_negative", ledger[i].kind = ledger[j].kind,
         ledger[i].dev = ledger[j].dev, ledger[i].impact < ledger[j].impact
  PROVE  ledger[i].end < ledger[j].start
<1>1. PICK e, f : e = ledger[i] /\ f = ledger[j]
  OBVIOUS
<1>2. /\ e.start \in Nat /\ e.impact \in Nat /\ e.end \in Nat
      /\ e.start < e.impact /\ e.impact < e.end
      /\ f.start \in Nat /\ f.impact \in Nat /\ f.end \in Nat
      /\ f.start < f.impact /\ f.impact < f.end
  BY <1>1, EpisodeTimes
<1>3. PICK s, t \in Times : e.start = Epoch(s) /\ f.start = Epoch(t)
  BY <1>1, EpisodeTimes
<1>4. s \in Window(e) /\ t \in Window(f)
  BY <1>2, <1>3 DEF Window, Inside
<1>5. Window(e) \cap Window(f) = {}
  BY <1>1, <1>2 DEF DataInv, Apart
<1>6. CASE e.start <= f.start
  <2>1. ~ (f.start <= e.end)
    BY <1>2, <1>3, <1>4, <1>5, <1>6 DEF Window, Inside
  <2> QED
    BY <1>1, <1>2, <2>1
<1>7. CASE f.start < e.start
  <2>1. ~ (e.start <= f.end)
    BY <1>2, <1>3, <1>4, <1>5, <1>7 DEF Window, Inside
  <2> QED
    BY <1>1, <1>2, <1>7, <2>1
<1> QED
  BY <1>1, <1>2, <1>6, <1>7

LEMMA Prefixed ==
  ASSUME NEW d, NEW a, NEW b, NEW c
  PROVE  LET x == <<d>> \o <<a, b, c>>
         IN  x[1] = d /\ x[2] = a /\ x[3] = b /\ x[4] = c
<1> DEFINE S == {d, a, b, c}
<1>1. <<d>> \in Seq(S) /\ Len(<<d>>) = 1
  OBVIOUS
<1>2. <<a, b, c>> \in Seq(S) /\ Len(<<a, b, c>>) = 3
  OBVIOUS
<1> HIDE DEF S
<1>3. PICK s \in Seq(S) : s = <<d>> /\ Len(s) = 1 /\ s[1] = d
  BY <1>1
<1>4. PICK t \in Seq(S) : t = <<a, b, c>> /\ Len(t) = 3 /\ t[1] = a /\ t[2] = b /\ t[3] = c
  BY <1>2
<1>5. (s \o t)[1] = d /\ (s \o t)[2] = a /\ (s \o t)[3] = b /\ (s \o t)[4] = c
  BY <1>3, <1>4
<1> QED
  BY <1>3, <1>4, <1>5

(* The events of an entry: device, session, direction and time.            *)
LEMMA EventsAre ==
  ASSUME NEW ep, NEW x \in EventsOf(ep), x[2] \in {"bgp", "link"}
  PROVE  /\ x[1] = ep.dev /\ ep.kind # "hard_negative"
         /\ x[2] = "bgp" => ep.ft \in {"bgp_flap", "bgp_cascade", "rr_failure"}
         /\ x[2] = "link" => ep.ft \in IfaceDown
         /\ x[3] = "down" => x[4] = ep.impact
         /\ \E z \in EventsOf(ep) :
              z[1] = ep.dev /\ z[2] = x[2] /\ z[3] = "up" /\ z[4] = ep.end
<1>1. PICK a \in Announced(ep) : x = <<ep.dev>> \o a
  BY DEF EventsOf
<1>2. PICK ses, dir, at : a = <<ses, dir, at>>
  BY DEF Announced, DownUp
<1>3. x[1] = ep.dev /\ x[2] = ses /\ x[3] = dir /\ x[4] = at
  BY <1>1, <1>2, Prefixed
<1>4. ep.kind # "hard_negative" /\ ses \in {"bgp", "link"}
  <2>1. ep.kind = "hard_negative" => Announced(ep) = {}
    BY DEF Announced
  <2> QED
    BY <2>1, <1>3
<1>5. /\ a \in DownUp(ep, ses) /\ DownUp(ep, ses) \subseteq Announced(ep)
      /\ ses = "bgp" => ep.ft \in {"bgp_flap", "bgp_cascade", "rr_failure"}
      /\ ses = "link" => ep.ft \in IfaceDown
  BY <1>2, <1>4 DEF Announced, DownUp
<1>6. dir = "down" => at = ep.impact
  BY <1>2, <1>5 DEF DownUp
<1>7. PICK z \in EventsOf(ep) : z = <<ep.dev>> \o <<ses, "up", ep.end>>
  BY <1>5 DEF DownUp, EventsOf
<1>8. z[1] = ep.dev /\ z[2] = ses /\ z[3] = "up" /\ z[4] = ep.end
  BY <1>7, Prefixed
<1> QED
  BY <1>3, <1>4, <1>5, <1>6, <1>8

LEMMA SessionsFromInv == DataInv => SessionsAlternate
<1> SUFFICES ASSUME DataInv, NEW x \in Events, NEW y \in Events,
                    x[2] \in {"bgp", "link"}, x[3] = "down",
                    y[2] \in {"bgp", "link"}, y[3] = "down",
                    x[1] = y[1], x[2] = y[2], x[4] < y[4]
             PROVE  \E z \in Events : /\ z[1] = x[1] /\ z[2] = x[2] /\ z[3] = "up"
                                      /\ x[4] < z[4] /\ z[4] < y[4]
  BY DEF SessionsAlternate
<1>1. PICK i, j \in DOMAIN ledger : x \in EventsOf(ledger[i]) /\ y \in EventsOf(ledger[j])
  BY DEF Events
<1>2. PICK e, f : e = ledger[i] /\ f = ledger[j]
  OBVIOUS
<1>3. /\ x[1] = e.dev /\ e.kind # "hard_negative" /\ x[4] = e.impact
      /\ x[2] = "bgp" => e.ft \in {"bgp_flap", "bgp_cascade", "rr_failure"}
      /\ x[2] = "link" => e.ft \in IfaceDown
  BY <1>1, <1>2, EventsAre
<1>4. /\ y[1] = f.dev /\ f.kind # "hard_negative" /\ y[4] = f.impact
      /\ y[2] = "bgp" => f.ft \in {"bgp_flap", "bgp_cascade", "rr_failure"}
      /\ y[2] = "link" => f.ft \in IfaceDown
  BY <1>1, <1>2, EventsAre
<1>5. PICK z \in EventsOf(e) :
        z[1] = e.dev /\ z[2] = x[2] /\ z[3] = "up" /\ z[4] = e.end
  BY <1>1, <1>2, EventsAre
<1>6. e.kind = KindOf(e.ft) /\ f.kind = KindOf(f.ft)
  BY <1>2, <1>3, <1>4, EpisodeTimes
<1>7. e.kind = f.kind
  <2>1. CASE x[2] = "bgp"
    BY <2>1, <1>3, <1>4, <1>6 DEF KindOf, IfaceDown, IfaceChurn
  <2>2. CASE x[2] = "link"
    BY <2>2, <1>3, <1>4, <1>6 DEF KindOf
  <2> QED
    BY <2>1, <2>2
<1>8. e.end < f.start
  BY <1>2, <1>3, <1>4, <1>7, ApartInTime
<1>9. /\ e.impact \in Nat /\ e.end \in Nat /\ e.impact < e.end
      /\ f.start \in Nat /\ f.impact \in Nat /\ f.start < f.impact
  BY <1>2, <1>3, <1>4, EpisodeTimes
<1>10. z \in Events
  BY <1>2, <1>5 DEF Events
<1>11. e.impact < e.end /\ e.end < f.impact
  BY <1>8, <1>9
<1> QED
  BY <1>3, <1>4, <1>5, <1>10, <1>11

(* The greatest of some buckets, as the least counted from the other end.  *)
LEMMA TimesMinMax ==
  ASSUME NEW T \in SUBSET Times, T # {}
  PROVE  /\ Min(T) \in T /\ \A b \in T : Min(T) <= b
         /\ Max(T) \in T /\ \A b \in T : b <= Max(T)
<1>1. PICK n \in Nat : n = Buckets - 1
  <2>1. Buckets - 1 \in Nat
    BY Sizes
  <2> QED
    BY <2>1
<1>2. Times = 0..n
  BY <1>1 DEF Times
<1>3. \E x \in T : \A b \in T : x <= b
  BY <1>2, NatMin
<1>4. \E x \in T : \A b \in T : x >= b
  <2> DEFINE U == {n - b : b \in T}
  <2>1. U \in SUBSET Nat /\ U # {}
    <3>1. ASSUME NEW b \in T PROVE n - b \in Nat
      BY <1>2
    <3> QED
      BY <3>1
  <2>2. PICK u \in U : \A v \in U : u <= v
    <3> HIDE DEF U
    <3> QED
      BY <2>1, NatMin
  <2>3. PICK x \in T : u = n - x
    OBVIOUS
  <2>4. ASSUME NEW b \in T PROVE x >= b
    <3>1. n - x <= n - b
      BY <2>2, <2>3
    <3> QED
      BY <3>1, <1>2
  <2> QED
    BY <2>4
<1> QED
  BY <1>3, <1>4, <1>2 DEF Min, Max

(* The rows of an episode are on its device, in all of its window.         *)
LEMMA ReplayOfEpisode ==
  ASSUME DataInv, NEW i \in DOMAIN ledger, ledger[i].kind # "hard_negative",
         dicts[i].rows # {}
  PROVE  /\ LabelDevice(i) = ledger[i].dev
         /\ LabelBuckets(i) = Window(ledger[i])
         /\ \A b \in Window(ledger[i]) : \E r \in dicts[i].rows :
              r[1] = ledger[i].dev /\ r[3] = b
         /\ \A r \in dicts[i].rows : r[1] = ledger[i].dev /\ r[3] \in Window(ledger[i])
<1>1. PICK ep, rows : ep = ledger[i] /\ rows = dicts[i].rows
  OBVIOUS
<1>2. ep.dev \in Devices /\ rows = LabelRows(ep)
  BY <1>1, EpisodeTimes
<1>3. \A r \in rows : r[1] = ep.dev /\ r[3] \in Window(ep)
  BY <1>2 DEF LabelRows, Rows
<1>4. ASSUME NEW b \in Window(ep) PROVE <<ep.dev, "device", b>> \in rows
  BY <1>2, <1>4 DEF LabelRows, Rows
<1>5. LabelBuckets(i) = Window(ep)
  <2>1. \A b \in Window(ep) : \E r \in rows : r[3] = b
    BY <1>4
  <2>2. LabelBuckets(i) = {r[3] : r \in rows}
    BY <1>1 DEF LabelBuckets
  <2> QED
    BY <2>1, <2>2, <1>3
<1>6. LabelDevice(i) = ep.dev
  BY <1>1, <1>2, <1>3 DEF LabelDevice
<1> QED
  BY <1>1, <1>3, <1>4, <1>5, <1>6

LEMMA ReplayFromInv == DataInv => ReplayIsExact
<1> SUFFICES ASSUME DataInv, NEW d \in Devices, NEW t0 \in Times, NEW t1 \in Times, t0 <= t1
             PROVE  ReplayLabels(d, t0, t1) =
                      {i \in DOMAIN dicts : \E r \in dicts[i].rows :
                                              r[1] = d /\ r[3] \in t0..t1}
  BY DEF ReplayIsExact
<1>1. Times \subseteq Nat /\ DOMAIN ledger = DOMAIN dicts
  BY Sizes DEF Times, DataInv, Typed
<1>2. ASSUME NEW i \in DOMAIN dicts, dicts[i].rows # {}
      PROVE  (LabelDevice(i) = d /\ ReplaySpan(i)[1] <= t1 /\ ReplaySpan(i)[2] >= t0)
             <=> \E r \in dicts[i].rows : r[1] = d /\ r[3] \in t0..t1
  <2>1. ledger[i].kind # "hard_negative"
    BY <1>1, <1>2, EntryKinds DEF DataInv, Paired, IsNearMiss
  <2>2. PICK ep, W : ep = ledger[i] /\ W = Window(ep)
    OBVIOUS
  <2>3. /\ LabelDevice(i) = ep.dev /\ LabelBuckets(i) = W
        /\ \A b \in W : \E r \in dicts[i].rows : r[1] = ep.dev /\ r[3] = b
        /\ \A r \in dicts[i].rows : r[1] = ep.dev /\ r[3] \in W
    BY <1>1, <1>2, <2>1, <2>2, ReplayOfEpisode
  <2>4. W \in SUBSET Times /\ W # {}
    BY <1>2, <2>2, <2>3 DEF Window
  <2>5. PICK lo, hi \in W : /\ lo = Min(W) /\ hi = Max(W)
                            /\ \A b \in W : lo <= b /\ b <= hi
    BY <2>4, TimesMinMax
  <2>6. ReplaySpan(i)[1] = lo /\ ReplaySpan(i)[2] = hi
    BY <2>3, <2>5 DEF ReplaySpan
  <2>7. ASSUME NEW b \in Times, lo <= b, b <= hi PROVE b \in W
    <3>1. b \in Nat /\ lo \in Nat /\ hi \in Nat
      BY <1>1, <2>4
    <3>2. PICK e, f, g \in Nat : /\ e = Epoch(lo) /\ f = Epoch(b) /\ g = Epoch(hi)
                                 /\ e <= f /\ f <= g
      BY <2>7, <3>1, EpochType
    <3>3. ep.start <= e /\ g <= ep.end
      BY <2>2, <3>2 DEF Window, Inside
    <3>4. ep.start \in Nat /\ ep.end \in Nat
      BY <1>1, <2>1, <2>2, EpisodeTimes
    <3>5. ep.start <= f /\ f <= ep.end
      BY <3>2, <3>3, <3>4
    <3> QED
      BY <2>2, <3>2, <3>5 DEF Window, Inside
  <2>8. ASSUME lo <= t1, hi >= t0 PROVE \E b \in W : b \in t0..t1
    <3>1. lo \in Nat /\ hi \in Nat /\ t0 \in Nat /\ t1 \in Nat
      BY <1>1, <2>4
    <3>2. CASE t0 <= lo
      BY <2>8, <3>1, <3>2
    <3>3. CASE lo < t0
      <4>1. t0 \in W
        BY <2>7, <2>8, <3>1, <3>3
      <4> QED
        BY <3>1, <4>1
    <3> QED
      BY <3>1, <3>2, <3>3
  <2>9. ASSUME NEW b \in W, b \in t0..t1 PROVE lo <= t1 /\ hi >= t0
    <3>1. lo \in Nat /\ hi \in Nat /\ t0 \in Nat /\ t1 \in Nat /\ b \in Nat
      BY <1>1, <2>4
    <3> QED
      BY <2>5, <2>9, <3>1
  <2> QED
    BY <2>3, <2>6, <2>8, <2>9
<1> QED
  BY <1>2 DEF ReplayLabels

(* On any device the sessions' down and up events alternate; the export's  *)
(* join labels the rows the generator labels, and no other device row; and *)
(* labels recovered from the rows by a replay are exact                    *)
(* (synthetic/events.py; dataapi/export.py; streaming/bridge.py, replay).  *)
THEOREM TablesAgree == Spec => [](SessionsAlternate /\ JoinsAgree /\ ReplayIsExact)
<1>1. DataInv => SessionsAlternate /\ JoinsAgree /\ ReplayIsExact
  BY SessionsFromInv, JoinsFromInv, ReplayFromInv
<1> QED
  BY <1>1, DataAlways, PTL

-----------------------------------------------------------------------------
(* What the intervals of edges and the timelines of paths come from:       *)
(* induction on the length of a sequence, sorting, folds.                  *)

(* Induction on numbers, by the set of those for which a fact holds.       *)
LEMMA Upto ==
  ASSUME NEW n \in Nat, NEW Q, 0 \in Q, \A k \in 1..n : k - 1 \in Q => k \in Q
  PROVE  \A k \in 0..n : k \in Q
<1> DEFINE bad == {k \in 0..n : k \notin Q}
<1> SUFFICES ASSUME bad # {} PROVE FALSE
  OBVIOUS
<1>1. PICK k \in bad : \A m \in bad : k <= m
  <2>1. bad \in SUBSET Nat
    OBVIOUS
  <2> HIDE DEF bad
  <2> QED
    BY <2>1, NatMin
<1>2. k \in 1..n /\ k \notin Q
  <2>1. k # 0
    OBVIOUS
  <2> QED
    BY <2>1
<1>3. k - 1 \in 0..n /\ ~ (k <= k - 1)
  BY <1>2
<1>4. k - 1 \in Q
  BY <1>1, <1>3
<1> QED
  BY <1>2, <1>4

-----------------------------------------------------------------------------
(* Sorting.                                                                *)

(* The place of an interval is the number of those not later.              *)
LEMMA SortedExists ==
  ASSUME NEW V \in SUBSET (Int \X Int), IsFiniteSet(V)
  PROVE  \E s \in SetToSeqs(V) : \A i, j \in DOMAIN s : i < j => Earlier(s[i], s[j])
<1> DEFINE upto(x) == {y \in V : Earlier(y, x)}
<1>1. PICK n \in Nat : n = Cardinality(V)
  BY FS_CardinalityType
<1>2. ASSUME NEW x \in V, NEW y \in V
      PROVE  /\ Earlier(x, x)
             /\ Earlier(x, y) \/ Earlier(y, x)
             /\ Earlier(x, y) /\ Earlier(y, x) => x = y
  <2>1. PICK a, b, c, d \in Int : x = <<a, b>> /\ y = <<c, d>>
    OBVIOUS
  <2> QED
    BY <2>1 DEF Earlier
<1>3. ASSUME NEW x \in V, NEW y \in V, NEW z \in V, Earlier(x, y), Earlier(y, z)
      PROVE  Earlier(x, z)
  <2>1. PICK a, b, c, d, e, f \in Int : x = <<a, b>> /\ y = <<c, d>> /\ z = <<e, f>>
    OBVIOUS
  <2> QED
    BY <2>1, <1>3 DEF Earlier
<1>4. PICK rank : rank = [x \in V |-> Cardinality(upto(x))]
  OBVIOUS
<1>5. \A x \in V : upto(x) \in SUBSET V /\ x \in upto(x)
  BY <1>2
<1>6. ASSUME NEW x \in V PROVE rank[x] \in 1..n
  <2>1. PICK u \in SUBSET V : u = upto(x)
    BY <1>5
  <2>2. IsFiniteSet(u) /\ Cardinality(u) <= n /\ Cardinality(u) \in Nat
    BY <1>1, FS_Subset, FS_CardinalityType
  <2>3. Cardinality(u) # 0
    BY <2>1, <2>2, <1>5, FS_EmptySet
  <2> QED
    BY <2>1, <2>2, <2>3, <1>1, <1>4
<1>7. ASSUME NEW x \in V, NEW y \in V, Earlier(x, y), x # y
      PROVE  rank[x] < rank[y]
  <2>1. PICK u, v \in SUBSET V : u = upto(x) /\ v = upto(y)
    BY <1>5
  <2>2. IsFiniteSet(v)
    BY FS_Subset
  <2>3. u \subseteq v
    BY <2>1, <1>3, <1>7
  <2>4. y \in v /\ y \notin u
    BY <2>1, <1>2, <1>7
  <2>5. Cardinality(u) <= Cardinality(v) /\ Cardinality(u) # Cardinality(v)
    BY <2>2, <2>3, <2>4, FS_Subset
  <2>6. rank[x] = Cardinality(u) /\ rank[y] = Cardinality(v)
    BY <2>1, <1>4
  <2> QED
    BY <2>5, <2>6, <1>6
<1>8. \A x, y \in V : rank[x] = rank[y] => x = y
  BY <1>2, <1>6, <1>7
<1> HIDE DEF upto
<1>9. ASSUME NEW k \in 1..n PROVE \E x \in V : rank[x] = k
  <2>1. rank \in Injection(V, 1..n)
    BY <1>4, <1>6, <1>8 DEF Injection, IsInjective
  <2>2. IsFiniteSet(1..n) /\ Cardinality(1..n) = n
    BY <1>1, FS_Interval
  <2>3. rank \in Surjection(V, 1..n)
    BY <2>1, <2>2, <1>1, FS_Injection
  <2> QED
    BY <2>3 DEF Surjection
<1>10. PICK s : s = [k \in 1..n |-> CHOOSE x \in V : rank[x] = k]
  OBVIOUS
<1>11. \A k \in 1..n : s[k] \in V /\ rank[s[k]] = k
  BY <1>9, <1>10
<1>12. s \in SetToSeqs(V)
  <2>1. s \in [1..n -> V]
    BY <1>10, <1>11
  <2>2. \A i, j \in 1..n : i # j => s[i] # s[j]
    BY <1>11
  <2> QED
    BY <2>1, <2>2, <1>1 DEF SetToSeqs
<1>13. ASSUME NEW i \in 1..n, NEW j \in 1..n, i < j PROVE Earlier(s[i], s[j])
  BY <1>2, <1>7, <1>11, <1>13
<1> QED
  BY <1>10, <1>12, <1>13

(* All of V, the earlier ones first.                                       *)
Ordered(seq, V, n) ==
  /\ seq \in [1..n -> V]
  /\ \A x \in V : \E i \in 1..n : seq[i] = x
  /\ \A i, j \in 1..n : i < j => seq[i][1] <= seq[j][1]

LEMMA InOrderIs ==
  ASSUME NEW V, V \subseteq Int \X Int, IsFiniteSet(V), NEW seq, seq = InOrder(V)
  PROVE  \E n \in Nat : Ordered(seq, V, n)
<1>1. PICK n \in Nat : n = Cardinality(V)
  BY FS_CardinalityType
<1>2. /\ seq \in SetToSeqs(V)
      /\ \A i, j \in DOMAIN seq : i < j => Earlier(seq[i], seq[j])
  BY SortedExists DEF InOrder
<1>3. seq \in [1..n -> V] /\ \A i, j \in 1..n : i # j => seq[i] # seq[j]
  BY <1>1, <1>2 DEF SetToSeqs
<1>4. seq \in Injection(1..n, V)
  BY <1>3 DEF Injection, IsInjective
<1>5. Cardinality(1..n) = n
  BY FS_Interval
<1>6. seq \in Surjection(1..n, V)
  BY <1>1, <1>4, <1>5, FS_Injection
<1>7. ASSUME NEW i \in 1..n, NEW j \in 1..n, i < j PROVE seq[i][1] <= seq[j][1]
  <2>1. Earlier(seq[i], seq[j]) /\ seq[i] \in Int \X Int /\ seq[j] \in Int \X Int
    BY <1>2, <1>3, <1>7
  <2> QED
    BY <2>1 DEF Earlier
<1> QED
  BY <1>3, <1>6, <1>7 DEF Surjection, Ordered

-----------------------------------------------------------------------------
(* Folds over a sequence.                                                  *)

(* A fold over seq: g[1..k] is what the first k elements come to.          *)
IsFold(g, F, base, seq, n) ==
  g = [s \in SUBSET (1..n) |->
         IF s = {} THEN base ELSE F[<<g[s \ {Max(s)}], seq[Max(s)]>>]]

(* The greatest of some positions.                                         *)
LEMMA MaxOf ==
  ASSUME NEW n \in Nat, NEW s \in SUBSET (1..n), s # {}
  PROVE  /\ Max(s) \in s /\ \A x \in s : x <= Max(s)
         /\ s \ {Max(s)} \subseteq 1..(n - 1)
<1>1. \E x \in s : \A y \in s : x >= y
  <2> DEFINE U == {n - b : b \in s}
  <2>1. U \in SUBSET Nat /\ U # {}
    <3>1. \A b \in s : n - b \in Nat
      OBVIOUS
    <3> QED
      BY <3>1
  <2>2. PICK u \in U : \A v \in U : u <= v
    <3> HIDE DEF U
    <3> QED
      BY <2>1, NatMin
  <2>3. PICK x \in s : u = n - x
    OBVIOUS
  <2>4. ASSUME NEW b \in s PROVE x >= b
    <3>1. n - x <= n - b
      BY <2>2, <2>3
    <3> QED
      BY <3>1
  <2> QED
    BY <2>4
<1>2. Max(s) \in s /\ \A x \in s : x <= Max(s)
  BY <1>1 DEF Max
<1>3. ASSUME NEW x \in s, x # Max(s) PROVE x \in 1..(n - 1)
  <2>1. PICK top \in 1..n : top = Max(s)
    BY <1>2
  <2>2. x \in 1..n /\ x <= top /\ x # top
    BY <1>2, <1>3, <2>1
  <2> QED
    BY <2>2
<1> QED
  BY <1>2, <1>3

LEMMA FoldExists ==
  ASSUME NEW n \in Nat, NEW State, NEW W, NEW F \in [State \X W -> State],
         NEW base \in State, NEW seq \in [1..n -> W]
  PROVE  \E g \in [SUBSET (1..n) -> State] : IsFold(g, F, base, seq, n)
<1> DEFINE P(m) == \E g \in [SUBSET (1..m) -> State] : IsFold(g, F, base, seq, m)
           Q == {m \in 0..n : P(m)}
<1>1. P(0)
  <2>1. 1..0 = {}
    OBVIOUS
  <2>2. PICK g : g = [s \in SUBSET (1..0) |-> base]
    OBVIOUS
  <2>3. g \in [SUBSET (1..0) -> State] /\ IsFold(g, F, base, seq, 0)
    BY <2>1, <2>2 DEF IsFold
  <2> QED
    BY <2>3
<1>2. ASSUME NEW m \in 1..n, P(m - 1) PROVE P(m)
  <2>1. PICK g \in [SUBSET (1..(m - 1)) -> State] : IsFold(g, F, base, seq, m - 1)
    BY <1>2
  <2>2. \A s \in SUBSET (1..(m - 1)) :
          g[s] = IF s = {} THEN base ELSE F[<<g[s \ {Max(s)}], seq[Max(s)]>>]
    BY <2>1 DEF IsFold
  <2>3. PICK f : f = [s \in SUBSET (1..m) |->
                        IF s = {} THEN base ELSE F[<<g[s \ {Max(s)}], seq[Max(s)]>>]]
    OBVIOUS
  <2>4. \A s \in SUBSET (1..(m - 1)) : s \in SUBSET (1..m) /\ f[s] = g[s]
    <3>1. 1..(m - 1) \subseteq 1..m
      OBVIOUS
    <3> QED
      BY <2>2, <2>3, <3>1
  <2>5. ASSUME NEW s \in SUBSET (1..m), s # {}
        PROVE  Max(s) \in 1..n /\ s \ {Max(s)} \in SUBSET (1..(m - 1))
    <3>1. m \in Nat
      OBVIOUS
    <3>2. Max(s) \in s /\ s \ {Max(s)} \subseteq 1..(m - 1)
      BY <2>5, <3>1, MaxOf
    <3>3. 1..m \subseteq 1..n
      OBVIOUS
    <3> QED
      BY <3>2, <3>3, Zenon
  <2>6. f \in [SUBSET (1..m) -> State]
    <3> SUFFICES ASSUME NEW s \in SUBSET (1..m) PROVE f[s] \in State
      BY <2>3
    <3>1. CASE s = {}
      BY <2>3, <3>1
    <3>2. CASE s # {}
      <4>1. g[s \ {Max(s)}] \in State /\ seq[Max(s)] \in W
        BY <2>5, <3>2
      <4> QED
        BY <4>1, <3>2, <2>3
    <3> QED
      BY <3>1, <3>2
  <2>7. \A s \in SUBSET (1..m) :
          s # {} => g[s \ {Max(s)}] = f[s \ {Max(s)}]
    BY <2>4, <2>5
  <2>8. f = [s \in SUBSET (1..m) |->
               IF s = {} THEN base ELSE F[<<f[s \ {Max(s)}], seq[Max(s)]>>]]
    BY <2>3, <2>7
  <2> QED
    BY <2>6, <2>8 DEF IsFold
<1> HIDE DEF P
<1>3. 0 \in Q /\ \A k \in 1..n : k - 1 \in Q => k \in Q
  BY <1>1, <1>2
<1> HIDE DEF Q
<1>4. n \in Q
  <2>1. \A k \in 0..n : k \in Q
    BY <1>3, Upto
  <2> QED
    BY <2>1
<1>5. P(n)
  BY <1>4 DEF Q
<1> QED
  BY <1>5 DEF P

(* Along the sequence.                                                     *)
LEMMA Positions ==
  ASSUME NEW n \in Nat, NEW k \in 1..n
  PROVE  /\ 1..k \in SUBSET (1..n) /\ 1..k # {}
         /\ Max(1..k) = k /\ (1..k) \ {Max(1..k)} = 1..(k - 1)
<1>1. PICK s \in SUBSET (1..k) : s = 1..k
  OBVIOUS
<1>2. k \in s /\ k \in Nat
  BY <1>1
<1>3. Max(s) \in s /\ k <= Max(s)
  BY <1>2, MaxOf
<1>4. Max(s) = k
  BY <1>1, <1>3
<1>5. s \ {k} = 1..(k - 1)
  BY <1>1
<1> QED
  BY <1>1, <1>2, <1>4, <1>5

-----------------------------------------------------------------------------
(* The intervals of an edge, outage after outage.                          *)

Cutting(o, c, a) == IF a > c THEN Append(o, <<c, a>>) ELSE o

CutBy(s, w) == [cur |-> Later(s.cur, w[2]),
                out |-> IF w[1] > s.cur THEN Append(s.out, <<s.cur, w[1]>>) ELSE s.out]

CutStart == [cur |-> 0, out |-> <<>>]

IsCut(g, seq) ==
  g = [s \in SUBSET (DOMAIN seq) |->
         IF s = {} THEN [cur |-> 0, out |-> <<>>]
         ELSE LET w == seq[Max(s)]
                  r == g[s \ {Max(s)}]
              IN  [cur |-> Later(r.cur, w[2]),
                   out |-> IF w[1] > r.cur THEN Append(r.out, <<r.cur, w[1]>>) ELSE r.out]]

LEMMA CutExists ==
  ASSUME NEW n \in Nat, NEW seq \in [1..n -> Nat \X Nat]
  PROVE  \E g : IsCut(g, seq)
<1> DEFINE State == [cur : Nat, out : Seq(Nat \X Nat)]
           W == Nat \X Nat
           F == [x \in State \X W |-> CutBy(x[1], x[2])]
<1>1. ASSUME NEW s \in State, NEW w \in W PROVE CutBy(s, w) \in State
  <2>1. s.cur \in Nat /\ w[1] \in Nat /\ w[2] \in Nat /\ Later(s.cur, w[2]) \in Nat
    BY DEF Later
  <2>2. s.out \in Seq(Nat \X Nat) /\ <<s.cur, w[1]>> \in Nat \X Nat
    BY <2>1
  <2>3. Append(s.out, <<s.cur, w[1]>>) \in Seq(Nat \X Nat)
    BY <2>2
  <2> QED
    BY <2>1, <2>2, <2>3 DEF CutBy
<1>2. F \in [State \X W -> State]
  <2>1. ASSUME NEW x \in State \X W PROVE CutBy(x[1], x[2]) \in State
    BY <1>1
  <2> QED
    BY <2>1
<1>3. CutStart \in State
  BY DEF CutStart
<1> HIDE DEF State, W
<1>4. PICK g \in [SUBSET (1..n) -> State] : IsFold(g, F, CutStart, seq, n)
  <2> HIDE DEF F
  <2>1. seq \in [1..n -> W]
    BY DEF W
  <2> QED
    BY <2>1, <1>2, <1>3, FoldExists
<1>5. ASSUME NEW s \in SUBSET (1..n), s # {}
      PROVE  F[<<g[s \ {Max(s)}], seq[Max(s)]>>] = CutBy(g[s \ {Max(s)}], seq[Max(s)])
  <2>1. Max(s) \in 1..n
    BY <1>5, MaxOf
  <2>2. g[s \ {Max(s)}] \in State /\ seq[Max(s)] \in W
    BY <2>1 DEF W
  <2> QED
    BY <2>2
<1>6. g = [s \in SUBSET (1..n) |->
             IF s = {} THEN CutStart ELSE CutBy(g[s \ {Max(s)}], seq[Max(s)])]
  BY <1>4, <1>5 DEF IsFold
<1>7. DOMAIN seq = 1..n
  OBVIOUS
<1> QED
  BY <1>6, <1>7 DEF IsCut, CutStart, CutBy

IsCutting(downs, n, seq, st) ==
  /\ Ordered(seq, downs, n)
  /\ st[0] = CutStart
  /\ \A k \in 1..n : st[k] = CutBy(st[k - 1], seq[k])
  /\ Intervals(downs) = Append(st[n].out, <<st[n].cur, Null>>)

LEMMA IntervalSteps ==
  ASSUME NEW downs \in SUBSET (Nat \X Nat), IsFiniteSet(downs)
  PROVE  \E n \in Nat : \E seq, st : IsCutting(downs, n, seq, st)
<1>1. PICK seq : seq = InOrder(downs)
  OBVIOUS
<1>2. PICK n \in Nat : Ordered(seq, downs, n)
  <2>1. downs \subseteq Int \X Int
    OBVIOUS
  <2> QED
    BY <1>1, <2>1, InOrderIs
<1>3. PICK g : g = CHOOSE h : IsCut(h, seq)
  OBVIOUS
<1>4. IsCut(g, seq)
  <2>1. seq \in [1..n -> Nat \X Nat]
    BY <1>2 DEF Ordered
  <2> QED
    BY <1>3, <2>1, CutExists
<1>5. DOMAIN seq = 1..n
  BY <1>2 DEF Ordered
<1>6. Intervals(downs) = Append(g[1..n].out, <<g[1..n].cur, Null>>)
  <2>1. Intervals(downs) = Append(g[DOMAIN seq].out, <<g[DOMAIN seq].cur, Null>>)
    BY <1>1, <1>3 DEF Intervals, FoldLeft, MapThenFoldSet, IsCut
  <2> QED
    BY <2>1, <1>5
<1>7. PICK st : st = [k \in 0..n |-> g[1..k]]
  OBVIOUS
<1>8. \A s \in SUBSET (1..n) :
         g[s] = IF s = {} THEN CutStart ELSE CutBy(g[s \ {Max(s)}], seq[Max(s)])
  BY <1>4, <1>5 DEF IsCut, CutStart, CutBy
<1>9. st[0] = CutStart
  <2>1. 1..0 = {}
    OBVIOUS
  <2>2. g[{}] = CutStart
    BY <1>8
  <2> QED
    BY <2>1, <2>2, <1>7
<1>10. ASSUME NEW k \in 1..n PROVE st[k] = CutBy(st[k - 1], seq[k])
  <2>1. /\ 1..k \in SUBSET (1..n) /\ 1..k # {}
        /\ Max(1..k) = k /\ (1..k) \ {Max(1..k)} = 1..(k - 1)
    BY Positions
  <2>2. st[k] = g[1..k] /\ st[k - 1] = g[1..(k - 1)]
    BY <1>7
  <2> QED
    BY <2>1, <2>2, <1>8
<1>11. st[n] = g[1..n]
  BY <1>7
<1> QED
  BY <1>2, <1>6, <1>9, <1>10, <1>11 DEF IsCutting

(* After k outages: where the last of them ends, what lies between those   *)
(* before it, and which instants those intervals hold.                     *)
Covers(w, t) == w[1] <= t /\ t < w[2]
HeldBy(o, t) == \E m \in 1..Len(o) : Covers(o[m], t)
FreeOf(lo, hi, k, t) == \A i \in 1..k : ~ (lo[i] <= t /\ t < hi[i])

Chained(o, c) ==
  /\ \A m \in 1..Len(o) : o[m][1] < o[m][2] /\ o[m][2] <= c
  /\ \A m \in 1..(Len(o) - 1) : o[m][2] <= o[m + 1][1]

Reached(hi, k, c) ==
  /\ \A i \in 1..k : hi[i] <= c
  /\ c = 0 \/ \E i \in 1..k : hi[i] = c

HeldIfFree(lo, hi, k, c, o) ==
  \A t \in Nat : HeldBy(o, t) <=> t < c /\ FreeOf(lo, hi, k, t)

CutSoFar(lo, hi, k, c, o) ==
  /\ c \in Nat /\ o \in Seq(Nat \X Nat)
  /\ Reached(hi, k, c)
  /\ Chained(o, c)
  /\ HeldIfFree(lo, hi, k, c, o)

LEMMA OneMore ==
  ASSUME NEW W, NEW o \in Seq(W), NEW x \in W, NEW p, p = Append(o, x)
  PROVE  /\ p \in Seq(W) /\ Len(o) \in Nat /\ Len(p) = Len(o) + 1 /\ Len(p) - 1 = Len(o)
         /\ \A m \in 1..Len(o) : p[m] = o[m]
         /\ p[Len(o) + 1] = x
         /\ 1..Len(p) = 1..Len(o) \cup {Len(o) + 1}
<1>1. PICK len \in Nat : len = Len(o)
  OBVIOUS
<1>2. /\ p \in Seq(W) /\ Len(p) = len + 1
      /\ \A m \in 1..len : p[m] = o[m]
      /\ p[len + 1] = x
  BY <1>1
<1>3. 1..(len + 1) = 1..len \cup {len + 1} /\ len + 1 - 1 = len
  OBVIOUS
<1>4. Len(o) \in Nat /\ Len(p) = Len(o) + 1 /\ Len(p) - 1 = Len(o)
  BY <1>1, <1>2, <1>3
<1>5. (\A m \in 1..Len(o) : p[m] = o[m]) /\ p[Len(o) + 1] = x
  BY <1>1, <1>2
<1>6. 1..Len(p) = 1..Len(o) \cup {Len(o) + 1}
  BY <1>1, <1>2, <1>3
<1> QED
  BY <1>2, <1>4, <1>5, <1>6

LEMMA ChainedOn ==
  ASSUME NEW o \in Seq(Nat \X Nat), NEW c \in Nat, Chained(o, c),
         NEW d \in Nat, NEW e \in Nat, NEW b \in Nat,
         c <= d, d < e, e <= b, NEW p, p = Append(o, <<d, e>>)
  PROVE  Chained(p, b)
<1>1. PICK len \in Nat : len = Len(o)
  OBVIOUS
<1>2. /\ Len(p) = len + 1 /\ Len(p) - 1 = len
      /\ \A m \in 1..len : p[m] = o[m]
      /\ p[len + 1] = <<d, e>>
      /\ 1..Len(p) = 1..len \cup {len + 1}
  BY <1>1, OneMore
<1>3. /\ \A m \in 1..len : o[m][1] < o[m][2] /\ o[m][2] <= c
      /\ \A m \in 1..(len - 1) : o[m][2] <= o[m + 1][1]
  BY <1>1 DEF Chained
<1>4. \A m \in 1..len : o[m][1] \in Nat /\ o[m][2] \in Nat
  BY <1>1
<1>5. ASSUME NEW m \in 1..len PROVE p[m][1] < p[m][2] /\ p[m][2] <= b
  <2>1. PICK x, y \in Nat : x = o[m][1] /\ y = o[m][2]
    BY <1>4
  <2>2. x < y /\ y <= c
    BY <2>1, <1>3
  <2>3. y <= b
    BY <2>2
  <2> QED
    BY <2>1, <2>2, <2>3, <1>2
<1>6. p[len + 1][1] = d /\ p[len + 1][2] = e
  BY <1>2
<1>7. ASSUME NEW m \in 1..len PROVE p[m][2] <= p[m + 1][1]
  <2>1. CASE m = len
    <3>1. PICK y \in Nat : y = o[m][2]
      BY <1>4
    <3>2. y <= d
      BY <3>1, <1>3
    <3> QED
      BY <2>1, <3>1, <3>2, <1>2, <1>6
  <2>2. CASE m # len
    <3>1. m \in 1..(len - 1) /\ m + 1 \in 1..len
      BY <2>2
    <3> QED
      BY <3>1, <1>2, <1>3
  <2> QED
    BY <2>1, <2>2
<1>8. \A m \in 1..Len(p) : p[m][1] < p[m][2] /\ p[m][2] <= b
  BY <1>2, <1>5, <1>6
<1> QED
  BY <1>2, <1>7, <1>8 DEF Chained

LEMMA HeldOn ==
  ASSUME NEW o \in Seq(Nat \X Nat), NEW d \in Nat, NEW e \in Nat,
         NEW p, p = Append(o, <<d, e>>), NEW t \in Nat
  PROVE  HeldBy(p, t) <=> HeldBy(o, t) \/ Covers(<<d, e>>, t)
<1>1. /\ \A m \in 1..Len(o) : p[m] = o[m]
      /\ p[Len(o) + 1] = <<d, e>>
      /\ 1..Len(p) = 1..Len(o) \cup {Len(o) + 1}
  BY OneMore
<1>3. HeldBy(p, t) <=> \E m \in 1..Len(o) \cup {Len(o) + 1} : Covers(p[m], t)
  BY <1>1, Zenon DEF HeldBy
<1>4. HeldBy(o, t) <=> \E m \in 1..Len(o) : Covers(p[m], t)
  BY <1>1, Zenon DEF HeldBy
<1>5. HeldBy(p, t) <=> HeldBy(o, t) \/ Covers(p[Len(o) + 1], t)
  BY <1>3, <1>4, Zenon
<1> QED
  BY <1>1, <1>5, Zenon

LEMMA FreeOn ==
  ASSUME NEW lo, NEW hi, NEW k \in Nat, NEW j, j = k + 1, NEW t
  PROVE  FreeOf(lo, hi, j, t) <=> FreeOf(lo, hi, k, t) /\ ~ (lo[j] <= t /\ t < hi[j])
<1>1. 1..j = 1..k \cup {j}
  OBVIOUS
<1> QED
  BY <1>1, Zenon DEF FreeOf

Outages(lo, hi, n) ==
  /\ lo \in [1..n -> Nat] /\ hi \in [1..n -> Nat]
  /\ \A i \in 1..n : lo[i] < hi[i]
  /\ \A i, j \in 1..n : i < j => lo[i] <= lo[j]

Behind(lo, hi, k, a, c) ==
  \A i \in 1..k : /\ lo[i] \in Nat /\ hi[i] \in Nat
                  /\ lo[i] <= a /\ hi[i] <= c

LEMMA CutBounds ==
  ASSUME NEW n \in Nat, NEW lo, NEW hi, Outages(lo, hi, n),
         NEW k \in Nat, NEW j \in 1..n, j = k + 1,
         NEW c, NEW o, CutSoFar(lo, hi, k, c, o),
         NEW a \in Nat, a = lo[j], NEW b \in Nat, b = hi[j]
  PROVE  a < b /\ Behind(lo, hi, k, a, c)
<1>1. \A i \in 1..k : i \in 1..n /\ i < j
  OBVIOUS
<1> QED
  BY <1>1 DEF CutSoFar, Outages, Behind, Reached

(* The cut reaches as far as some outage and no further.                   *)
LEMMA CutReach ==
  ASSUME NEW k \in Nat, NEW j, j = k + 1, NEW c \in Nat, NEW b \in Nat,
         NEW lo, NEW hi, b = hi[j], NEW a, Behind(lo, hi, k, a, c), Reached(hi, k, c),
         NEW d, d = Later(c, b)
  PROVE  d \in Nat /\ c <= d /\ b <= d /\ Reached(hi, j, d)
<1>1. 1..j = 1..k \cup {j}
  OBVIOUS
<1>2. d \in Nat /\ c <= d /\ b <= d /\ d \in {b, c}
  BY DEF Later
<1>3. ASSUME NEW i \in 1..k PROVE hi[i] <= d
  <2>1. hi[i] \in Nat /\ hi[i] <= c
    BY DEF Behind
  <2> QED
    BY <2>1, <1>2
<1>4. d = 0 \/ \E i \in 1..j : hi[i] = d
  <2>1. c = 0 \/ \E i \in 1..k : hi[i] = c
    BY DEF Reached
  <2> QED
    BY <1>1, <1>2, <2>1
<1> QED
  BY <1>1, <1>2, <1>3, <1>4 DEF Reached

(* An outage that begins after the cut leaves an interval before it.       *)
LEMMA CutOver ==
  ASSUME NEW k \in Nat, NEW j, j = k + 1, NEW c \in Nat, NEW o \in Seq(Nat \X Nat),
         NEW lo, NEW hi, Chained(o, c), HeldIfFree(lo, hi, k, c, o),
         NEW a \in Nat, a = lo[j], NEW b \in Nat, b = hi[j], a < b,
         Behind(lo, hi, k, a, c),
         c < a, NEW p, p = Append(o, <<c, a>>)
  PROVE  p \in Seq(Nat \X Nat) /\ Chained(p, b) /\ HeldIfFree(lo, hi, j, b, p)
<1>1. <<c, a>> \in Nat \X Nat
  OBVIOUS
<1>2. p \in Seq(Nat \X Nat)
  BY <1>1
<1>4. Chained(p, b)
  <2>1. c <= c /\ a <= b
    OBVIOUS
  <2> QED
    BY <2>1, ChainedOn
<1>5. ASSUME NEW t \in Nat
      PROVE  HeldBy(p, t) <=> t < b /\ FreeOf(lo, hi, j, t)
  <2>1. HeldBy(p, t) <=> HeldBy(o, t) \/ (c <= t /\ t < a)
    <3>1. HeldBy(p, t) <=> HeldBy(o, t) \/ Covers(<<c, a>>, t)
      BY HeldOn
    <3>2. Covers(<<c, a>>, t) <=> c <= t /\ t < a
      BY DEF Covers
    <3> QED
      BY <3>1, <3>2, Zenon
  <2>2. ASSUME c <= t, NEW i \in 1..k PROVE ~ (lo[i] <= t /\ t < hi[i])
    <3>1. hi[i] \in Nat /\ hi[i] <= c
      BY DEF Behind
    <3> QED
      BY <2>2, <3>1
  <2>3. c <= t => FreeOf(lo, hi, k, t)
    BY <2>2 DEF FreeOf
  <2>4. FreeOf(lo, hi, j, t) <=> FreeOf(lo, hi, k, t) /\ ~ (a <= t /\ t < b)
    BY FreeOn
  <2>5. HeldBy(o, t) <=> t < c /\ FreeOf(lo, hi, k, t)
    BY DEF HeldIfFree
  <2>6. /\ t < c => t < a /\ t < b
        /\ t < a => t < b
        /\ ~ (t < c) <=> c <= t
        /\ ~ (t < a) <=> a <= t
    OBVIOUS
  <2> QED
    BY <2>1, <2>3, <2>4, <2>5, <2>6, Zenon
<1> QED
  BY <1>2, <1>4, <1>5 DEF HeldIfFree

(* One that begins before the cut leaves none.                             *)
LEMMA CutWithin ==
  ASSUME NEW k \in Nat, NEW j, j = k + 1, NEW c \in Nat, NEW o \in Seq(Nat \X Nat),
         NEW lo, NEW hi, Chained(o, c), HeldIfFree(lo, hi, k, c, o), Reached(hi, k, c),
         NEW a \in Nat, a = lo[j], NEW b \in Nat, b = hi[j],
         Behind(lo, hi, k, a, c),
         a <= c, NEW d \in Nat, c <= d, b <= d, d \in {b, c}
  PROVE  Chained(o, d) /\ HeldIfFree(lo, hi, j, d, o)
<1>2. Chained(o, d)
  <2>1. ASSUME NEW m \in 1..Len(o) PROVE o[m][2] <= d
    <3>1. o[m] \in Nat \X Nat
      OBVIOUS
    <3>2. PICK y \in Nat : y = o[m][2]
      BY <3>1
    <3>3. o[m][2] <= c
      BY DEF Chained
    <3> QED
      BY <3>2, <3>3
  <2> QED
    BY <2>1 DEF Chained
<1>3. ASSUME NEW t \in Nat
      PROVE  HeldBy(o, t) <=> t < d /\ FreeOf(lo, hi, j, t)
  <2>1. HeldBy(o, t) <=> t < c /\ FreeOf(lo, hi, k, t)
    BY DEF HeldIfFree
  <2>2. FreeOf(lo, hi, j, t) <=> FreeOf(lo, hi, k, t) /\ ~ (a <= t /\ t < b)
    BY FreeOn
  <2>3. ASSUME t < c, FreeOf(lo, hi, k, t) PROVE t < a
    <3>1. c # 0
      BY <2>3
    <3>2. PICK i \in 1..k : hi[i] = c
      BY <3>1 DEF Reached
    <3>3. lo[i] \in Nat /\ lo[i] <= a
      BY DEF Behind
    <3>4. ~ (lo[i] <= t /\ t < hi[i])
      BY <2>3 DEF FreeOf
    <3>5. ~ (lo[i] <= t)
      BY <3>2, <3>4, <2>3
    <3> QED
      BY <3>3, <3>5
  <2>4. /\ t < c => t < d
        /\ t < a => ~ (a <= t)
        /\ t < d /\ ~ (t < c) => a <= t /\ t < b
    OBVIOUS
  <2> QED
    BY <2>1, <2>2, <2>3, <2>4, Zenon
<1> QED
  BY <1>2, <1>3 DEF HeldIfFree

LEMMA CutOn ==
  ASSUME NEW n \in Nat, NEW lo, NEW hi, Outages(lo, hi, n),
         NEW k \in Nat, NEW j \in 1..n, j = k + 1,
         NEW c \in Nat, NEW o \in Seq(Nat \X Nat), CutSoFar(lo, hi, k, c, o),
         NEW a \in Nat, a = lo[j], NEW b \in Nat, b = hi[j],
         NEW d, d = Later(c, b),
         NEW p, p = Cutting(o, c, a)
  PROVE  CutSoFar(lo, hi, j, d, p)
<1>1. a < b /\ Behind(lo, hi, k, a, c)
  BY CutBounds
<1>2. Reached(hi, k, c) /\ Chained(o, c) /\ HeldIfFree(lo, hi, k, c, o)
  BY DEF CutSoFar
<1>3. d \in Nat /\ c <= d /\ b <= d /\ Reached(hi, j, d)
  BY <1>1, <1>2, CutReach
<1>4. CASE a > c
  <2>1. c < a /\ p = Append(o, <<c, a>>)
    BY <1>4 DEF Cutting
  <2>2. d = b
    BY <1>1, <2>1 DEF Later
  <2>3. p \in Seq(Nat \X Nat) /\ Chained(p, b) /\ HeldIfFree(lo, hi, j, b, p)
    BY <2>1, <1>1, <1>2, CutOver, ZenonT(60)
  <2> QED
    BY <2>2, <2>3, <1>3, Zenon DEF CutSoFar
<1>5. CASE ~ (a > c)
  <2>1. a <= c /\ p = o /\ d \in {b, c}
    BY <1>5 DEF Later, Cutting
  <2>2. Chained(o, d) /\ HeldIfFree(lo, hi, j, d, o)
    BY <2>1, <1>1, <1>2, <1>3, CutWithin
  <2> QED
    BY <2>1, <2>2, <1>3, Zenon DEF CutSoFar
<1> QED
  BY <1>4, <1>5

(* The intervals are in order and apart, the last one open, and an instant *)
(* is in one of them unless an outage covers it.                           *)
LEMMA IntervalsAre ==
  ASSUME NEW downs \in SUBSET (Nat \X Nat), IsFiniteSet(downs),
         \A w \in downs : w[1] < w[2], NEW iv, iv = Intervals(downs)
  PROVE  /\ Len(iv) \in Nat /\ Len(iv) # 0 /\ DOMAIN iv = 1..Len(iv)
         /\ \A m \in 1..(Len(iv) - 1) : iv[m][1] < iv[m][2] /\ iv[m][2] <= iv[m + 1][1]
         /\ iv[Len(iv)][2] = Null
         /\ \A t \in Nat : (\E m \in DOMAIN iv : Holds(iv[m], t))
                           <=> \A w \in downs : ~Covers(w, t)
<1>1. PICK n \in Nat : \E seq, st : IsCutting(downs, n, seq, st)
  BY IntervalSteps
<1>2. PICK seq, st : IsCutting(downs, n, seq, st)
  BY <1>1
<1>3. PICK lo, hi : lo = [i \in 1..n |-> seq[i][1]] /\ hi = [i \in 1..n |-> seq[i][2]]
  OBVIOUS
<1>0. /\ seq \in [1..n -> downs] /\ \A x \in downs : \E i \in 1..n : seq[i] = x
      /\ \A i, j \in 1..n : i < j => seq[i][1] <= seq[j][1]
      /\ st[0] = CutStart /\ \A k \in 1..n : st[k] = CutBy(st[k - 1], seq[k])
      /\ iv = Append(st[n].out, <<st[n].cur, Null>>)
  BY <1>2 DEF IsCutting, Ordered
<1>4. Outages(lo, hi, n)
  <2>1. \A i \in 1..n : seq[i] \in downs /\ seq[i] \in Nat \X Nat
    BY <1>0
  <2>2. \A i \in 1..n : lo[i] = seq[i][1] /\ hi[i] = seq[i][2]
    BY <1>3
  <2>3. lo \in [1..n -> Nat] /\ hi \in [1..n -> Nat]
    BY <1>3, <2>1
  <2> QED
    BY <2>1, <2>2, <2>3, <1>0 DEF Outages
<1> DEFINE Q == {k \in 0..n : CutSoFar(lo, hi, k, st[k].cur, st[k].out)}
<1>5. 0 \in Q
  <2>1. st[0].cur = 0 /\ st[0].out = <<>>
    BY <1>0 DEF CutStart
  <2>2. CutSoFar(lo, hi, 0, 0, <<>>)
    BY DEF CutSoFar, Chained, HeldBy, FreeOf, Reached, HeldIfFree
  <2> QED
    BY <2>1, <2>2
<1>6. ASSUME NEW m \in 1..n, m - 1 \in Q PROVE m \in Q
  <2>1. PICK k \in Nat : k = m - 1 /\ m = k + 1
    OBVIOUS
  <2>2. PICK c \in Nat : c = st[k].cur
    BY <2>1, <1>6 DEF CutSoFar
  <2>3. PICK o \in Seq(Nat \X Nat) : o = st[k].out
    BY <2>1, <1>6 DEF CutSoFar
  <2>4. PICK a, b \in Nat : a = lo[m] /\ b = hi[m]
    BY <1>4 DEF Outages
  <2>5. st[m] = CutBy(st[k], seq[m]) /\ a = seq[m][1] /\ b = seq[m][2]
    BY <2>1, <2>4, <1>0, <1>3
  <2>6. PICK d : d = Later(c, b)
    OBVIOUS
  <2>7. PICK p : p = Cutting(o, c, a)
    OBVIOUS
  <2>8. st[m].cur = d /\ st[m].out = p
    BY <2>2, <2>3, <2>5, <2>6, <2>7 DEF CutBy, Cutting
  <2>9. CutSoFar(lo, hi, k, c, o)
    BY <2>1, <2>2, <2>3, <1>6
  <2>11. CutSoFar(lo, hi, m, d, p)
    BY <2>1, <2>4, <2>6, <2>7, <2>9, <1>4, CutOn
  <2> QED
    BY <2>8, <2>11
<1>7. CutSoFar(lo, hi, n, st[n].cur, st[n].out)
  <2>1. \A k \in 0..n : k \in Q
    <3> HIDE DEF Q
    <3> QED
      BY <1>5, <1>6, Upto
  <2> QED
    BY <2>1
<1>8. PICK c \in Nat : c = st[n].cur
  BY <1>7 DEF CutSoFar
<1>9. PICK o \in Seq(Nat \X Nat) : o = st[n].out
  BY <1>7 DEF CutSoFar
<1>10. CutSoFar(lo, hi, n, c, o)
  BY <1>7, <1>8, <1>9
<1>11. PICK len \in Nat : len = Len(o)
  OBVIOUS
<1>12. /\ Len(iv) = len + 1 /\ DOMAIN iv = 1..Len(iv) /\ Len(iv) - 1 = len
       /\ \A m \in 1..len : iv[m] = o[m]
       /\ iv[len + 1] = <<c, Null>>
       /\ 1..Len(iv) = 1..len \cup {len + 1}
  <2>1. iv = Append(o, <<c, Null>>)
    BY <1>0, <1>8, <1>9
  <2>2. o \in Seq(Int \X Int) /\ <<c, Null>> \in Int \X Int
    BY DEF Null
  <2>3. iv \in Seq(Int \X Int)
    BY <2>1, <2>2
  <2> QED
    BY <2>1, <2>2, <2>3, <1>11, OneMore
<1>13. ASSUME NEW m \in 1..len
       PROVE  iv[m][1] < iv[m][2] /\ iv[m][2] <= iv[m + 1][1]
  <2>1. iv[m] = o[m] /\ o[m][1] < o[m][2] /\ o[m][2] <= c
    BY <1>10, <1>11, <1>12 DEF CutSoFar, Chained
  <2>2. CASE m = len
    BY <2>1, <2>2, <1>12
  <2>3. CASE m # len
    <3>1. m \in 1..(len - 1) /\ m + 1 \in 1..len
      BY <2>3
    <3>2. o[m][2] <= o[m + 1][1]
      BY <3>1, <1>10, <1>11 DEF CutSoFar, Chained
    <3> QED
      BY <2>1, <3>1, <3>2, <1>12
  <2> QED
    BY <2>2, <2>3
<1>14. ASSUME NEW t \in Nat
       PROVE  (\E m \in DOMAIN iv : Holds(iv[m], t)) <=> \A w \in downs : ~Covers(w, t)
  <2>1. ASSUME NEW m \in 1..len PROVE Holds(iv[m], t) <=> Covers(iv[m], t)
    <3>1. o[m] \in Nat \X Nat
      BY <1>11
    <3>2. o[m][2] \in Nat
      BY <3>1
    <3>3. o[m][2] # Null
      BY <3>2 DEF Null
    <3>4. iv[m] = o[m]
      BY <1>12
    <3> QED
      BY <3>3, <3>4, Zenon DEF Holds, Covers
  <2>2. Holds(iv[len + 1], t) <=> c <= t
    BY <1>12 DEF Holds
  <2>3. (\E m \in DOMAIN iv : Holds(iv[m], t))
        <=> (\E m \in 1..len : Holds(iv[m], t)) \/ Holds(iv[len + 1], t)
    BY <1>12, Zenon
  <2>4. (\E m \in 1..len : Holds(iv[m], t)) <=> HeldBy(o, t)
    BY <2>1, <1>11, <1>12, Zenon DEF HeldBy
  <2>5. HeldBy(o, t) <=> t < c /\ FreeOf(lo, hi, n, t)
    BY <1>10 DEF CutSoFar, HeldIfFree
  <2>6. c <= t => FreeOf(lo, hi, n, t)
    <3>1. ASSUME c <= t, NEW i \in 1..n PROVE ~ (lo[i] <= t /\ t < hi[i])
      <4>1. PICK y \in Nat : y = hi[i]
        BY <1>4 DEF Outages
      <4>2. y <= c
        BY <4>1, <1>10 DEF CutSoFar, Reached
      <4> QED
        BY <3>1, <4>1, <4>2
    <3> QED
      BY <3>1 DEF FreeOf
  <2>7. (\A w \in downs : ~Covers(w, t)) <=> FreeOf(lo, hi, n, t)
    <3>1. \A i \in 1..n : Covers(seq[i], t) <=> lo[i] <= t /\ t < hi[i]
      BY <1>3 DEF Covers
    <3>2. (\A w \in downs : ~Covers(w, t)) <=> \A i \in 1..n : ~Covers(seq[i], t)
      <4>1. \A i \in 1..n : seq[i] \in downs
        BY <1>0
      <4> QED
        BY <4>1, <1>0, Zenon
    <3> QED
      BY <3>1, <3>2, Zenon DEF FreeOf
  <2>8. (\E m \in DOMAIN iv : Holds(iv[m], t)) <=> HeldBy(o, t) \/ c <= t
    BY <2>2, <2>3, <2>4, Zenon
  <2>9. t < c \/ c <= t
    OBVIOUS
  <2> QED
    BY <2>5, <2>6, <2>7, <2>8, <2>9, Zenon
<1>15. iv[Len(iv)][2] = Null
  BY <1>12
<1>16. Len(iv) \in Nat /\ Len(iv) # 0 /\ 1..(Len(iv) - 1) = 1..len
  BY <1>12
<1> QED
  BY <1>12, <1>13, <1>14, <1>15, <1>16, Zenon

-----------------------------------------------------------------------------
(* What the operational state shows.                                       *)

Explained(r, ep) ==
  \/ r \in Downed(ep)
  \/ ep.kind = "hard_negative" /\ ep.dev = r[1] /\ Inside(ep, r[3])

(* The outages of the ledger are down in the rows, nothing else is but     *)
(* what a near miss flapped, and an outage is of its whole device.         *)
Shown ==
  /\ \A i \in DOMAIN ledger : Downed(ledger[i]) \subseteq ops
  /\ \A r \in ops : \E i \in DOMAIN ledger : Explained(r, ledger[i])
  /\ \A i \in DOMAIN ledger : ledger[i].kind = "iface_down" => ledger[i].ent = None

LEMMA ShownFrame == ASSUME Shown, UNCHANGED <<ledger, ops>> PROVE Shown'
BY DEF Shown

LEMMA ShownAdded ==
  ASSUME Typed, Shown, NEW ep, NEW d, Added(ep, d), NEW X, ops' = ops \cup X,
         Downed(ep) \subseteq X, \A r \in X : Explained(r, ep),
         ep.kind = "iface_down" => ep.ent = None
  PROVE  Shown'
<1>1. PICK n \in Nat : n = Len(ledger)
  BY AddedFacts
<1>2. /\ DOMAIN ledger = 1..n /\ DOMAIN ledger' = 1..n \cup {n + 1}
      /\ \A i \in 1..n : ledger'[i] = ledger[i]
      /\ ledger'[n + 1] = ep
  <2>1. 1..(n + 1) = 1..n \cup {n + 1}
    OBVIOUS
  <2> QED
    BY <2>1, <1>1, AddedFacts
<1>3. \A i \in DOMAIN ledger' : Downed(ledger'[i]) \subseteq ops'
  BY <1>2 DEF Shown
<1>4. \A r \in ops' : \E i \in DOMAIN ledger' : Explained(r, ledger'[i])
  BY <1>2 DEF Shown
<1>5. \A i \in DOMAIN ledger' : ledger'[i].kind = "iface_down" => ledger'[i].ent = None
  BY <1>2 DEF Shown
<1> QED
  BY <1>3, <1>4, <1>5 DEF Shown, Explained, Downed, Rows, Window, Inside, Failed

LEMMA PlaceShown ==
  ASSUME Typed, Shown, NEW ep, Drawn(ep), NEW motif \in Nat, Place(ep, motif)
  PROVE  Shown'
<1>1. PICK e : e = Laid(ep)
  OBVIOUS
<1>2. Added(e, Labelled(ep, motif)) /\ ops' = ops \cup Downed(ep)
  BY <1>1, PlaceAdds DEF Place
<1>3. /\ e.kind = ep.kind /\ e.dev = ep.dev /\ Window(e) = Window(ep)
      /\ \A b \in Times : Failed(e, b) = Failed(ep, b)
  BY <1>1, LaidFacts
<1>4. Downed(e) = Downed(ep)
  <2>1. Rows(e, Physical) = Rows(ep, Physical)
    BY <1>3 DEF Rows
  <2>2. \A r \in Rows(ep, Physical) : r[3] \in Times
    BY DEF Rows, Window
  <2> QED
    BY <2>1, <2>2, <1>3 DEF Downed
<1>5. e.kind = "iface_down" => e.ent = None
  <2>1. ep \in Entry
    BY DEF Drawn
  <2>2. e.ent = ScopedEntity(ep)
    BY <2>1, <1>1 DEF Laid, Entry
  <2> QED
    BY <2>2, <1>3 DEF ScopedEntity
<1>6. \A r \in Downed(e) : Explained(r, e)
  BY DEF Explained
<1> QED
  BY <1>2, <1>4, <1>5, <1>6, ShownAdded

LEMMA ShownNext ==
  ASSUME DataInv, Shown, [Next]_vars
  PROVE  Shown'
<1>0. Typed
  BY DEF DataInv
<1>1. CASE DrawRoot \/ Hop
  <2>1. PICK ep : /\ Drawn(ep)
                  /\ \/ UNCHANGED <<ledger, ops>>
                     \/ \E motif \in Nat : Place(ep, motif)
    BY <1>1, EpisodeSteps
  <2>2. CASE UNCHANGED <<ledger, ops>>
    BY <2>2, ShownFrame
  <2>3. CASE \E motif \in Nat : Place(ep, motif)
    BY <2>1, <2>3, <1>0, PlaceShown
  <2> QED
    BY <2>1, <2>2, <2>3
<1>2. CASE NearMiss
  <2>1. PICK mech, ep, l :
          /\ NearDrawn(ep, mech) /\ Added(ep, l)
          /\ ops' = ops \/ ops' = ops \cup Flapped(mech, ep)
    BY <1>2, NearSteps
  <2>2. ep.kind = "hard_negative" /\ Downed(ep) = {}
    BY <2>1 DEF NearDrawn, Downed
  <2>3. PICK X : /\ ops' = ops \cup X
                 /\ X = {} \/ X = Flapped(mech, ep)
    BY <2>1
  <2>4. ASSUME NEW r \in X PROVE Explained(r, ep)
    <3>1. Flapped(mech, ep) \subseteq {ep.dev} \X {ep.ent} \X Window(ep)
      BY DEF Flapped, FirstTwo
    <3>2. r[1] = ep.dev /\ r[3] \in Window(ep)
      BY <3>1, <2>3, <2>4
    <3> QED
      BY <3>2, <2>2 DEF Explained, Window
  <2> QED
    BY <2>1, <2>2, <2>3, <2>4, <1>0, ShownAdded
<1>3. CASE EndCascade \/ EndRoots \/ Finish \/ UNCHANGED vars
  <2>1. UNCHANGED <<ledger, ops>>
    BY <1>3 DEF EndCascade, EndRoots, Finish, vars
  <2> QED
    BY <2>1, ShownFrame
<1> QED
  BY <1>1, <1>2, <1>3 DEF Next

LEMMA ShownAlways == Spec => [](DataInv /\ Shown)
<1>1. Init => DataInv /\ Shown
  <2>1. Init => Shown
    BY DEF Init, Shown
  <2> QED
    BY <2>1, InitKeeps
<1>2. (DataInv /\ Shown) /\ [Next]_vars => (DataInv /\ Shown)'
  BY ShownNext, DataNext
<1> QED
  BY <1>1, <1>2, PTL DEF Spec

-----------------------------------------------------------------------------
(* Edges.                                                                  *)

LEMMA EpochBounds ==
  ASSUME NEW b \in Times
  PROVE  b \in Nat /\ Epoch(b) \in Nat
BY Sizes, EpochType DEF Times

LEMMA EdgesFromInv == ASSUME DataInv, Shown PROVE EdgesFollowOutages
<1> SUFFICES ASSUME NEW e \in Edges PROVE
      LET iv == Validity(e)
          At(t, f(_)) == \E i \in Downing(e) : f(ledger[i]) = t
          Impact(ep) == ep.impact
          End(ep) == ep.end
          Valid(t) == \E n \in DOMAIN iv : Holds(iv[n], t)
      IN /\ \A n \in 1..(Len(iv) - 1) :
              iv[n][1] < iv[n][2] /\ iv[n][2] <= iv[n + 1][1]
         /\ iv[Len(iv)][2] = Null
         /\ \A b \in Times :
              /\ ~Valid(Epoch(b)) /\ ~At(Epoch(b), Impact)
                 => \E d \in e.devices : {d} \X Physical \X {b} \subseteq ops
              /\ (\E d \in e.devices, i \in Physical :
                    <<d, i, b>> \in ops
                    /\ ~\E n \in DOMAIN ledger :
                          /\ ledger[n].kind = "hard_negative"
                          /\ ledger[n].dev = d /\ Inside(ledger[n], b))
                 /\ ~At(Epoch(b), End)
                 => ~Valid(Epoch(b))
  BY DEF EdgesFollowOutages
<1>1. PICK downs : downs = {<<ledger[i].impact, ledger[i].end>> : i \in Downing(e)}
  OBVIOUS
<1>2. PICK iv : iv = Validity(e) /\ iv = Intervals(downs)
  BY <1>1 DEF Validity
<1>3. \A i \in Downing(e) : /\ i \in DOMAIN ledger /\ ledger[i].kind = "iface_down"
                            /\ ledger[i].ent = None /\ ledger[i].dev \in e.devices
                            /\ ledger[i].impact \in Nat /\ ledger[i].end \in Nat
                            /\ ledger[i].start \in Nat /\ ledger[i].start < ledger[i].impact
                            /\ ledger[i].impact < ledger[i].end
  <2>1. ASSUME NEW i \in Downing(e)
        PROVE  /\ i \in DOMAIN ledger /\ ledger[i].kind = "iface_down"
               /\ ledger[i].ent = None /\ ledger[i].dev \in e.devices
    BY DEF Downing, Shown, EdgeHit
  <2> QED
    BY <2>1, EpisodeTimes
<1>4. downs \subseteq Nat \X Nat /\ \A w \in downs : w[1] < w[2]
  BY <1>1, <1>3
<1>5. IsFiniteSet(downs)
  <2>1. PICK len \in Nat : DOMAIN ledger = 1..len
    BY DEF DataInv, Typed
  <2>2. IsFiniteSet(Downing(e))
    <3>1. IsFiniteSet(1..len)
      BY FS_Interval
    <3>2. Downing(e) \subseteq 1..len
      BY <2>1, <1>3
    <3> QED
      BY <3>1, <3>2, FS_Subset
  <2>3. PICK D : D = Downing(e)
    OBVIOUS
  <2> DEFINE f(i) == <<ledger[i].impact, ledger[i].end>>
  <2>4. PICK img : img = [i \in D |-> f(i)]
    OBVIOUS
  <2>5. img \in Surjection(D, downs)
    BY <2>3, <2>4, <1>1 DEF Surjection
  <2> QED
    BY <2>2, <2>3, <2>5, FS_Surjection
<1>6. /\ Len(iv) \in Nat /\ Len(iv) # 0 /\ DOMAIN iv = 1..Len(iv)
      /\ \A m \in 1..(Len(iv) - 1) : iv[m][1] < iv[m][2] /\ iv[m][2] <= iv[m + 1][1]
      /\ iv[Len(iv)][2] = Null
      /\ \A t \in Nat : (\E m \in DOMAIN iv : Holds(iv[m], t))
                           <=> \A w \in downs : ~Covers(w, t)
  BY <1>2, <1>4, <1>5, IntervalsAre
<1>7. ASSUME NEW b \in Times
      PROVE  (\E n \in DOMAIN iv : Holds(iv[n], Epoch(b)))
             <=> \A i \in Downing(e) :
                   ~ (ledger[i].impact <= Epoch(b) /\ Epoch(b) < ledger[i].end)
  <2>1. PICK t \in Nat : t = Epoch(b)
    BY EpochBounds
  <2>2. (\E n \in DOMAIN iv : Holds(iv[n], t)) <=> \A w \in downs : ~Covers(w, t)
    BY <1>6
  <2>3. (\A w \in downs : ~Covers(w, t))
        <=> \A i \in Downing(e) : ~Covers(<<ledger[i].impact, ledger[i].end>>, t)
    BY <1>1
  <2>4. \A i : Covers(<<ledger[i].impact, ledger[i].end>>, t)
               <=> ledger[i].impact <= t /\ t < ledger[i].end
    BY DEF Covers
  <2> QED
    BY <2>1, <2>2, <2>3, <2>4, Zenon
<1>8. ASSUME NEW b \in Times,
             ~\E n \in DOMAIN iv : Holds(iv[n], Epoch(b)),
             ~\E i \in Downing(e) : ledger[i].impact = Epoch(b)
      PROVE  \E d \in e.devices : {d} \X Physical \X {b} \subseteq ops
  <2>1. PICK i \in Downing(e) : ledger[i].impact <= Epoch(b) /\ Epoch(b) < ledger[i].end
    BY <1>7, <1>8, Zenon
  <2>2. PICK t \in Nat : t = Epoch(b)
    BY EpochBounds
  <2>3. PICK s, x, y \in Nat : /\ s = ledger[i].start /\ x = ledger[i].impact
                               /\ y = ledger[i].end
    BY <1>3
  <2>4. x < t /\ t <= y /\ s <= t
    BY <2>1, <2>2, <2>3, <1>3, <1>8
  <2>5. b \in Window(ledger[i]) /\ Failed(ledger[i], b)
    BY <2>2, <2>3, <2>4 DEF Window, Inside, Failed
  <2>6. {ledger[i].dev} \X Physical \X {b} \subseteq Downed(ledger[i])
    BY <2>5, <1>3 DEF Downed, Rows
  <2>7. Downed(ledger[i]) \subseteq ops /\ ledger[i].dev \in e.devices
    BY <1>3 DEF Shown
  <2> QED
    BY <2>6, <2>7
<1>9. ASSUME NEW b \in Times, NEW d \in e.devices, NEW p \in Physical,
             <<d, p, b>> \in ops,
             ~\E n \in DOMAIN ledger : /\ ledger[n].kind = "hard_negative"
                                       /\ ledger[n].dev = d /\ Inside(ledger[n], b),
             ~\E i \in Downing(e) : ledger[i].end = Epoch(b)
      PROVE  ~\E n \in DOMAIN iv : Holds(iv[n], Epoch(b))
  <2>1. PICK i \in DOMAIN ledger : Explained(<<d, p, b>>, ledger[i])
    BY <1>9 DEF Shown
  <2>2. <<d, p, b>> \in Downed(ledger[i])
    BY <2>1, <1>9 DEF Explained
  <2>3. /\ ledger[i].kind = "iface_down" /\ ledger[i].dev = d
        /\ Failed(ledger[i], b)
    BY <2>2 DEF Downed, Rows
  <2>4. i \in Downing(e)
    BY <2>3, <1>9 DEF Downing, EdgeHit, Shown
  <2>5. PICK t \in Nat : t = Epoch(b)
    BY EpochBounds
  <2>6. PICK x, y \in Nat : x = ledger[i].impact /\ y = ledger[i].end
    BY <2>4, <1>3
  <2>7. x < t /\ t <= y /\ y # t
    BY <2>3, <2>4, <2>5, <2>6, <1>9 DEF Failed
  <2>8. x <= t /\ t < y
    BY <2>7
  <2> QED
    BY <2>4, <2>5, <2>6, <2>8, <1>7
<1> QED
  BY <1>2, <1>6, <1>8, <1>9

-----------------------------------------------------------------------------
(* Reroutes merged, window after window.                                   *)

JoinBy(out, w) ==
  IF out # <<>> /\ w[1] <= Last(out)[2]
  THEN Append(Front(out), <<Last(out)[1], Later(Last(out)[2], w[2])>>)
  ELSE Append(out, w)

IsJoin(g, seq) ==
  g = [s \in SUBSET (DOMAIN seq) |->
         IF s = {} THEN <<>>
         ELSE LET w == seq[Max(s)]
                  r == g[s \ {Max(s)}]
              IN  IF r # <<>> /\ w[1] <= Last(r)[2]
                  THEN Append(Front(r), <<Last(r)[1], Later(Last(r)[2], w[2])>>)
                  ELSE Append(r, w)]

(* The last element made anew.                                             *)
Renewed(o, p, n, u, v) ==
  /\ Len(o) = n + 1 /\ Len(p) = n + 1
  /\ \A m \in 1..n : p[m] = o[m]
  /\ o[n + 1] = u /\ p[n + 1] = v

LEMMA Relast ==
  ASSUME NEW W, NEW o \in Seq(W), o # <<>>, NEW x \in W
  PROVE  LET p == Append(Front(o), x)
         IN  p \in Seq(W) /\ \E n \in Nat : Renewed(o, p, n, Last(o), x)
<1>1. PICK n \in Nat : Len(o) = n + 1
  <2>1. Len(o) \in Nat /\ Len(o) # 0
    OBVIOUS
  <2>2. Len(o) - 1 \in Nat /\ Len(o) = (Len(o) - 1) + 1
    BY <2>1
  <2> QED
    BY <2>2
<1>0. PICK p : p = Append(Front(o), x)
  OBVIOUS
<1>2. PICK f : f = Front(o)
  OBVIOUS
<1>3. f \in Seq(W) /\ Len(f) = n /\ \A m \in 1..n : f[m] = o[m]
  BY <1>1, <1>2 DEF Front
<1>4. Len(p) = n + 1 /\ p \in Seq(W) /\ p[n + 1] = x /\ \A m \in 1..n : p[m] = f[m]
  BY <1>0, <1>2, <1>3
<1>5. Last(o) = o[n + 1]
  BY <1>1 DEF Last
<1> QED
  BY <1>0, <1>1, <1>3, <1>4, <1>5 DEF Renewed

LEMMA JoinExists ==
  ASSUME NEW n \in Nat, NEW seq \in [1..n -> Nat \X Nat]
  PROVE  \E g : IsJoin(g, seq)
<1> DEFINE State == Seq(Nat \X Nat)
           W == Nat \X Nat
           F == [x \in State \X W |-> JoinBy(x[1], x[2])]
<1>1. ASSUME NEW s \in State, NEW w \in W PROVE JoinBy(s, w) \in State
  <2>1. CASE s # <<>>
    <3>1. Last(s) \in Nat \X Nat /\ Front(s) \in Seq(Nat \X Nat)
      BY <2>1 DEF Last, Front
    <3>2. Last(s)[1] \in Nat /\ Last(s)[2] \in Nat /\ w[2] \in Nat
      BY <3>1
    <3>3. <<Last(s)[1], Later(Last(s)[2], w[2])>> \in Nat \X Nat
      BY <3>2 DEF Later
    <3> QED
      BY <3>1, <3>3 DEF JoinBy
  <2>2. CASE s = <<>>
    BY <2>2 DEF JoinBy
  <2> QED
    BY <2>1, <2>2
<1>2. F \in [State \X W -> State]
  <2>1. ASSUME NEW x \in State \X W PROVE JoinBy(x[1], x[2]) \in State
    BY <1>1
  <2> QED
    BY <2>1
<1>3. <<>> \in State
  OBVIOUS
<1> HIDE DEF State, W
<1>4. PICK g \in [SUBSET (1..n) -> State] : IsFold(g, F, <<>>, seq, n)
  <2> HIDE DEF F
  <2>1. seq \in [1..n -> W]
    BY DEF W
  <2> QED
    BY <2>1, <1>2, <1>3, FoldExists
<1>5. ASSUME NEW s \in SUBSET (1..n), s # {}
      PROVE  F[<<g[s \ {Max(s)}], seq[Max(s)]>>] = JoinBy(g[s \ {Max(s)}], seq[Max(s)])
  <2>1. Max(s) \in 1..n
    BY <1>5, MaxOf
  <2>2. g[s \ {Max(s)}] \in State /\ seq[Max(s)] \in W
    BY <2>1 DEF W
  <2> QED
    BY <2>2
<1>6. g = [s \in SUBSET (1..n) |->
             IF s = {} THEN <<>> ELSE JoinBy(g[s \ {Max(s)}], seq[Max(s)])]
  BY <1>4, <1>5 DEF IsFold
<1>7. DOMAIN seq = 1..n
  OBVIOUS
<1> QED
  BY <1>6, <1>7 DEF IsJoin, JoinBy

IsJoining(wins, n, seq, st) ==
  /\ Ordered(seq, wins, n)
  /\ st[0] = <<>>
  /\ \A k \in 1..n : st[k] = JoinBy(st[k - 1], seq[k])
  /\ Merge(wins) = st[n]

LEMMA MergeSteps ==
  ASSUME NEW wins \in SUBSET (Nat \X Nat), IsFiniteSet(wins)
  PROVE  \E n \in Nat : \E seq, st : IsJoining(wins, n, seq, st)
<1>1. PICK seq : seq = InOrder(wins)
  OBVIOUS
<1>2. PICK n \in Nat : Ordered(seq, wins, n)
  <2>1. wins \subseteq Int \X Int
    OBVIOUS
  <2> QED
    BY <1>1, <2>1, InOrderIs
<1>3. PICK g : g = CHOOSE h : IsJoin(h, seq)
  OBVIOUS
<1>4. IsJoin(g, seq)
  <2>1. seq \in [1..n -> Nat \X Nat]
    BY <1>2 DEF Ordered
  <2> QED
    BY <1>3, <2>1, JoinExists
<1>5. DOMAIN seq = 1..n
  BY <1>2 DEF Ordered
<1>6. Merge(wins) = g[1..n]
  <2>1. Merge(wins) = g[DOMAIN seq]
    BY <1>1, <1>3 DEF Merge, FoldLeft, MapThenFoldSet, IsJoin
  <2> QED
    BY <2>1, <1>5
<1>7. PICK st : st = [k \in 0..n |-> g[1..k]]
  OBVIOUS
<1>8. \A s \in SUBSET (1..n) :
         g[s] = IF s = {} THEN <<>> ELSE JoinBy(g[s \ {Max(s)}], seq[Max(s)])
  BY <1>4, <1>5 DEF IsJoin, JoinBy
<1>9. st[0] = <<>>
  <2>1. 1..0 = {}
    OBVIOUS
  <2>2. g[{}] = <<>>
    BY <1>8
  <2> QED
    BY <2>1, <2>2, <1>7
<1>10. ASSUME NEW k \in 1..n PROVE st[k] = JoinBy(st[k - 1], seq[k])
  <2>1. /\ 1..k \in SUBSET (1..n) /\ 1..k # {}
        /\ Max(1..k) = k /\ (1..k) \ {Max(1..k)} = 1..(k - 1)
    BY Positions
  <2>2. st[k] = g[1..k] /\ st[k - 1] = g[1..(k - 1)]
    BY <1>7
  <2> QED
    BY <2>1, <2>2, <1>8
<1>11. st[n] = g[1..n]
  BY <1>7
<1> QED
  BY <1>2, <1>6, <1>9, <1>10, <1>11 DEF IsJoining

(* After k windows: those joined are apart, within the bounds of the       *)
(* others, and hold the instants that one of the k does.                   *)
Separate(o) ==
  /\ \A m \in 1..Len(o) : o[m][1] < o[m][2]
  /\ \A m \in 1..(Len(o) - 1) : o[m][2] < o[m + 1][1]

Bounded(o, c, e) == \A m \in 1..Len(o) : c <= o[m][1] /\ o[m][2] <= e

HeldIfTaken(lo, hi, k, o) == \A t \in Nat : HeldBy(o, t) <=> ~FreeOf(lo, hi, k, t)

LastBehind(lo, k, o) == o # <<>> => \E i \in 1..k : Last(o)[1] = lo[i]

JoinSoFar(lo, hi, c, e, k, o) ==
  /\ o \in Seq(Nat \X Nat)
  /\ Separate(o) /\ Bounded(o, c, e)
  /\ HeldIfTaken(lo, hi, k, o) /\ LastBehind(lo, k, o)

(* A window after all of those so far.                                     *)
LEMMA JoinBeyond ==
  ASSUME NEW k \in Nat, NEW j, j = k + 1, NEW lo, NEW hi, NEW c \in Nat, NEW e \in Nat,
         NEW o, JoinSoFar(lo, hi, c, e, k, o),
         NEW a \in Nat, a = lo[j], NEW b \in Nat, b = hi[j], a < b, c <= a, b <= e,
         o # <<>> => Last(o)[2] < a, NEW p, p = Append(o, <<a, b>>)
  PROVE  JoinSoFar(lo, hi, c, e, j, p)
<1>0. o \in Seq(Nat \X Nat) /\ <<a, b>> \in Nat \X Nat
  BY DEF JoinSoFar
<1>1. PICK len \in Nat : len = Len(o)
  BY <1>0
<1>2. /\ p \in Seq(Nat \X Nat) /\ Len(p) = len + 1 /\ Len(p) - 1 = len
      /\ \A m \in 1..len : p[m] = o[m]
      /\ p[len + 1] = <<a, b>>
      /\ 1..Len(p) = 1..len \cup {len + 1}
  BY <1>0, <1>1, OneMore
<1>3. Separate(p)
  <2>1. \A m \in 1..Len(p) : p[m][1] < p[m][2]
    BY <1>1, <1>2 DEF JoinSoFar, Separate
  <2>2. ASSUME NEW m \in 1..len PROVE p[m][2] < p[m + 1][1]
    <3>1. CASE m = len
      <4>1. o # <<>> /\ Last(o) = o[m]
        BY <3>1, <1>1 DEF Last
      <4> QED
        BY <4>1, <3>1, <1>2
    <3>2. CASE m # len
      <4>1. m \in 1..(len - 1) /\ m + 1 \in 1..len
        BY <3>2
      <4> QED
        BY <4>1, <1>1, <1>2 DEF JoinSoFar, Separate
    <3> QED
      BY <3>1, <3>2
  <2> QED
    BY <2>1, <2>2, <1>2 DEF Separate
<1>4. Bounded(p, c, e)
  BY <1>1, <1>2 DEF JoinSoFar, Bounded
<1>5. ASSUME NEW t \in Nat PROVE HeldBy(p, t) <=> ~FreeOf(lo, hi, j, t)
  <2>1. HeldBy(p, t) <=> HeldBy(o, t) \/ Covers(<<a, b>>, t)
    BY <1>0, HeldOn
  <2>2. Covers(<<a, b>>, t) <=> a <= t /\ t < b
    BY DEF Covers
  <2>3. FreeOf(lo, hi, j, t) <=> FreeOf(lo, hi, k, t) /\ ~ (a <= t /\ t < b)
    BY FreeOn
  <2>4. HeldBy(o, t) <=> ~FreeOf(lo, hi, k, t)
    BY DEF JoinSoFar, HeldIfTaken
  <2> QED
    BY <2>1, <2>2, <2>3, <2>4, Zenon
<1>6. LastBehind(lo, j, p)
  <2>1. Last(p) = <<a, b>> /\ j \in 1..j
    BY <1>2 DEF Last
  <2> QED
    BY <2>1 DEF LastBehind
<1> QED
  BY <1>2, <1>3, <1>4, <1>5, <1>6 DEF JoinSoFar, HeldIfTaken

(* A window that begins before the last of those so far ends.              *)
LEMMA RenewApart ==
  ASSUME NEW o \in Seq(Nat \X Nat), NEW p, NEW n \in Nat,
         NEW u \in Nat \X Nat, NEW v \in Nat \X Nat, Renewed(o, p, n, u, v),
         u[1] = v[1], u[2] <= v[2],
         NEW c \in Nat, NEW e \in Nat, Separate(o), Bounded(o, c, e), v[2] <= e
  PROVE  u[1] < u[2] /\ Separate(p) /\ Bounded(p, c, e)
<1>0. PICK x, y, z \in Nat : u = <<x, y>> /\ v = <<x, z>> /\ y <= z /\ z <= e
  OBVIOUS
<1>1. 1..(n + 1) = 1..n \cup {n + 1} /\ n + 1 - 1 = n
  OBVIOUS
<1>2. /\ x < y /\ c <= x
      /\ \A m \in 1..n : o[m][1] < o[m][2] /\ c <= o[m][1] /\ o[m][2] <= e
      /\ \A m \in 1..n : o[m][2] < o[m + 1][1]
  BY <1>0, <1>1 DEF Separate, Bounded, Renewed
<1>3. x < z
  BY <1>0, <1>2
<1>4. \A m \in 1..(n + 1) : p[m][1] < p[m][2] /\ c <= p[m][1] /\ p[m][2] <= e
  <2>1. \A m \in 1..n : p[m][1] < p[m][2] /\ c <= p[m][1] /\ p[m][2] <= e
    BY <1>2 DEF Renewed
  <2>2. p[n + 1][1] < p[n + 1][2] /\ c <= p[n + 1][1] /\ p[n + 1][2] <= e
    BY <1>0, <1>2, <1>3 DEF Renewed
  <2> QED
    BY <2>1, <2>2, <1>1, Zenon
<1>5. \A m \in 1..(n + 1) : p[m][1] = o[m][1]
  BY <1>0, <1>1 DEF Renewed
<1>6. \A m \in 1..n : p[m][2] < p[m + 1][1]
  <2>1. \A m \in 1..n : m + 1 \in 1..(n + 1)
    OBVIOUS
  <2> QED
    BY <2>1, <1>5, <1>2 DEF Renewed
<1> QED
  BY <1>0, <1>1, <1>2, <1>4, <1>6 DEF Separate, Bounded, Renewed

HeldBefore(o, n, t) == \E m \in 1..n : Covers(o[m], t)

LEMMA RenewHeld ==
  ASSUME NEW o, NEW p, NEW n \in Nat, NEW u, NEW v, Renewed(o, p, n, u, v), NEW t
  PROVE  /\ HeldBy(o, t) <=> HeldBefore(o, n, t) \/ Covers(u, t)
         /\ HeldBy(p, t) <=> HeldBefore(o, n, t) \/ Covers(v, t)
<1>1. 1..(n + 1) = 1..n \cup {n + 1}
  OBVIOUS
<1>2. HeldBy(o, t) <=> HeldBefore(o, n, t) \/ Covers(u, t)
  BY <1>1 DEF HeldBy, Renewed, HeldBefore
<1>3. HeldBy(p, t) <=> HeldBefore(o, n, t) \/ Covers(v, t)
  BY <1>1 DEF HeldBy, Renewed, HeldBefore
<1> QED
  BY <1>2, <1>3

(* v is l and what lies from a to b, which begins in l.                    *)
Extends(v, l, a, b) ==
  /\ v[1] = l[1] /\ l[1] <= a /\ a <= l[2] /\ l[1] < l[2] /\ a < b
  /\ l[2] <= v[2] /\ b <= v[2] /\ v[2] \in {l[2], b}

LEMMA RenewTaken ==
  ASSUME NEW k \in Nat, NEW j, j = k + 1, NEW lo, NEW hi,
         NEW o, NEW p, NEW n \in Nat, NEW l \in Nat \X Nat, NEW v \in Nat \X Nat,
         Renewed(o, p, n, l, v), HeldIfTaken(lo, hi, k, o),
         NEW a \in Nat, a = lo[j], NEW b \in Nat, b = hi[j], Extends(v, l, a, b)
  PROVE  HeldIfTaken(lo, hi, j, p)
<1>1. ASSUME NEW t \in Nat PROVE HeldBy(p, t) <=> ~FreeOf(lo, hi, j, t)
  <2>1. /\ HeldBy(o, t) <=> HeldBefore(o, n, t) \/ Covers(l, t)
        /\ HeldBy(p, t) <=> HeldBefore(o, n, t) \/ Covers(v, t)
    BY RenewHeld
  <2>2. FreeOf(lo, hi, j, t) <=> FreeOf(lo, hi, k, t) /\ ~ (a <= t /\ t < b)
    BY FreeOn
  <2>3. HeldBy(o, t) <=> ~FreeOf(lo, hi, k, t)
    BY DEF HeldIfTaken
  <2>4. Covers(v, t) <=> Covers(l, t) \/ (a <= t /\ t < b)
    BY DEF Covers, Extends
  <2> QED
    BY <2>1, <2>2, <2>3, <2>4, Zenon
<1> QED
  BY <1>1 DEF HeldIfTaken

LEMMA JoinOnto ==
  ASSUME NEW k \in Nat, NEW j, j = k + 1, NEW lo, NEW hi, NEW c \in Nat, NEW e \in Nat,
         NEW o, JoinSoFar(lo, hi, c, e, k, o), o # <<>>,
         NEW a \in Nat, a = lo[j], NEW b \in Nat, b = hi[j], a < b, b <= e,
         NEW l \in Nat \X Nat, l = Last(o), l[1] <= a, a <= l[2], l[2] <= e,
         NEW v \in Nat \X Nat, v[1] = l[1], v[2] = Later(l[2], b),
         NEW p, p = Append(Front(o), v)
  PROVE  JoinSoFar(lo, hi, c, e, j, p)
<1>0. /\ o \in Seq(Nat \X Nat)
      /\ Separate(o) /\ Bounded(o, c, e)
      /\ HeldIfTaken(lo, hi, k, o) /\ LastBehind(lo, k, o)
  BY DEF JoinSoFar
<1> DEFINE W == Nat \X Nat
<1>7. v \in W
  OBVIOUS
<1>8. o \in Seq(W)
  BY <1>0
<1> HIDE DEF W
<1>9. p \in Seq(W) /\ \E n \in Nat : Renewed(o, p, n, l, v)
  <2>1. /\ Append(Front(o), v) \in Seq(W)
        /\ \E n \in Nat : Renewed(o, Append(Front(o), v), n, Last(o), v)
    BY <1>7, <1>8, Relast
  <2> QED
    BY <2>1
<1>1. p \in Seq(Nat \X Nat)
  BY <1>9 DEF W
<1>2. PICK n \in Nat : Renewed(o, p, n, l, v)
  BY <1>9
<1>3. l[2] <= v[2] /\ b <= v[2] /\ v[2] <= e /\ v[2] \in {l[2], b}
  BY DEF Later
<1>4. l[1] < l[2] /\ Separate(p) /\ Bounded(p, c, e)
  BY <1>0, <1>2, <1>3, RenewApart
<1>5. HeldIfTaken(lo, hi, j, p)
  <2>1. Extends(v, l, a, b)
    BY <1>3, <1>4 DEF Extends
  <2> QED
    BY <2>1, <1>0, <1>2, RenewTaken
<1>6. LastBehind(lo, j, p)
  <2>1. Last(p)[1] = l[1]
    BY <1>2 DEF Last, Renewed
  <2>2. PICK i \in 1..k : l[1] = lo[i]
    BY <1>0 DEF LastBehind
  <2>3. i \in 1..j
    OBVIOUS
  <2> QED
    BY <2>1, <2>2, <2>3 DEF LastBehind
<1> QED
  BY <1>1, <1>4, <1>5, <1>6, Zenon DEF JoinSoFar

LEMMA JoinOn ==
  ASSUME NEW n \in Nat, NEW lo, NEW hi, Outages(lo, hi, n),
         NEW c \in Nat, NEW e \in Nat, \A i \in 1..n : c <= lo[i] /\ hi[i] <= e,
         NEW k \in Nat, NEW j \in 1..n, j = k + 1,
         NEW o, JoinSoFar(lo, hi, c, e, k, o),
         NEW w, w = <<lo[j], hi[j]>>, NEW p, p = JoinBy(o, w)
  PROVE  JoinSoFar(lo, hi, c, e, j, p)
<1>1. PICK a, b \in Nat : a = lo[j] /\ b = hi[j] /\ a < b /\ w = <<a, b>>
  BY DEF Outages
<1>2. c <= a /\ b <= e
  BY <1>1
<1>3. \A i \in 1..k : lo[i] <= a
  <2>1. \A i \in 1..k : i \in 1..n /\ i < j
    OBVIOUS
  <2> QED
    BY <2>1, <1>1 DEF Outages
<1>4. o \in Seq(Nat \X Nat)
  BY DEF JoinSoFar
<1>5. CASE o = <<>>
  <2>1. p = Append(o, <<a, b>>)
    BY <1>1, <1>5 DEF JoinBy
  <2> QED
    BY <2>1, <1>1, <1>2, <1>5, JoinBeyond, ZenonT(60)
<1>6. CASE o # <<>>
  <2>0. PICK l : l = Last(o)
    OBVIOUS
  <2>1. PICK x, y \in Nat : l = <<x, y>> /\ l[1] = x /\ l[2] = y /\ l \in Nat \X Nat
    <3>1. Last(o) \in Nat \X Nat
      BY <1>4, <1>6 DEF Last
    <3> QED
      BY <3>1, <2>0
  <2>2. CASE a <= y
    <3>1. PICK v : v = <<x, Later(y, b)>>
      OBVIOUS
    <3>2. v \in Nat \X Nat /\ v[1] = l[1] /\ v[2] = Later(l[2], b)
      <4>1. Later(y, b) \in Nat
        BY DEF Later
      <4> QED
        BY <3>1, <4>1, <2>1
    <3>3. p = Append(Front(o), v)
      BY <3>1, <2>0, <2>1, <2>2, <1>1, <1>6, SMTT(30) DEF JoinBy
    <3>4. x <= a
      <4>1. PICK i \in 1..k : x = lo[i]
        BY <2>0, <2>1, <1>6 DEF JoinSoFar, LastBehind
      <4> QED
        BY <4>1, <1>3
    <3>5. y <= e
      <4>1. PICK len \in Nat : len = Len(o) /\ len # 0
        BY <1>4, <1>6
      <4>2. \A m \in 1..len : o[m][2] <= e
        BY <4>1 DEF JoinSoFar, Bounded
      <4>3. len \in 1..len
        BY <4>1
      <4>4. o[len] = l
        BY <4>1, <2>0 DEF Last
      <4> QED
        BY <4>2, <4>3, <4>4, <2>1, Zenon
    <3>6. l \in Nat \X Nat /\ l[1] <= a /\ a <= l[2] /\ l[2] <= e
      BY <3>4, <3>5, <2>1, <2>2, Zenon
    <3> QED
      BY <3>2, <3>3, <3>6, <2>0, <1>1, <1>2, <1>6, JoinOnto, ZenonT(60)
  <2>3. CASE ~ (a <= y)
    <3>1. p = Append(o, <<a, b>>)
      BY <2>0, <2>1, <2>3, <1>1, SMTT(30) DEF JoinBy
    <3>2. Last(o)[2] < a
      BY <2>0, <2>1, <2>3
    <3> QED
      BY <3>1, <3>2, <1>1, <1>2, JoinBeyond
  <2> QED
    BY <2>2, <2>3
<1> QED
  BY <1>5, <1>6

(* What is merged is apart, as the windows within their bounds, and covers *)
(* what they do.                                                           *)
LEMMA MergeIs ==
  ASSUME NEW wins \in SUBSET (Nat \X Nat), IsFiniteSet(wins), NEW c \in Nat, NEW e \in Nat,
         \A w \in wins : w[1] < w[2] /\ c <= w[1] /\ w[2] <= e, NEW o, o = Merge(wins)
  PROVE  /\ o \in Seq(Nat \X Nat) /\ Separate(o) /\ Bounded(o, c, e)
         /\ \A t \in Nat : HeldBy(o, t) <=> \E w \in wins : Covers(w, t)
<1>1. PICK n \in Nat : \E seq, st : IsJoining(wins, n, seq, st)
  BY MergeSteps
<1>2. PICK seq, st : IsJoining(wins, n, seq, st)
  BY <1>1
<1>3. PICK lo, hi : lo = [i \in 1..n |-> seq[i][1]] /\ hi = [i \in 1..n |-> seq[i][2]]
  OBVIOUS
<1>4. /\ seq \in [1..n -> wins] /\ \A x \in wins : \E i \in 1..n : seq[i] = x
      /\ \A i, j \in 1..n : i < j => seq[i][1] <= seq[j][1]
      /\ st[0] = <<>> /\ \A k \in 1..n : st[k] = JoinBy(st[k - 1], seq[k])
      /\ o = st[n]
  BY <1>2 DEF IsJoining, Ordered
<1>5. \A i \in 1..n : /\ seq[i] \in wins /\ seq[i] \in Nat \X Nat
                      /\ lo[i] = seq[i][1] /\ hi[i] = seq[i][2]
                      /\ seq[i] = <<lo[i], hi[i]>>
  <2>1. \A i \in 1..n : seq[i] \in wins
    BY <1>4
  <2>2. \A i \in 1..n : lo[i] = seq[i][1] /\ hi[i] = seq[i][2]
    BY <1>3
  <2>3. \A w \in wins : w \in Nat \X Nat /\ w = <<w[1], w[2]>>
    OBVIOUS
  <2> QED
    BY <2>1, <2>2, <2>3, Zenon
<1>6. Outages(lo, hi, n) /\ \A i \in 1..n : c <= lo[i] /\ hi[i] <= e
  <2>1. lo \in [1..n -> Nat] /\ hi \in [1..n -> Nat]
    BY <1>3, <1>5
  <2> QED
    BY <2>1, <1>4, <1>5 DEF Outages
<1> DEFINE Q == {k \in 0..n : JoinSoFar(lo, hi, c, e, k, st[k])}
<1>7. 0 \in Q
  <2>1. JoinSoFar(lo, hi, c, e, 0, <<>>)
    BY DEF JoinSoFar, Separate, Bounded, HeldBy, FreeOf, HeldIfTaken, LastBehind
  <2> QED
    BY <2>1, <1>4
<1>8. ASSUME NEW m \in 1..n, m - 1 \in Q PROVE m \in Q
  <2>1. PICK k \in Nat : k = m - 1 /\ m = k + 1
    OBVIOUS
  <2>2. PICK q : q = st[k]
    OBVIOUS
  <2>3. JoinSoFar(lo, hi, c, e, k, q)
    BY <2>1, <2>2, <1>8
  <2>4. PICK p : p = JoinBy(q, seq[m])
    OBVIOUS
  <2>5. st[m] = p
    BY <2>1, <2>2, <2>4, <1>4
  <2>6. seq[m] = <<lo[m], hi[m]>>
    BY <1>5
  <2>7. JoinSoFar(lo, hi, c, e, m, p)
    BY <2>1, <2>3, <2>4, <2>6, <1>6, JoinOn
  <2> QED
    BY <2>5, <2>7
<1>9. JoinSoFar(lo, hi, c, e, n, o)
  <2>1. \A k \in 0..n : k \in Q
    <3> HIDE DEF Q
    <3> QED
      BY <1>7, <1>8, Upto
  <2> QED
    BY <2>1, <1>4
<1>10. ASSUME NEW t \in Nat PROVE ~FreeOf(lo, hi, n, t) <=> \E w \in wins : Covers(w, t)
  <2>1. \A i \in 1..n : Covers(seq[i], t) <=> lo[i] <= t /\ t < hi[i]
    BY <1>5 DEF Covers
  <2>2. (\E w \in wins : Covers(w, t)) <=> \E i \in 1..n : Covers(seq[i], t)
    <3>1. \A i \in 1..n : seq[i] \in wins
      BY <1>5
    <3> QED
      BY <3>1, <1>4, Zenon
  <2> QED
    BY <2>1, <2>2, Zenon DEF FreeOf
<1> QED
  BY <1>9, <1>10 DEF JoinSoFar, HeldIfTaken

-----------------------------------------------------------------------------
(* The timeline of a branch, detour after detour.                          *)

(* From, until and the hub.                                                *)
Leg == Nat \X Nat \X HubSet

Onward(o, c, a) == IF a > c THEN Append(o, <<c, a, Hubs[1]>>) ELSE o
Detoured(o, c, n, w) == Append(Onward(o, c, w[1]), <<w[1], w[2], Alternate(n)>>)

DetourBy(s, w) ==
  [cur |-> w[2], n |-> s.n + 1, out |-> Detoured(s.out, s.cur, s.n, w)]

DetourStart == [cur |-> 0, n |-> 0, out |-> <<>>]

IsDetour(g, seq) ==
  g = [s \in SUBSET (DOMAIN seq) |->
         IF s = {} THEN [cur |-> 0, n |-> 0, out |-> <<>>]
         ELSE LET w == seq[Max(s)]
                  r == g[s \ {Max(s)}]
              IN  [cur |-> w[2], n |-> r.n + 1,
                   out |-> Append(IF w[1] > r.cur
                                  THEN Append(r.out, <<r.cur, w[1], Hubs[1]>>)
                                  ELSE r.out,
                                  <<w[1], w[2], Alternate(r.n)>>)]]

LEMMA AlternateHub ==
  ASSUME NEW n \in Nat
  PROVE  /\ Alternate(n) \in HubSet
         /\ Len(Hubs) >= 2 /\ (\A i \in 2..Len(Hubs) : Hubs[i] # Hubs[1])
              => Alternate(n) # Hubs[1]
<1>1. PICK len \in Nat : len = Len(Hubs) /\ len # 0
  BY DatasetAssumption
<1>2. HubSet = {Hubs[i] : i \in 1..len}
  BY <1>1, DatasetAssumption DEF HubSet, ToSet
<1>3. CASE len = 1
  BY <1>1, <1>2, <1>3 DEF Alternate
<1>4. CASE len # 1
  <2>1. PICK m \in Nat : m = len - 1 /\ m # 0
    BY <1>1, <1>4
  <2>2. n % m \in 0..(m - 1)
    BY <2>1
  <2>3. PICK i \in 2..len : i = 2 + (n % m)
    BY <2>1, <2>2
  <2>4. Alternate(n) = Hubs[i]
    BY <2>1, <2>3, <1>1, <1>4 DEF Alternate
  <2> QED
    BY <2>3, <2>4, <1>1, <1>2
<1> QED
  BY <1>3, <1>4

LEMMA DetourExists ==
  ASSUME NEW n \in Nat, NEW seq \in [1..n -> Nat \X Nat]
  PROVE  \E g : IsDetour(g, seq)
<1> DEFINE State == [cur : Nat, n : Nat, out : Seq(Leg)]
           W == Nat \X Nat
           F == [x \in State \X W |-> DetourBy(x[1], x[2])]
<1>1. ASSUME NEW s \in State, NEW w \in W PROVE DetourBy(s, w) \in State
  <2>1. s.cur \in Nat /\ s.n \in Nat /\ s.out \in Seq(Leg) /\ w[1] \in Nat /\ w[2] \in Nat
    OBVIOUS
  <2>2. <<s.cur, w[1], Hubs[1]>> \in Leg /\ <<w[1], w[2], Alternate(s.n)>> \in Leg
    BY <2>1, Sizes, AlternateHub DEF Leg
  <2>3. Append(s.out, <<s.cur, w[1], Hubs[1]>>) \in Seq(Leg)
    BY <2>1, <2>2
  <2>4. Onward(s.out, s.cur, w[1]) \in Seq(Leg)
    BY <2>1, <2>3 DEF Onward
  <2>5. Detoured(s.out, s.cur, s.n, w) \in Seq(Leg)
    BY <2>2, <2>4 DEF Detoured
  <2> QED
    BY <2>1, <2>5 DEF DetourBy
<1>2. F \in [State \X W -> State]
  <2>1. ASSUME NEW x \in State \X W PROVE DetourBy(x[1], x[2]) \in State
    BY <1>1
  <2> QED
    BY <2>1
<1>3. DetourStart \in State
  BY DEF DetourStart
<1> HIDE DEF State, W
<1>4. PICK g \in [SUBSET (1..n) -> State] : IsFold(g, F, DetourStart, seq, n)
  <2> HIDE DEF F
  <2>1. seq \in [1..n -> W]
    BY DEF W
  <2> QED
    BY <2>1, <1>2, <1>3, FoldExists
<1>5. ASSUME NEW s \in SUBSET (1..n), s # {}
      PROVE  F[<<g[s \ {Max(s)}], seq[Max(s)]>>] = DetourBy(g[s \ {Max(s)}], seq[Max(s)])
  <2>1. Max(s) \in 1..n
    BY <1>5, MaxOf
  <2>2. g[s \ {Max(s)}] \in State /\ seq[Max(s)] \in W
    BY <2>1 DEF W
  <2> QED
    BY <2>2
<1>6. g = [s \in SUBSET (1..n) |->
             IF s = {} THEN DetourStart ELSE DetourBy(g[s \ {Max(s)}], seq[Max(s)])]
  BY <1>4, <1>5 DEF IsFold
<1>7. DOMAIN seq = 1..n
  OBVIOUS
<1> QED
  BY <1>6, <1>7 DEF IsDetour, DetourStart, DetourBy, Detoured, Onward

IsDetouring(d, n, seq, st) ==
  /\ st[0] = DetourStart
  /\ \A k \in 1..n : st[k] = DetourBy(st[k - 1], seq[k])
  /\ Detours(d) = st[n]

LEMMA DetourSteps ==
  ASSUME NEW d, NEW seq \in Seq(Nat \X Nat), seq = Merge(Reroutes(d)),
         NEW n \in Nat, n = Len(seq)
  PROVE  \E st : IsDetouring(d, n, seq, st)
<1>1. DOMAIN seq = 1..n /\ seq \in [1..n -> Nat \X Nat]
  OBVIOUS
<1>3. PICK g : g = CHOOSE h : IsDetour(h, seq)
  OBVIOUS
<1>4. IsDetour(g, seq)
  BY <1>1, <1>3, DetourExists
<1>6. Detours(d) = g[1..n]
  <2>1. Detours(d) = g[DOMAIN seq]
    BY <1>3, SMTT(30) DEF Detours, FoldLeft, MapThenFoldSet, IsDetour
  <2> QED
    BY <2>1, <1>1
<1>7. PICK st : st = [k \in 0..n |-> g[1..k]]
  OBVIOUS
<1>8. \A s \in SUBSET (1..n) :
         g[s] = IF s = {} THEN DetourStart ELSE DetourBy(g[s \ {Max(s)}], seq[Max(s)])
  BY <1>4, <1>1 DEF IsDetour, DetourStart, DetourBy, Detoured, Onward
<1>9. st[0] = DetourStart
  <2>1. 1..0 = {}
    OBVIOUS
  <2>2. g[{}] = DetourStart
    BY <1>8
  <2> QED
    BY <2>1, <2>2, <1>7
<1>10. ASSUME NEW k \in 1..n PROVE st[k] = DetourBy(st[k - 1], seq[k])
  <2>1. /\ 1..k \in SUBSET (1..n) /\ 1..k # {}
        /\ Max(1..k) = k /\ (1..k) \ {Max(1..k)} = 1..(k - 1)
    BY Positions
  <2>2. st[k] = g[1..k] /\ st[k - 1] = g[1..(k - 1)]
    BY <1>7
  <2> QED
    BY <2>1, <2>2, <1>8
<1>11. st[n] = g[1..n]
  BY <1>7
<1> QED
  BY <1>6, <1>9, <1>10, <1>11 DEF IsDetouring

(* Legs that follow on each other from 0 to c, off the preferred hub at    *)
(* the instants of X.                                                      *)
Linked(o, c) ==
  /\ o = <<>> => c = 0
  /\ o # <<>> => o[1][1] = 0 /\ o[Len(o)][2] = c
  /\ \A m \in 1..Len(o) : o[m][1] < o[m][2]
  /\ \A m \in 1..(Len(o) - 1) : o[m][2] = o[m + 1][1]

Reaching(o, c) ==
  /\ \A m \in 1..Len(o) : o[m][2] <= c
  /\ \A t \in Nat : t < c => HeldBy(o, t)

OffIn(o, X) ==
  \A m \in 1..Len(o) : \A t \in Nat :
    Covers(o[m], t) => (o[m][3] # Hubs[1] <=> t \in X)

Timeline(o, c, X) ==
  o \in Seq(Leg) /\ Linked(o, c) /\ Reaching(o, c) /\ OffIn(o, X)

LEMMA TimelineFor ==
  ASSUME NEW o, NEW c \in Nat, NEW X, NEW Y, Timeline(o, c, X),
         \A t \in Nat : t < c => (t \in X <=> t \in Y)
  PROVE  Timeline(o, c, Y)
<1>1. o \in Seq(Leg) /\ Linked(o, c) /\ Reaching(o, c)
  BY DEF Timeline
<1>2. ASSUME NEW m \in 1..Len(o), NEW t \in Nat, Covers(o[m], t)
      PROVE  o[m][3] # Hubs[1] <=> t \in Y
  <2>1. o[m] \in Leg
    BY <1>1
  <2>2. o[m][2] \in Nat /\ o[m][2] <= c
    BY <2>1, <1>1 DEF Leg, Reaching
  <2>3. t < c
    BY <2>2, <1>2 DEF Covers
  <2> QED
    BY <2>3, <1>2 DEF Timeline, OffIn
<1> QED
  BY <1>1, <1>2 DEF Timeline, OffIn

LEMMA TimelineOn ==
  ASSUME NEW o, NEW c \in Nat, NEW X, Timeline(o, c, X),
         NEW x \in Leg, x[1] = c, NEW d \in Nat, x[2] = d, c < d,
         \A t \in Nat : c <= t /\ t < d => (x[3] # Hubs[1] <=> t \in X),
         NEW p, p = Append(o, x)
  PROVE  Timeline(p, d, X) /\ p # <<>>
<1>0. o \in Seq(Leg) /\ Linked(o, c) /\ Reaching(o, c) /\ OffIn(o, X)
  BY DEF Timeline
<1>1. PICK len \in Nat : len = Len(o)
  BY <1>0
<1>2. /\ p \in Seq(Leg) /\ Len(p) = len + 1 /\ Len(p) - 1 = len
      /\ \A m \in 1..len : p[m] = o[m]
      /\ p[len + 1] = x
      /\ 1..Len(p) = 1..len \cup {len + 1}
  BY <1>0, <1>1, OneMore
<1>3. \A m \in 1..len : p[m] \in Leg /\ p[m][1] \in Nat /\ p[m][2] \in Nat
  BY <1>0, <1>1, <1>2 DEF Leg
<1>4. Linked(p, d)
  <2>1. p[1][1] = 0
    <3>1. CASE o = <<>>
      <4>1. len = 0 /\ c = 0
        BY <3>1, <1>0, <1>1 DEF Linked
      <4> QED
        BY <4>1, <1>2
    <3>2. CASE o # <<>>
      <4>1. 1 \in 1..len
        BY <3>2, <1>0, <1>1
      <4> QED
        BY <4>1, <3>2, <1>0, <1>2 DEF Linked
    <3> QED
      BY <3>1, <3>2
  <2>2. p # <<>> /\ p[Len(p)][2] = d
    BY <1>1, <1>2
  <2>3. \A m \in 1..Len(p) : p[m][1] < p[m][2]
    BY <1>0, <1>1, <1>2 DEF Linked
  <2>4. ASSUME NEW m \in 1..len PROVE p[m][2] = p[m + 1][1]
    <3>1. CASE m = len
      <4>1. o # <<>>
        BY <3>1, <1>1
      <4> QED
        BY <4>1, <3>1, <1>0, <1>1, <1>2 DEF Linked
    <3>2. CASE m # len
      <4>1. m \in 1..(len - 1) /\ m + 1 \in 1..len
        BY <3>2
      <4> QED
        BY <4>1, <1>0, <1>1, <1>2 DEF Linked
    <3> QED
      BY <3>1, <3>2
  <2> QED
    BY <2>1, <2>2, <2>3, <2>4, <1>2 DEF Linked
<1>5. Reaching(p, d)
  <2>1. \A m \in 1..len : p[m][2] <= d
    <3>1. ASSUME NEW m \in 1..len PROVE p[m][2] <= d
      <4>1. PICK y \in Nat : y = p[m][2]
        BY <1>3
      <4>2. y <= c
        BY <4>1, <1>0, <1>1, <1>2 DEF Reaching
      <4>3. y <= d
        BY <4>2
      <4> QED
        BY <4>1, <4>3
    <3> QED
      BY <3>1
  <2>2. ASSUME NEW t \in Nat, t < d PROVE \E m \in 1..Len(p) : Covers(p[m], t)
    <3>1. CASE t < c
      <4>1. PICK m \in 1..len : Covers(o[m], t)
        BY <3>1, <1>0, <1>1 DEF Reaching, HeldBy
      <4> QED
        BY <4>1, <1>2
    <3>2. CASE ~ (t < c)
      <4>1. c <= t
        BY <3>2
      <4>2. Covers(p[len + 1], t)
        BY <4>1, <2>2, <1>2 DEF Covers
      <4> QED
        BY <4>2, <1>2
    <3> QED
      BY <3>1, <3>2
  <2>3. \A m \in 1..Len(p) : p[m][2] <= d
    BY <2>1, <1>2
  <2> QED
    BY <2>2, <2>3 DEF Reaching, HeldBy
<1>6. OffIn(p, X)
  <2>1. \A m \in 1..len : \A t \in Nat :
          Covers(p[m], t) => (p[m][3] # Hubs[1] <=> t \in X)
    BY <1>0, <1>1, <1>2 DEF OffIn
  <2>2. \A t \in Nat : Covers(x, t) => (x[3] # Hubs[1] <=> t \in X)
    BY DEF Covers
  <2> QED
    BY <2>1, <2>2, <1>2 DEF OffIn
<1>7. p # <<>>
  BY <1>1, <1>2
<1> QED
  BY <1>2, <1>4, <1>5, <1>6, <1>7 DEF Timeline

(* The instants of the first k windows; the timeline they lead to.         *)
Taken(v, k) == {t \in Nat : \E i \in 1..k : Covers(v[i], t)}

DetourSoFar(v, k, c, m, o) ==
  /\ c \in Nat /\ m \in Nat
  /\ c = IF k = 0 THEN 0 ELSE v[k][2]
  /\ \A i \in 1..k : v[i][2] <= c
  /\ Timeline(o, c, Taken(v, k))

LEMMA TakenOn ==
  ASSUME NEW v, NEW k \in Nat, NEW j, j = k + 1, NEW t \in Nat
  PROVE  t \in Taken(v, j) <=> t \in Taken(v, k) \/ Covers(v[j], t)
<1>1. 1..j = 1..k \cup {j}
  OBVIOUS
<1> QED
  BY <1>1 DEF Taken

(* A detour begins where the last one ended, or after it.                  *)
LEMMA DetourFrom ==
  ASSUME NEW v \in Seq(Nat \X Nat), Separate(v),
         NEW k \in Nat, NEW j \in 1..Len(v), j = k + 1,
         NEW c \in Nat, NEW n, NEW o, DetourSoFar(v, k, c, n, o),
         NEW a \in Nat, a = v[j][1]
  PROVE  /\ c <= a
         /\ \A i \in 1..k : v[i][2] \in Nat /\ v[i][2] <= c
         /\ \A t \in Nat : t \in Taken(v, k) => t < c
<1>1. c <= a
  <2>1. CASE k = 0
    BY <2>1 DEF DetourSoFar
  <2>2. CASE k # 0
    <3>1. k \in 1..(Len(v) - 1) /\ c = v[k][2]
      BY <2>2 DEF DetourSoFar
    <3>2. v[k][2] < v[k + 1][1]
      BY <3>1 DEF Separate
    <3>3. c < a
      BY <3>1, <3>2
    <3> QED
      BY <3>3
  <2> QED
    BY <2>1, <2>2
<1>2. \A i \in 1..k : v[i][2] \in Nat /\ v[i][2] <= c
  <2>1. ASSUME NEW i \in 1..k PROVE v[i][2] \in Nat
    <3>1. i \in 1..Len(v)
      OBVIOUS
    <3>2. v[i] \in Nat \X Nat
      BY <3>1
    <3> QED
      BY <3>2
  <2>2. \A i \in 1..k : v[i][2] <= c
    BY DEF DetourSoFar
  <2> QED
    BY <2>1, <2>2
<1>3. ASSUME NEW t \in Nat, NEW i \in 1..k, Covers(v[i], t) PROVE t < c
  <2>1. PICK y \in Nat : y = v[i][2]
    BY <1>2
  <2>2. t < y /\ y <= c
    BY <2>1, <1>2, <1>3 DEF Covers
  <2> QED
    BY <2>2
<1> QED
  BY <1>1, <1>2, <1>3 DEF Taken

LEMMA LegsOn ==
  ASSUME TwoHubs, NEW X, NEW Y, NEW a \in Nat, NEW b \in Nat, a < b,
         NEW c \in Nat, c <= a, NEW n \in Nat, NEW o, Timeline(o, c, X),
         \A t \in Nat : t \in X => t < c,
         \A t \in Nat : t \in Y <=> t \in X \/ (a <= t /\ t < b),
         NEW p, p = Onward(o, c, a)
  PROVE  LET q == Append(p, <<a, b, Alternate(n)>>)
         IN  Timeline(q, b, Y)
<1>1. \A t \in Nat : t < c => (t \in X <=> t \in Y)
  OBVIOUS
<1>2. Timeline(o, c, Y)
  BY <1>1, TimelineFor
<1>3. Timeline(p, a, Y)
  <2>1. CASE a > c
    <3>1. PICK x : x = <<c, a, Hubs[1]>>
      OBVIOUS
    <3>2. x \in Leg /\ x[1] = c /\ x[2] = a /\ x[3] = Hubs[1]
      BY <3>1, Sizes DEF Leg
    <3>3. p = Append(o, x)
      BY <2>1, <3>1 DEF Onward
    <3>4. \A t \in Nat : c <= t /\ t < a => (x[3] # Hubs[1] <=> t \in Y)
      BY <3>2
    <3>5. c < a
      BY <2>1
    <3> QED
      BY <3>2, <3>3, <3>4, <3>5, <1>2, TimelineOn
  <2>2. CASE ~ (a > c)
    <3>1. p = o /\ a = c
      BY <2>2 DEF Onward
    <3> QED
      BY <3>1, <1>2
  <2> QED
    BY <2>1, <2>2
<1>4. PICK x : x = <<a, b, Alternate(n)>>
  OBVIOUS
<1>5. Alternate(n) \in HubSet /\ Alternate(n) # Hubs[1]
  BY AlternateHub DEF TwoHubs
<1>6. x \in Leg /\ x[1] = a /\ x[2] = b /\ x[3] # Hubs[1]
  BY <1>4, <1>5 DEF Leg
<1>7. \A t \in Nat : a <= t /\ t < b => (x[3] # Hubs[1] <=> t \in Y)
  BY <1>6
<1>8. PICK q : q = Append(p, x)
  OBVIOUS
<1>9. Timeline(q, b, Y)
  BY <1>3, <1>6, <1>7, <1>8, TimelineOn
<1> QED
  BY <1>4, <1>8, <1>9

LEMMA DetourOn ==
  ASSUME TwoHubs, NEW v \in Seq(Nat \X Nat), Separate(v),
         NEW k \in Nat, NEW j \in 1..Len(v), j = k + 1,
         NEW c \in Nat, NEW n \in Nat, NEW o, DetourSoFar(v, k, c, n, o),
         NEW q, q = Detoured(o, c, n, v[j])
  PROVE  DetourSoFar(v, j, v[j][2], n + 1, q)
<1>1. PICK a, b \in Nat : a = v[j][1] /\ b = v[j][2]
  <2>1. v[j] \in Nat \X Nat
    OBVIOUS
  <2> QED
    BY <2>1
<1>2. a < b
  BY <1>1 DEF Separate
<1>3. /\ c <= a
      /\ \A i \in 1..k : v[i][2] \in Nat /\ v[i][2] <= c
      /\ \A t \in Nat : t \in Taken(v, k) => t < c
  BY <1>1, DetourFrom
<1>4. PICK X, Y : X = Taken(v, k) /\ Y = Taken(v, j)
  OBVIOUS
<1>5. \A t \in Nat : t \in Y <=> t \in X \/ (a <= t /\ t < b)
  <2>1. \A t \in Nat : Covers(v[j], t) <=> a <= t /\ t < b
    BY <1>1 DEF Covers
  <2>2. \A t \in Nat : t \in Taken(v, j) <=> t \in Taken(v, k) \/ Covers(v[j], t)
    BY TakenOn
  <2> QED
    BY <2>1, <2>2, <1>4, Zenon
<1>6. Timeline(o, c, X)
  BY <1>4 DEF DetourSoFar
<1>7. q = Append(Onward(o, c, a), <<a, b, Alternate(n)>>)
  BY <1>1 DEF Detoured
<1>8. Timeline(q, b, Y)
  <2>1. \A t \in Nat : t \in X => t < c
    BY <1>3, <1>4
  <2>2. PICK p : p = Onward(o, c, a)
    OBVIOUS
  <2>3. Timeline(Append(p, <<a, b, Alternate(n)>>), b, Y)
    BY <2>1, <2>2, <1>2, <1>3, <1>5, <1>6, LegsOn
  <2> QED
    BY <2>2, <2>3, <1>7
<1>9. \A i \in 1..j : v[i][2] <= b
  <2>1. 1..j = 1..k \cup {j}
    <3> HIDE DEF Detoured
    <3> QED
      OBVIOUS
  <2>2. ASSUME NEW i \in 1..k PROVE v[i][2] <= b
    <3>1. PICK y \in Nat : y = v[i][2]
      BY <1>3
    <3>2. y <= c
      BY <3>1, <1>3
    <3>3. y <= b
      BY <3>2, <1>2, <1>3
    <3> QED
      BY <3>1, <3>3
  <2>3. v[j][2] <= b
    BY <1>1
  <2> QED
    BY <2>1, <2>2, <2>3
<1>10. n + 1 \in Nat /\ j # 0
  OBVIOUS
<1> QED
  BY <1>1, <1>4, <1>8, <1>9, <1>10 DEF DetourSoFar

-----------------------------------------------------------------------------
LEMMA DetoursAre ==
  ASSUME TwoHubs, NEW d, NEW v \in Seq(Nat \X Nat), v = Merge(Reroutes(d)), Separate(v)
  PROVE  \E c, m : DetourSoFar(v, Len(v), c, m, Detours(d).out) /\ Detours(d).cur = c
<1>1. PICK n \in Nat : n = Len(v)
  OBVIOUS
<1>2. PICK st : IsDetouring(d, n, v, st)
  BY <1>1, DetourSteps
<1>3. /\ st[0] = DetourStart
      /\ \A k \in 1..n : st[k] = DetourBy(st[k - 1], v[k])
      /\ Detours(d) = st[n]
  BY <1>2 DEF IsDetouring
<1> DEFINE Q == {k \in 0..n : DetourSoFar(v, k, st[k].cur, st[k].n, st[k].out)}
<1>4. 0 \in Q
  <2>1. st[0].cur = 0 /\ st[0].n = 0 /\ st[0].out = <<>>
    BY <1>3 DEF DetourStart
  <2>2. Timeline(<<>>, 0, Taken(v, 0))
    BY DEF Timeline, Linked, Reaching, OffIn
  <2>3. DetourSoFar(v, 0, 0, 0, <<>>)
    BY <2>2 DEF DetourSoFar
  <2> QED
    BY <2>1, <2>3
<1>5. ASSUME NEW j \in 1..n, j - 1 \in Q PROVE j \in Q
  <2>1. PICK k \in Nat : k = j - 1 /\ j = k + 1
    OBVIOUS
  <2>2. PICK c, m \in Nat : c = st[k].cur /\ m = st[k].n
    BY <2>1, <1>5 DEF DetourSoFar
  <2>3. PICK o : o = st[k].out
    OBVIOUS
  <2>4. DetourSoFar(v, k, c, m, o)
    BY <2>1, <2>2, <2>3, <1>5
  <2>5. PICK q : q = Detoured(o, c, m, v[j])
    OBVIOUS
  <2>6. DetourSoFar(v, j, v[j][2], m + 1, q)
    BY <2>1, <2>4, <2>5, <1>1, DetourOn
  <2>7. st[j] = DetourBy(st[k], v[j])
    BY <2>1, <1>3
  <2>8. st[j].cur = v[j][2] /\ st[j].n = m + 1 /\ st[j].out = q
    BY <2>2, <2>3, <2>5, <2>7 DEF DetourBy
  <2> QED
    BY <2>6, <2>8
<1>6. DetourSoFar(v, n, st[n].cur, st[n].n, st[n].out)
  <2>1. \A k \in 0..n : k \in Q
    <3> HIDE DEF Q
    <3> QED
      BY <1>4, <1>5, Upto
  <2> QED
    BY <2>1
<1> QED
  BY <1>1, <1>3, <1>6

(* The timeline reaches to the end of the capture and is opened there.     *)
LEMMA SegmentsAre ==
  ASSUME TwoHubs, NEW d, Reroutes(d) \in SUBSET (Nat \X Nat), IsFiniteSet(Reroutes(d)),
         NEW e \in Nat, e = CaptureEnd, e # 0,
         \A w \in Reroutes(d) : w[1] < w[2] /\ w[2] <= e
  PROVE  \E pre, X :
           /\ Segments(d) = Opened(pre) /\ pre # <<>>
           /\ Timeline(pre, e, X)
           /\ \A t \in Nat : t \in X <=> \E w \in Reroutes(d) : Covers(w, t)
<1>1. PICK wins \in SUBSET (Nat \X Nat) : wins = Reroutes(d)
  OBVIOUS
<1>2. PICK v : v = Merge(wins)
  OBVIOUS
<1>3. /\ v \in Seq(Nat \X Nat) /\ Separate(v) /\ Bounded(v, 0, e)
      /\ \A t \in Nat : HeldBy(v, t) <=> \E w \in wins : Covers(w, t)
  <2>1. \A w \in wins : w[1] < w[2] /\ 0 <= w[1] /\ w[2] <= e
    BY <1>1
  <2>2. IsFiniteSet(wins) /\ 0 \in Nat
    BY <1>1
  <2> QED
    BY <2>1, <2>2, <1>2, MergeIs
<1>4. PICK n \in Nat : n = Len(v)
  BY <1>3
<1>5. PICK c, m, o : /\ DetourSoFar(v, n, c, m, o)
                     /\ Detours(d).cur = c /\ Detours(d).out = o
  BY <1>1, <1>2, <1>3, <1>4, DetoursAre
<1>6. PICK X : X = Taken(v, n)
  OBVIOUS
<1>7. c \in Nat /\ Timeline(o, c, X) /\ \A i \in 1..n : v[i][2] <= c
  BY <1>5, <1>6 DEF DetourSoFar
<1>8. c <= e
  <2>1. CASE n = 0
    BY <2>1, <1>5 DEF DetourSoFar
  <2>2. CASE n # 0
    <3>1. n \in 1..n /\ c = v[n][2]
      BY <2>2, <1>5 DEF DetourSoFar
    <3> QED
      BY <3>1, <1>3, <1>4 DEF Bounded
  <2> QED
    BY <2>1, <2>2
<1>9. \A t \in Nat : t \in X <=> \E w \in Reroutes(d) : Covers(w, t)
  <2>1. \A t \in Nat : t \in X <=> HeldBy(v, t)
    BY <1>4, <1>6 DEF Taken, HeldBy
  <2> QED
    BY <2>1, <1>1, <1>3
<1>10. \A t \in Nat : t \in X => t < c
  <2>1. ASSUME NEW t \in Nat, NEW i \in 1..n, Covers(v[i], t) PROVE t < c
    <3>1. v[i] \in Nat \X Nat
      BY <1>3, <1>4
    <3>2. PICK y \in Nat : y = v[i][2]
      BY <3>1
    <3>3. t < y /\ y <= c
      BY <3>2, <2>1, <1>7 DEF Covers
    <3> QED
      BY <3>3, <1>7
  <2> QED
    BY <2>1, <1>6 DEF Taken
<1>11. PICK pre : pre = IF c < e \/ o = <<>> THEN Append(o, <<c, e, Hubs[1]>>) ELSE o
  OBVIOUS
<1>12. Segments(d) = Opened(pre)
  BY <1>5, <1>11 DEF Segments
<1>13. o = <<>> => c = 0
  BY <1>7 DEF Timeline, Linked
<1>14. CASE c < e
  <2>1. PICK x : x = <<c, e, Hubs[1]>>
    OBVIOUS
  <2>2. x \in Leg /\ x[1] = c /\ x[2] = e /\ x[3] = Hubs[1]
    BY <2>1, <1>7, Sizes DEF Leg
  <2>3. pre = Append(o, x)
    BY <2>1, <1>11, <1>14
  <2>4. \A t \in Nat : c <= t /\ t < e => (x[3] # Hubs[1] <=> t \in X)
    BY <2>2, <1>7, <1>10
  <2>5. Timeline(pre, e, X) /\ pre # <<>>
    BY <2>2, <2>3, <2>4, <1>7, <1>14, TimelineOn
  <2> QED
    BY <2>5, <1>9, <1>12
<1>15. CASE ~ (c < e)
  <2>1. c = e /\ o # <<>>
    BY <1>7, <1>8, <1>13, <1>15
  <2>2. pre = o
    BY <2>1, <1>11, <1>15
  <2> QED
    BY <2>1, <2>2, <1>7, <1>9, <1>12
<1> QED
  BY <1>14, <1>15

(* Opening the last leg changes no instant of the capture.                 *)
LEMMA OpenedIs ==
  ASSUME NEW pre, NEW e \in Nat, NEW X, Timeline(pre, e, X), pre # <<>>,
         NEW segs, segs = Opened(pre)
  PROVE  /\ segs[1][1] = 0 /\ Last(segs)[2] = Null /\ DOMAIN segs = 1..Len(segs)
         /\ \A n \in 1..(Len(segs) - 1) :
              segs[n][1] < segs[n][2] /\ segs[n][2] = segs[n + 1][1]
         /\ \A t \in Nat : t < e =>
              /\ \E n \in DOMAIN segs : Holds(segs[n], t)
              /\ \A n \in DOMAIN segs : Holds(segs[n], t) => (segs[n][3] # Hubs[1] <=> t \in X)
<1>0. pre \in Seq(Leg) /\ Linked(pre, e) /\ Reaching(pre, e) /\ OffIn(pre, X)
  BY DEF Timeline
<1> DEFINE W == Int \X Int \X HubSet
<1>1. pre \in Seq(W)
  <2>1. Leg \subseteq W
    BY DEF Leg
  <2> QED
    BY <2>1, <1>0
<1>2. PICK l : l = Last(pre)
  OBVIOUS
<1>3. l \in Leg
  BY <1>0, <1>2 DEF Last
<1>4. PICK a, b \in Nat, h \in HubSet : l = <<a, b, h>>
  BY <1>3 DEF Leg
<1>5. PICK x : x = <<l[1], Null, l[3]>>
  OBVIOUS
<1>6. x \in W /\ x[1] = a /\ x[2] = Null /\ x[3] = h
  BY <1>4, <1>5 DEF Null
<1>7. segs = Append(Front(pre), x)
  BY <1>2, <1>5 DEF Opened
<1> HIDE DEF W
<1>8. segs \in Seq(W) /\ \E n \in Nat : Renewed(pre, segs, n, l, x)
  <2>1. /\ Append(Front(pre), x) \in Seq(W)
        /\ \E n \in Nat : Renewed(pre, Append(Front(pre), x), n, Last(pre), x)
    BY <1>1, <1>6, Relast
  <2> QED
    BY <2>1, <1>2, <1>7
<1>9. PICK n \in Nat : Renewed(pre, segs, n, l, x)
  BY <1>8
<1>10. /\ Len(pre) = n + 1 /\ Len(segs) = n + 1 /\ DOMAIN segs = 1..(n + 1)
       /\ \A m \in 1..n : segs[m] = pre[m]
       /\ pre[n + 1] = l /\ segs[n + 1] = x
  BY <1>8, <1>9 DEF Renewed
<1>11. 1..(n + 1) = 1..n \cup {n + 1} /\ n + 1 - 1 = n
  OBVIOUS
<1>12. \A m \in 1..(n + 1) : segs[m][1] = pre[m][1] /\ segs[m][3] = pre[m][3]
  <2>1. \A m \in 1..n : segs[m][1] = pre[m][1] /\ segs[m][3] = pre[m][3]
    BY <1>10
  <2>2. segs[n + 1][1] = pre[n + 1][1] /\ segs[n + 1][3] = pre[n + 1][3]
    BY <1>4, <1>6, <1>10
  <2> QED
    BY <2>1, <2>2, <1>11, Zenon
<1>13. segs[1][1] = 0 /\ Last(segs)[2] = Null
  <2>1. 1 \in 1..(n + 1)
    OBVIOUS
  <2>2. pre[1][1] = 0
    BY <1>0 DEF Linked
  <2>3. Last(segs) = x
    BY <1>10 DEF Last
  <2> QED
    BY <2>1, <2>2, <2>3, <1>6, <1>12
<1>14. ASSUME NEW m \in 1..n PROVE segs[m][1] < segs[m][2] /\ segs[m][2] = segs[m + 1][1]
  <2>1. m \in 1..(n + 1) /\ m + 1 \in 1..(n + 1) /\ m \in 1..(Len(pre) - 1)
    BY <1>10, <1>11
  <2>2. pre[m][1] < pre[m][2] /\ pre[m][2] = pre[m + 1][1]
    BY <2>1, <1>0, <1>10 DEF Linked
  <2> QED
    BY <2>1, <2>2, <1>10, <1>12
<1>15. ASSUME NEW t \in Nat, t < e
       PROVE  \A m \in 1..(n + 1) : Holds(segs[m], t) <=> Covers(pre[m], t)
  <2>1. \A m \in 1..n : Holds(segs[m], t) <=> Covers(pre[m], t)
    <3>1. ASSUME NEW m \in 1..n PROVE Holds(segs[m], t) <=> Covers(pre[m], t)
      <4>1. m \in 1..Len(pre) /\ segs[m] = pre[m]
        BY <1>10, <1>11
      <4>2. pre[m] \in Leg
        BY <4>1, <1>0
      <4>3. pre[m][2] \in Nat
        BY <4>2 DEF Leg
      <4>4. pre[m][2] # Null
        BY <4>3 DEF Null
      <4> QED
        BY <4>1, <4>4 DEF Holds, Covers
    <3> QED
      BY <3>1
  <2>2. Holds(segs[n + 1], t) <=> Covers(pre[n + 1], t)
    <3>1. b = e
      BY <1>0, <1>4, <1>10 DEF Linked
    <3> QED
      BY <3>1, <1>4, <1>6, <1>10, <1>15 DEF Holds, Covers
  <2> QED
    BY <2>1, <2>2, <1>11, Zenon
<1>16. ASSUME NEW t \in Nat, t < e
       PROVE  /\ \E m \in DOMAIN segs : Holds(segs[m], t)
              /\ \A m \in DOMAIN segs : Holds(segs[m], t) => (segs[m][3] # Hubs[1] <=> t \in X)
  <2>1. PICK m \in 1..(n + 1) : Covers(pre[m], t)
    BY <1>0, <1>10, <1>16 DEF Reaching, HeldBy
  <2>2. \E k \in DOMAIN segs : Holds(segs[k], t)
    BY <2>1, <1>10, <1>15, <1>16
  <2>3. \A k \in 1..(n + 1) : Covers(pre[k], t) => (pre[k][3] # Hubs[1] <=> t \in X)
    BY <1>0, <1>10 DEF OffIn
  <2> QED
    BY <2>2, <2>3, <1>10, <1>12, <1>15, <1>16
<1> QED
  BY <1>10, <1>11, <1>13, <1>14, <1>16

(* The windows of the ramps of a branch, inside the capture.               *)
LEMMA ReroutesAre ==
  ASSUME DataInv, NEW d
  PROVE  /\ Reroutes(d) \in SUBSET (Nat \X Nat) /\ IsFiniteSet(Reroutes(d))
         /\ \A w \in Reroutes(d) : w[1] < w[2] /\ w[2] <= CaptureEnd
         /\ \A t \in Nat : t < CaptureEnd =>
              ((\E w \in Reroutes(d) : Covers(w, t))
               <=> \E i \in DOMAIN ledger :
                     /\ ledger[i].dev = d /\ ledger[i].kind = "tunnel_ramp"
                     /\ ledger[i].impact <= t /\ t < ledger[i].end)
<1> DEFINE R == {i \in DOMAIN ledger : ledger[i].dev = d /\ ledger[i].kind = "tunnel_ramp"}
           win(i) == <<Later(ledger[i].impact, 0),
                       IF ledger[i].end <= CaptureEnd THEN ledger[i].end ELSE CaptureEnd>>
<1>1. Reroutes(d) = {w \in {win(i) : i \in R} : w[2] > w[1]}
  BY DEF Reroutes
<1>2. PICK e \in Nat : e = CaptureEnd
  BY Sizes DEF CaptureEnd
<1>3. ASSUME NEW i \in R
      PROVE  \E x, y, z \in Nat :
               /\ x = ledger[i].impact /\ y = ledger[i].end /\ x < y
               /\ win(i) = <<x, z>> /\ z <= e /\ z <= y /\ z \in {y, e}
  <2>1. PICK x, y \in Nat : x = ledger[i].impact /\ y = ledger[i].end /\ x < y
    BY EpisodeTimes
  <2>2. PICK z \in Nat : z = IF y <= e THEN y ELSE e
    OBVIOUS
  <2>3. z <= e /\ z <= y /\ z \in {y, e}
    BY <2>2
  <2>4. Later(x, 0) = x
    BY DEF Later
  <2>5. win(i) = <<x, z>>
    BY <2>1, <2>2, <2>4, <1>2
  <2> QED
    BY <2>1, <2>3, <2>5
<1>4. PICK wins : wins = {win(i) : i \in R}
  OBVIOUS
<1>5. wins \subseteq Nat \X Nat /\ \A w \in wins : w[2] <= e
  BY <1>3, <1>4
<1>6. IsFiniteSet(wins)
  <2>1. PICK len \in Nat : DOMAIN ledger = 1..len
    BY DEF DataInv, Typed
  <2>2. IsFiniteSet(R)
    <3>1. IsFiniteSet(1..len)
      BY FS_Interval
    <3>2. R \subseteq 1..len
      BY <2>1
    <3> HIDE DEF R
    <3> QED
      BY <3>1, <3>2, FS_Subset
  <2>3. PICK r : r = R
    OBVIOUS
  <2>4. PICK img : img = [i \in r |-> win(i)]
    OBVIOUS
  <2>5. img \in Surjection(r, wins)
    <3> HIDE DEF R, win
    <3> QED
      BY <2>3, <2>4, <1>4 DEF Surjection
  <2> HIDE DEF R
  <2> QED
    BY <2>2, <2>3, <2>5, FS_Surjection
<1>7. Reroutes(d) = {w \in wins : w[2] > w[1]}
  BY <1>1, <1>4
<1>8. IsFiniteSet(Reroutes(d))
  <2>1. Reroutes(d) \subseteq wins
    BY <1>7
  <2> QED
    BY <2>1, <1>6, FS_Subset
<1>9. \A w \in Reroutes(d) : w[1] < w[2] /\ w[2] <= e /\ w \in Nat \X Nat
  BY <1>5, <1>7
<1>10. ASSUME NEW t \in Nat, t < e
       PROVE  (\E w \in Reroutes(d) : Covers(w, t))
              <=> \E i \in R : ledger[i].impact <= t /\ t < ledger[i].end
  <2>1. ASSUME NEW i \in R
        PROVE  win(i) \in Reroutes(d) /\ Covers(win(i), t)
               <=> ledger[i].impact <= t /\ t < ledger[i].end
    <3>1. PICK x, y, z \in Nat :
               /\ x = ledger[i].impact /\ y = ledger[i].end /\ x < y
               /\ win(i) = <<x, z>> /\ z <= e /\ z <= y /\ z \in {y, e}
      BY <1>3
    <3>2. Covers(win(i), t) <=> x <= t /\ t < z
      BY <3>1 DEF Covers
    <3>3. win(i) \in Reroutes(d) <=> z > x
      <4>1. win(i) \in wins
        BY <1>4
      <4>2. win(i)[1] = x /\ win(i)[2] = z
        BY <3>1
      <4> HIDE DEF win
      <4> QED
        BY <4>1, <4>2, <1>7
    <3>4. (z > x /\ x <= t /\ t < z) <=> x <= t /\ t < y
      BY <3>1, <1>10
    <3> HIDE DEF win
    <3> QED
      BY <3>1, <3>2, <3>3, <3>4
  <2>2. \A w \in Reroutes(d) : \E i \in R : w = win(i)
    BY <1>1
  <2> HIDE DEF R, win
  <2> QED
    BY <2>1, <2>2
<1> QED
  BY <1>2, <1>8, <1>9, <1>10

PathFollows(d, segs) ==
  LET Hub(t) == {segs[n][3] : n \in {k \in DOMAIN segs : Holds(segs[k], t)}}
  IN /\ segs[1][1] = 0 /\ Last(segs)[2] = Null
     /\ \A n \in 1..(Len(segs) - 1) :
          segs[n][1] < segs[n][2] /\ segs[n][2] = segs[n + 1][1]
     /\ \A b \in Times :
          (Hub(Epoch(b)) # {Hubs[1]})
          <=> \E i \in DOMAIN ledger :
                /\ ledger[i].dev = d /\ ledger[i].kind = "tunnel_ramp"
                /\ ledger[i].impact <= Epoch(b) /\ Epoch(b) < ledger[i].end

LEMMA PathsFromInv == ASSUME TwoHubs, DataInv PROVE PathsFollowRamps
<1> SUFFICES ASSUME NEW d \in Branches, NEW segs, segs = Segments(d)
             PROVE  PathFollows(d, segs)
  <2>1. ASSUME NEW d \in Branches PROVE PathFollows(d, Segments(d))
    OBVIOUS
  <2> QED
    BY <2>1 DEF PathsFollowRamps, PathFollows
<1>1. PICK e \in Nat : e = CaptureEnd /\ e = Epoch(Buckets)
  BY Sizes DEF CaptureEnd, Epoch
<1>2. \A b \in Times : Epoch(b) \in Nat /\ Epoch(b) < e
  <2>1. \A b \in Times : b \in Nat /\ b < Buckets
    BY Sizes DEF Times
  <2> QED
    BY <2>1, <1>1, Sizes, EpochType
<1>3. e # 0
  <2>1. 0 \in Times
    BY Sizes DEF Times
  <2>2. Epoch(0) \in Nat /\ Epoch(0) < e
    BY <2>1, <1>2
  <2> QED
    BY <2>2
<1>5. PICK pre, X :
           /\ segs = Opened(pre) /\ pre # <<>>
           /\ Timeline(pre, e, X)
           /\ \A t \in Nat : t \in X <=> \E w \in Reroutes(d) : Covers(w, t)
  BY <1>1, <1>3, ReroutesAre, SegmentsAre
<1>6. /\ segs[1][1] = 0 /\ Last(segs)[2] = Null /\ DOMAIN segs = 1..Len(segs)
      /\ \A n \in 1..(Len(segs) - 1) :
           segs[n][1] < segs[n][2] /\ segs[n][2] = segs[n + 1][1]
      /\ \A t \in Nat : t < e =>
           /\ \E n \in DOMAIN segs : Holds(segs[n], t)
           /\ \A n \in DOMAIN segs : Holds(segs[n], t) => (segs[n][3] # Hubs[1] <=> t \in X)
  BY <1>5, OpenedIs
<1>7. ASSUME NEW b \in Times
      PROVE  ({segs[n][3] : n \in {k \in DOMAIN segs : Holds(segs[k], Epoch(b))}} # {Hubs[1]})
             <=> \E i \in DOMAIN ledger :
                    /\ ledger[i].dev = d /\ ledger[i].kind = "tunnel_ramp"
                    /\ ledger[i].impact <= Epoch(b) /\ Epoch(b) < ledger[i].end
  <2>1. PICK t \in Nat : t = Epoch(b) /\ t < e
    BY <1>2
  <2>2. t \in X <=> \E i \in DOMAIN ledger :
                      /\ ledger[i].dev = d /\ ledger[i].kind = "tunnel_ramp"
                      /\ ledger[i].impact <= t /\ t < ledger[i].end
    <3>1. t \in X <=> \E w \in Reroutes(d) : Covers(w, t)
      BY <1>5
    <3>2. t \in Nat /\ t < CaptureEnd
      BY <2>1, <1>1
    <3>3. (\E w \in Reroutes(d) : Covers(w, t))
          <=> \E i \in DOMAIN ledger :
                /\ ledger[i].dev = d /\ ledger[i].kind = "tunnel_ramp"
                /\ ledger[i].impact <= t /\ t < ledger[i].end
      BY <3>2, ReroutesAre
    <3> QED
      BY <3>1, <3>3
  <2>3. PICK k \in DOMAIN segs : Holds(segs[k], t)
    BY <2>1, <1>6
  <2>4. \A n \in DOMAIN segs : Holds(segs[n], t) => (segs[n][3] # Hubs[1] <=> t \in X)
    BY <2>1, <1>6
  <2>5. PICK H : H = {segs[n][3] : n \in {m \in DOMAIN segs : Holds(segs[m], t)}}
    OBVIOUS
  <2>6. segs[k][3] \in H
    BY <2>3, <2>5
  <2>7. \A h \in H : h # Hubs[1] <=> t \in X
    BY <2>4, <2>5
  <2>8. H # {Hubs[1]} <=> t \in X
    BY <2>6, <2>7
  <2> QED
    BY <2>1, <2>2, <2>5, <2>8
<1> QED
  BY <1>6, <1>7 DEF PathFollows

(* With two hubs at least, the preferred one not among its alternates: in  *)
(* every bucket of the capture an edge is down exactly when an outage of   *)
(* the ledger covers it, and a branch is off its preferred hub exactly     *)
(* during its tunnel ramps, however the outages and the ramps overlap;     *)
(* events, joins and replay agree as above                                 *)
(* (synthetic/topology_paths.py, edge intervals and path timelines).       *)
THEOREM TablesFollow == ASSUME TwoHubs PROVE Spec => []TablesFollowLedger
<1>1. DataInv /\ Shown => TablesFollowLedger
  BY EdgesFromInv, PathsFromInv, SessionsFromInv, JoinsFromInv, ReplayFromInv
     DEF TablesFollowLedger
<1> QED
  BY <1>1, ShownAlways, PTL
=============================================================================
