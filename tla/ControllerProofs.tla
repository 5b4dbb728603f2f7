--------------------------- MODULE ControllerProofs ---------------------------
(***************************************************************************)
(* Proofs about the two models of the controller: FaultRegistry, for every *)
(* set of sites and lifetimes and every bound on calls and time, and       *)
(* PathSelection, for any number of hubs and VRFs, every set of metrics    *)
(* and every interleaving of drifts with a round.                          *)
(***************************************************************************)
EXTENDS FaultRegistry, PathSelection, FiniteSetTheorems,
        WellFoundedInduction, TLAPS

-----------------------------------------------------------------------------
(* The registries: type correctness.                                       *)

LEMMA SizeType ==
  ASSUME NEW A \in SUBSET Site
  PROVE  Cardinality(A) \in 0..Cardinality(Site)
<1>1. IsFiniteSet(A) /\ Cardinality(A) <= Cardinality(Site)
  BY FS_Subset, RegistryAssumption
<1> QED
  BY <1>1, FS_CardinalityType, RegistryAssumption

LEMMA RegistryInitType == Init => TypeOK
<1> SUFFICES ASSUME Init PROVE TypeOK
  OBVIOUS
<1>1. raised \in BOOLEAN
  BY Zenon DEF Init
<1> QED
  BY <1>1, RegistryAssumption DEF Init, TypeOK

LEMMA EntryType ==
  ASSUME TypeOK, NEW ttl \in Ttl \cup {Never}, MayPost(ttl)
  PROVE  NewEntry(ttl) \in Entry /\ posts + 1 \in 1..MaxPosts
<1>1. posts + 1 \in 1..MaxPosts
  BY RegistryAssumption DEF TypeOK, MayPost
<1>2. ttl # Never => clock + ttl \in 1..MaxTime
  BY RegistryAssumption DEF TypeOK, MayPost
<1> QED
  BY <1>1, <1>2 DEF NewEntry, Entry

LEMMA SnapshotType ==
  ASSUME NEW d, d \in [Site -> Entry \cup {None}]
  PROVE  Snapshot(d) \subseteq Site \X Entry
BY DEF Snapshot, Present

LEMMA PrunedType ==
  ASSUME NEW d, d \in [Site -> Entry \cup {None}], NEW item \in Site \X Entry
  PROVE  /\ Pruned(d, item) \in [Site -> Entry \cup {None}]
         /\ \A s \in Site : Pruned(d, item)[s] \in {d[s], None}
BY DEF Pruned

LEMMA RegistryNextType == ASSUME TypeOK, [Next]_vars PROVE TypeOK'
<1> USE DEF TypeOK
<1>1. ASSUME NEW s \in Site, NEW ttl \in Ttl \cup {Never}, PostDrift(s, ttl)
      PROVE  TypeOK'
  BY <1>1, EntryType, RegistryAssumption DEF PostDrift, tickVars, getVars
<1>2. ASSUME NEW s \in Site, NEW ttl \in Ttl, PostOverlay(s, ttl)
      PROVE  TypeOK'
  BY <1>2, EntryType, RegistryAssumption DEF PostOverlay, tickVars, getVars
<1>3. ASSUME NEW s \in Site, ClearDrift(s) \/ ClearOverlay(s)
      PROVE  TypeOK'
  BY <1>3, RegistryAssumption DEF ClearDrift, ClearOverlay, tickVars, getVars
<1>4. CASE GetOverlay
  <2>1. Present(overlay) \subseteq Site
    BY DEF Present
  <2> QED BY <1>4, <2>1, SizeType DEF GetOverlay, tickVars
<1>5. CASE GetNext
  <2>1. raised' \in BOOLEAN
    <3>1. raised' = TRUE \/ raised' = raised
      BY <1>5, Zenon DEF GetNext
    <3>2. raised \in BOOLEAN /\ TRUE \in BOOLEAN
      OBVIOUS
    <3>3. CASE raised' = TRUE    BY <3>2, <3>3, Zenon
    <3>4. CASE raised' = raised  BY <3>2, <3>4, Zenon
    <3> QED BY <3>1, <3>3, <3>4, Zenon
  <2>2. walk' \in {None} \cup [left: SUBSET Site, size: 0..Cardinality(Site)]
    BY <1>5 DEF GetNext
  <2> QED BY <1>5, <2>1, <2>2 DEF GetNext, tickVars
<1>6. CASE TickStart
  BY <1>6, SnapshotType DEF TickStart, handlerVars, getVars
<1>7. ASSUME NEW item \in todo, PruneDrift(item) PROVE TypeOK'
  BY <1>7, PrunedType DEF PruneDrift, handlerVars, getVars
<1>8. CASE SnapshotOverlay
  BY <1>8, SnapshotType DEF SnapshotOverlay, handlerVars, getVars
<1>9. ASSUME NEW item \in todo, PruneOverlay(item) PROVE TypeOK'
  BY <1>9, PrunedType DEF PruneOverlay, handlerVars, getVars
<1>10. CASE StartUpdate \/ TickEnd
  BY <1>10 DEF StartUpdate, TickEnd, handlerVars, getVars
<1>11. CASE Pass
  BY <1>11, RegistryAssumption DEF Pass, handlerVars, getVars
<1>12. CASE UNCHANGED vars
  BY <1>12 DEF vars
<1> QED
  BY <1>1, <1>2, <1>3, <1>4, <1>5, <1>6, <1>7, <1>8, <1>9, <1>10, <1>11, <1>12
     DEF Next, Tick

(* Every reachable state of the registries is well typed.                  *)
THEOREM RegistryTypes == Spec => []TypeOK
BY RegistryInitType, RegistryNextType, PTL DEF Spec

-----------------------------------------------------------------------------
(* What the registries hold.                                               *)

(* No superseded or cleared entry comes back, whatever the interleaving of *)
(* calls and ticks: every write to a dict is a call's own or removes.      *)
THEOREM NothingReturns == Spec => []NothingComesBack
<1>1. Init => NothingComesBack
  BY DEF Init, NothingComesBack
<1>2. TypeOK /\ NothingComesBack /\ [Next]_vars => NothingComesBack'
  <2> SUFFICES ASSUME TypeOK, NothingComesBack, [Next]_vars
               PROVE  NothingComesBack'
    OBVIOUS
  <2> USE DEF NothingComesBack, TypeOK
  <2>1. ASSUME NEW s \in Site, NEW ttl \in Ttl \cup {Never}, PostDrift(s, ttl)
        PROVE  NothingComesBack'
    BY <2>1 DEF PostDrift
  <2>2. ASSUME NEW s \in Site, NEW ttl \in Ttl, PostOverlay(s, ttl)
        PROVE  NothingComesBack'
    BY <2>2 DEF PostOverlay
  <2>3. ASSUME NEW s \in Site, ClearDrift(s) \/ ClearOverlay(s)
        PROVE  NothingComesBack'
    BY <2>3 DEF ClearDrift, ClearOverlay
  <2>4. ASSUME NEW item \in todo, PruneDrift(item) \/ PruneOverlay(item)
        PROVE  NothingComesBack'
    BY <2>4, PrunedType DEF PruneDrift, PruneOverlay, handlerVars
  <2>5. CASE \/ GetOverlay \/ GetNext \/ TickStart \/ SnapshotOverlay
             \/ StartUpdate \/ TickEnd \/ Pass \/ UNCHANGED vars
    BY <2>5 DEF GetOverlay, GetNext, TickStart, SnapshotOverlay, StartUpdate,
                TickEnd, Pass, vars, handlerVars
  <2> QED
    BY <2>1, <2>2, <2>3, <2>4, <2>5 DEF Next, Tick
<1> QED
  BY <1>1, <1>2, RegistryTypes, PTL DEF Spec

(* The sites of a dict that is past its end and that the tick has not yet  *)
(* come to are still in its snapshot.                                      *)
Pending(dict) ==
  \A s \in Site : dict[s] # None /\ Expired(dict[s], now) => <<s, dict[s]>> \in todo

Fresh(dict) == \A s \in Site : dict[s] # None => ~Expired(dict[s], now)

(* The inductive form of UpdateSeesNoneExpired: the loop a tick is in has  *)
(* the expired entries of its dict before it, the loops behind it have     *)
(* left none, and no call adds one, for the tick's now is in the past.     *)
TickInv ==
  /\ now <= clock
  /\ pc = "drift" => Pending(drift)
  /\ pc \in {"overlay", "update"} => Fresh(drift)
  /\ pc = "overlay" => Pending(overlay)
  /\ pc = "update" => Fresh(overlay)

LEMMA NewIsFresh ==
  ASSUME TypeOK, TickInv, NEW ttl \in Ttl \cup {Never}, MayPost(ttl)
  PROVE  ~Expired(NewEntry(ttl), now)
<1>1. clock \in Nat /\ now \in Nat /\ now <= clock
  BY RegistryAssumption DEF TypeOK, TickInv
<1>2. ASSUME ttl # Never PROVE ~(clock + ttl <= now)
  <2>1. ttl \in Nat /\ ttl # 0
    BY <1>2, RegistryAssumption
  <2> QED BY <1>1, <2>1
<1>3. NewEntry(ttl).expires = IF ttl = Never THEN Never ELSE clock + ttl
  BY DEF NewEntry
<1> QED
  BY <1>2, <1>3 DEF Expired

(* Storing a fresh entry or removing one keeps what a loop still owes.     *)
LEMMA StoreKeeps ==
  ASSUME NEW d, d \in [Site -> Entry \cup {None}], NEW s \in Site,
         NEW e \in Entry \cup {None}, e # None => ~Expired(e, now)
  PROVE  /\ Pending(d) => Pending([d EXCEPT ![s] = e])
         /\ Fresh(d) => Fresh([d EXCEPT ![s] = e])
BY DEF Pending, Fresh

LEMMA TickStep == ASSUME TypeOK, TickInv, [Next]_vars PROVE TickInv'
<1> USE DEF TypeOK
<1>1. ASSUME NEW s \in Site, NEW ttl \in Ttl \cup {Never}, PostDrift(s, ttl)
      PROVE  TickInv'
  <2>1. NewEntry(ttl) \in Entry /\ ~Expired(NewEntry(ttl), now)
    BY <1>1, EntryType, NewIsFresh DEF PostDrift
  <2>2. drift' = [drift EXCEPT ![s] = NewEntry(ttl)] /\ UNCHANGED <<overlay, tickVars>>
    BY <1>1 DEF PostDrift
  <2> QED
    BY <2>1, <2>2, StoreKeeps DEF TickInv, Pending, Fresh, tickVars
<1>2. ASSUME NEW s \in Site, NEW ttl \in Ttl, PostOverlay(s, ttl)
      PROVE  TickInv'
  <2>1. NewEntry(ttl) \in Entry /\ ~Expired(NewEntry(ttl), now)
    BY <1>2, EntryType, NewIsFresh DEF PostOverlay
  <2>2. overlay' = [overlay EXCEPT ![s] = NewEntry(ttl)] /\ UNCHANGED <<drift, tickVars>>
    BY <1>2 DEF PostOverlay
  <2> QED
    BY <2>1, <2>2, StoreKeeps DEF TickInv, Pending, Fresh, tickVars
<1>3. ASSUME NEW s \in Site, ClearDrift(s) PROVE TickInv'
  BY <1>3, StoreKeeps DEF ClearDrift, TickInv, Pending, Fresh, tickVars
<1>4. ASSUME NEW s \in Site, ClearOverlay(s) PROVE TickInv'
  BY <1>4, StoreKeeps DEF ClearOverlay, TickInv, Pending, Fresh, tickVars
<1>5. CASE TickStart
  BY <1>5 DEF TickStart, TickInv, Pending, Snapshot, Present, handlerVars
<1>6. ASSUME NEW item \in todo, PruneDrift(item) PROVE TickInv'
  <2>1. item \in Site \X Entry /\ drift' = Pruned(drift, item)
    BY <1>6 DEF PruneDrift
  <2>2. Pending(drift)'
    BY <1>6, <2>1 DEF PruneDrift, TickInv, Pending, Pruned
  <2> QED BY <1>6, <2>2 DEF PruneDrift, TickInv
<1>7. CASE SnapshotOverlay
  <2>1. Fresh(drift)'
    BY <1>7 DEF SnapshotOverlay, TickInv, Pending, Fresh
  <2>2. Pending(overlay)'
    BY <1>7 DEF SnapshotOverlay, Pending, Snapshot, Present
  <2> QED BY <1>7, <2>1, <2>2 DEF SnapshotOverlay, TickInv
<1>8. ASSUME NEW item \in todo, PruneOverlay(item) PROVE TickInv'
  <2>1. item \in Site \X Entry /\ overlay' = Pruned(overlay, item)
    BY <1>8 DEF PruneOverlay
  <2>2. Pending(overlay)'
    BY <1>8, <2>1 DEF PruneOverlay, TickInv, Pending, Pruned
  <2>3. Fresh(drift)'
    BY <1>8 DEF PruneOverlay, TickInv, Fresh
  <2> QED BY <1>8, <2>2, <2>3 DEF PruneOverlay, TickInv
<1>9. CASE StartUpdate
  BY <1>9 DEF StartUpdate, TickInv, Pending, Fresh
<1>10. CASE TickEnd
  BY <1>10 DEF TickEnd, TickInv
<1>11. CASE Pass
  BY <1>11 DEF Pass, TickInv, Pending, Fresh
<1>12. CASE GetOverlay \/ GetNext \/ UNCHANGED vars
  BY <1>12 DEF GetOverlay, GetNext, vars, tickVars, TickInv, Pending, Fresh
<1> QED
  BY <1>1, <1>2, <1>3, <1>4, <1>5, <1>6, <1>7, <1>8, <1>9, <1>10, <1>11, <1>12
     DEF Next, Tick

(* While the tunnels are updated no entry is past its end as of the tick,  *)
(* whatever was posted and cleared while the tick was pruning.             *)
THEOREM UpdatesAreCurrent == Spec => []UpdateSeesNoneExpired
<1>1. Init => TickInv
  BY DEF Init, TickInv
<1>2. TypeOK /\ TickInv /\ [Next]_vars => TickInv'
  BY TickStep
<1>3. TickInv => UpdateSeesNoneExpired
  BY DEF TickInv, Fresh, UpdateSeesNoneExpired
<1> QED
  BY <1>1, <1>2, <1>3, RegistryTypes, PTL DEF Spec

-----------------------------------------------------------------------------
(* Path selection: the hubs and their scores.                              *)

USE DEF Hub

LEMMA LeastNatural ==
  ASSUME NEW A \in SUBSET Nat, NEW a \in A
  PROVE  \E x \in A : \A y \in A : x <= y
<1> DEFINE R == {p \in Nat \X Nat : p[1] < p[2]}
<1>1. IsWellFoundedOn(R, Nat)
  BY NatLessThanWellFounded DEF OpToRel
<1>2. PICK x \in A : \A y \in A : <<y, x>> \notin R
  <2> HIDE DEF R
  <2> QED BY <1>1, WFMin
<1>3. ASSUME NEW y \in A PROVE x <= y
  <2>1. y \in Nat /\ x \in Nat
    OBVIOUS
  <2>2. y < x => <<y, x>> \in R
    BY <2>1
  <2>3. ~(y < x)
    BY <1>2, <2>2
  <2> QED BY <2>1, <2>3
<1> QED
  BY <1>3

LEMMA MetricType ==
  ASSUME PathTypeOK, NEW h \in Hub
  PROVE  metric[h].loss \in Nat /\ metric[h].latency \in Nat /\ metric[h].base \in Nat
BY PathAssumption DEF PathTypeOK

LEMMA ScoreType == ASSUME PathTypeOK, NEW h \in Hub PROVE Score(h) \in Nat
BY MetricType DEF Score

(* min() has a result: some hub has the least score, the first of equals.  *)
LEMMA BestExists ==
  ASSUME PathTypeOK
  PROVE  /\ Best \in Hub
         /\ \A g \in Hub : Score(Best) <= Score(g)
<1> DEFINE scores == {Score(h) : h \in Hub}
<1>1. scores \subseteq Nat /\ Score(1) \in scores
  BY ScoreType, PathAssumption
<1>2. PICK m \in scores : \A n \in scores : m <= n
  <2> HIDE DEF scores
  <2> QED BY <1>1, LeastNatural
<1> DEFINE least == {h \in Hub : Score(h) = m}
<1>3. PICK h0 \in least : TRUE
  BY <1>2
<1>4. PICK h \in least : \A g \in least : h <= g
  <2>1. least \subseteq Nat /\ h0 \in least
    BY <1>3
  <2> HIDE DEF least
  <2> QED BY <2>1, LeastNatural
<1>5. \A g \in Hub : Score(h) < Score(g) \/ (Score(h) = Score(g) /\ h <= g)
  <2> SUFFICES ASSUME NEW g \in Hub
               PROVE  Score(h) < Score(g) \/ (Score(h) = Score(g) /\ h <= g)
    OBVIOUS
  <2>1. Score(h) \in Nat /\ Score(g) \in Nat /\ Score(h) = m /\ h \in Hub
    BY ScoreType, <1>4
  <2>2. Score(h) <= Score(g)
    BY <2>1, <1>2
  <2>3. CASE Score(g) = m
    BY <2>1, <2>3, <1>4
  <2>4. CASE Score(g) # m
    BY <2>1, <2>2, <2>4
  <2> QED BY <2>3, <2>4
<1>6. /\ Best \in Hub
      /\ \A g \in Hub : Score(Best) < Score(g) \/ (Score(Best) = Score(g) /\ Best <= g)
  BY <1>4, <1>5 DEF Best
<1> QED
  BY <1>6, ScoreType

-----------------------------------------------------------------------------
(* Type correctness.                                                       *)

LEMMA PathNextType == PathTypeOK /\ [PathNext]_pathVars => PathTypeOK'
<1> SUFFICES ASSUME PathTypeOK, [PathNext]_pathVars PROVE PathTypeOK'
  OBVIOUS
<1>1. CASE Update
  BY <1>1 DEF Update, PathTypeOK
<1>2. ASSUME NEW v \in Vrf, Select(v) PROVE PathTypeOK'
  <2>1. active' \in {active, [active EXCEPT ![v] = Best], [active EXCEPT ![v] = Pref[v]]}
    BY <1>2 DEF Select, FailOver, Recover, Stay
  <2>2. active' \in [Vrf -> Hub]
    BY <2>1, BestExists, PathAssumption DEF PathTypeOK
  <2> QED BY <1>2, <2>2 DEF Select, FailOver, Recover, Stay, Taken, PathTypeOK
<1>3. ASSUME NEW m \in Mult, DriftSite(m) PROVE PathTypeOK'
  BY <1>3 DEF DriftSite, PathTypeOK
<1>4. CASE UndriftSite
  BY <1>4 DEF UndriftSite, PathTypeOK
<1>5. CASE UNCHANGED pathVars
  BY <1>5 DEF pathVars, PathTypeOK
<1> QED
  BY <1>1, <1>2, <1>3, <1>4, <1>5 DEF PathNext

(* Every reachable state of path selection is well typed; in particular,   *)
(* no VRF ever leaves the hubs.                                            *)
THEOREM PathTypes == PathSpec => []PathTypeOK
<1>1. PathInit => PathTypeOK
  BY PathAssumption DEF PathInit, PathTypeOK
<1> QED
  BY <1>1, PathNextType, PTL DEF PathSpec

-----------------------------------------------------------------------------
(* Where a round leaves the VRFs.                                          *)

(* A step moves at most one VRF, the one it takes from the round; only     *)
(* Update, which begins a round, changes metrics.                          *)
LEMMA RoundFrame ==
  ASSUME PathTypeOK, [PathNext]_pathVars
  PROVE  \/ waiting' = Vrf /\ UNCHANGED active
         \/ UNCHANGED <<metric, active, waiting>>
         \/ \E v \in Vrf :
              /\ Select(v)
              /\ UNCHANGED <<metric, siteDrift>>
              /\ waiting' = waiting \ {v}
              /\ \A w \in Vrf \ {v} : active'[w] = active[w]
<1>1. CASE Update  BY <1>1 DEF Update
<1>2. ASSUME NEW v \in Vrf, Select(v)
      PROVE  /\ UNCHANGED <<metric, siteDrift>> /\ waiting' = waiting \ {v}
             /\ \A w \in Vrf \ {v} : active'[w] = active[w]
  BY <1>2 DEF Select, FailOver, Recover, Stay, Taken, PathTypeOK
<1>3. CASE (\E m \in Mult : DriftSite(m)) \/ UndriftSite
  BY <1>3 DEF DriftSite, UndriftSite
<1>4. CASE UNCHANGED pathVars
  BY <1>4 DEF pathVars
<1> QED
  BY <1>1, <1>2, <1>3, <1>4 DEF PathNext

(* A test on the metrics has the same outcome while they do not change.    *)
LEMMA MetricFrame ==
  ASSUME metric' = metric
  PROVE  /\ Best' = Best
         /\ \A h \in Hub : /\ Healthy(h)' = Healthy(h)
                           /\ Score(h)' = Score(h)
BY DEF Best, Score, Healthy, Exceeds

(* Once a round is past a VRF, it is off its preference only while that    *)
(* hub is unhealthy, or on the best hub there is.                          *)
THEOREM OffPreferenceJustified == PathSpec => []OffPreferenceIsJustified
<1>1. PathInit => OffPreferenceIsJustified
  BY DEF PathInit, OffPreferenceIsJustified
<1>2. PathTypeOK /\ OffPreferenceIsJustified /\ [PathNext]_pathVars
      => OffPreferenceIsJustified'
  <2> SUFFICES ASSUME PathTypeOK, OffPreferenceIsJustified, [PathNext]_pathVars
               PROVE  OffPreferenceIsJustified'
    OBVIOUS
  <2>1. CASE waiting' = Vrf
    BY <2>1 DEF OffPreferenceIsJustified
  <2>2. CASE UNCHANGED <<metric, active, waiting>>
    BY <2>2, MetricFrame, PathAssumption DEF OffPreferenceIsJustified
  <2>3. ASSUME NEW v \in Vrf, Select(v), UNCHANGED <<metric, siteDrift>>,
               waiting' = waiting \ {v}, \A w \in Vrf \ {v} : active'[w] = active[w]
        PROVE  OffPreferenceIsJustified'
    <3>1. Best' = Best /\ \A w \in Vrf : Healthy(Pref[w])' = Healthy(Pref[w])
      BY <2>3, MetricFrame, PathAssumption
    <3>2. active'[v] # Pref[v] => ~Healthy(Pref[v]) \/ active'[v] = Best
      <4>1. CASE FailOver(v)  BY <4>1 DEF FailOver, PathTypeOK
      <4>2. CASE Recover(v)   BY <4>2 DEF Recover, PathTypeOK
      <4>3. CASE Stay(v)      BY <4>3 DEF Stay, MayRecover, PathTypeOK
      <4> QED BY <2>3, <4>1, <4>2, <4>3 DEF Select
    <3> QED BY <2>3, <3>1, <3>2 DEF OffPreferenceIsJustified
  <2> QED BY <2>1, <2>2, <2>3, RoundFrame
<1> QED
  BY <1>1, <1>2, PathTypes, PTL DEF PathSpec

LEMMA NoneBetterThanBest ==
  ASSUME PathTypeOK, NEW h \in Hub
  PROVE  /\ ~ClearlyBetter(h, Best)
         /\ \A g \in Hub : ~ClearlyBetter(Best, g) => ~ClearlyBetter(h, g)
<1>1. Score(h) \in Nat /\ Score(Best) \in Nat /\ Score(Best) <= Score(h)
  BY ScoreType, BestExists
<1>2. \A g \in Hub : Score(g) \in Nat
  BY ScoreType
<1> QED
  BY <1>1, <1>2 DEF ClearlyBetter

(* Whatever drifts are posted, once a round is past a VRF that VRF is not  *)
(* on a lossy tunnel with a hub 15% better at hand.                        *)
THEOREM LossyHasNoBetter == PathSpec => []LossyMeansNoBetter
<1> USE DEF FAILOVER_LOSS_PCT
<1>1. PathInit => LossyMeansNoBetter
  <2> SUFFICES ASSUME PathInit, NEW v \in Vrf
               PROVE  ~(metric[active[v]].loss >= FAILOVER_LOSS_PCT)
    BY DEF LossyMeansNoBetter
  <2>1. active[v] \in Hub /\ metric[active[v]].loss = 0
    BY PathAssumption DEF PathInit
  <2> QED BY <2>1
<1>2. PathTypeOK /\ LossyMeansNoBetter /\ [PathNext]_pathVars
      => LossyMeansNoBetter'
  <2> SUFFICES ASSUME PathTypeOK, LossyMeansNoBetter, [PathNext]_pathVars
               PROVE  LossyMeansNoBetter'
    OBVIOUS
  <2>1. CASE waiting' = Vrf
    BY <2>1 DEF LossyMeansNoBetter
  <2>2. CASE UNCHANGED <<metric, active, waiting>>
    BY <2>2 DEF LossyMeansNoBetter, ClearlyBetter, Score
  <2>3. ASSUME NEW v \in Vrf, Select(v), UNCHANGED <<metric, siteDrift>>,
               waiting' = waiting \ {v}, \A w \in Vrf \ {v} : active'[w] = active[w]
        PROVE  LossyMeansNoBetter'
    <3>1. active[v] \in Hub /\ Pref[v] \in Hub
      BY PathAssumption DEF PathTypeOK
    <3>2. metric[active'[v]].loss >= FAILOVER_LOSS_PCT =>
            \A h \in Hub : ~ClearlyBetter(h, active'[v])
      <4>1. CASE FailOver(v)
        <5>1. active'[v] = Best
          BY <4>1 DEF FailOver, PathTypeOK
        <5> QED BY <5>1, NoneBetterThanBest
      <4>2. CASE Recover(v)
        <5>1. active'[v] = Pref[v] /\ Healthy(Pref[v])
          BY <4>2 DEF Recover, MayRecover, PathTypeOK
        <5>2. ~(metric[Pref[v]].loss >= FAILOVER_LOSS_PCT)
          BY <5>1 DEF Healthy, Exceeds
        <5> QED BY <5>1, <5>2
      <4>3. CASE Stay(v)
        <5>1. active'[v] = active[v] /\ ~MustLeave(v)
          BY <4>3 DEF Stay
        <5>2. CASE Best = active[v]
          BY <5>1, <5>2, NoneBetterThanBest
        <5>3. CASE ~Degraded(active[v])
          BY <5>1, <5>3 DEF Degraded, Exceeds
        <5>4. CASE ~ClearlyBetter(Best, active[v])
          BY <5>1, <5>4, <3>1, NoneBetterThanBest
        <5> QED BY <5>1, <5>2, <5>3, <5>4 DEF MustLeave
      <4> QED BY <2>3, <4>1, <4>2, <4>3 DEF Select
    <3>3. \A h, g \in Hub : ClearlyBetter(h, g)' = ClearlyBetter(h, g)
      BY <2>3, MetricFrame DEF ClearlyBetter
    <3>4. active'[v] \in Hub
      BY PathNextType DEF PathTypeOK
    <3>5. \A w \in Vrf : active[w] \in Hub
      BY DEF PathTypeOK
    <3> QED BY <2>3, <3>2, <3>3, <3>4, <3>5 DEF LossyMeansNoBetter
  <2> QED BY <2>1, <2>2, <2>3, RoundFrame
<1> QED
  BY <1>1, <1>2, PathTypes, PTL DEF PathSpec

-----------------------------------------------------------------------------
(* The failover test under a drift.                                        *)

LEMMA MonotoneProduct ==
  ASSUME NEW b \in Nat, NEW m \in Nat, NEW n \in Nat, n <= m
  PROVE  b * n <= b * m
<1>1. m - n \in Nat
  OBVIOUS
<1>2. b * (m - n) \in Nat
  BY <1>1
<1>3. b * m = b * n + b * (m - n)
  OBVIOUS
<1> QED
  BY <1>2, <1>3

(* When every multiplier a caller may post is at least the policy's 3x,    *)
(* no drift makes a VRF leave a preferred hub that is healthy.             *)
THEOREM OnlyUnhealthyIsLeft ==
  ASSUME \A m \in Mult : m >= FAILOVER_LATENCY_MULT
  PROVE  PathSpec => LeavesOnlyUnhealthy
<1>1. ASSUME PathTypeOK, NEW h \in Hub, Degraded(h) PROVE ~Healthy(h)
  <2> DEFINE mult == IF siteDrift = NoDrift THEN FAILOVER_LATENCY_MULT ELSE siteDrift
  <2>1. mult \in Nat /\ FAILOVER_LATENCY_MULT <= mult
    BY <1>1, PathAssumption DEF PathTypeOK, FAILOVER_LATENCY_MULT
  <2>2. Exceeds(h, mult)
    BY <1>1 DEF Degraded
  <2> HIDE DEF mult
  <2>3. CASE metric[h].loss >= FAILOVER_LOSS_PCT
    BY <2>3 DEF Healthy, Exceeds
  <2>4. CASE metric[h].latency >= metric[h].base * mult
    <3>1. metric[h].base * FAILOVER_LATENCY_MULT <= metric[h].base * mult
      BY <1>1, <2>1, MetricType, MonotoneProduct DEF FAILOVER_LATENCY_MULT
    <3>2. /\ metric[h].base * FAILOVER_LATENCY_MULT \in Nat
          /\ metric[h].base * mult \in Nat /\ metric[h].latency \in Nat
      BY <1>1, <2>1, MetricType DEF FAILOVER_LATENCY_MULT
    <3>3. metric[h].latency >= metric[h].base * FAILOVER_LATENCY_MULT
      BY <2>4, <3>1, <3>2
    <3> QED BY <3>3 DEF Healthy, Exceeds
  <2> QED BY <2>2, <2>3, <2>4 DEF Exceeds
<1>2. ASSUME PathTypeOK, [PathNext]_pathVars, NEW v \in Vrf,
             active[v] = Pref[v], active'[v] # Pref[v]
      PROVE  ~Healthy(Pref[v])
  <2>1. Select(v)
    BY <1>2, RoundFrame
  <2>2. MustLeave(v)
    BY <1>2, <2>1 DEF Select, FailOver, Recover, Stay, PathTypeOK
  <2> QED BY <1>1, <1>2, <2>2, PathAssumption DEF MustLeave
<1>3. PathTypeOK /\ [PathNext]_pathVars =>
        [\A v \in Vrf : active[v] = Pref[v] /\ active'[v] # Pref[v]
                          => ~Healthy(Pref[v])]_pathVars
  BY <1>2
<1> QED
  BY <1>3, PathTypes, PTL DEF PathSpec, LeavesOnlyUnhealthy
=============================================================================
