------------------------- MODULE FaultInjectionProofs -------------------------
(***************************************************************************)
(* Proofs about FaultInjection, for every set of scenarios, targets,       *)
(* resources and injections, every pattern of failures and any number of   *)
(* restarts of the data API.                                               *)
(***************************************************************************)
EXTENDS FaultInjection, TLAPS

(* What each kind of lab step can do, whatever the footprints are.         *)
LEMMA LabSteps ==
  ASSUME NEW s \in Scenario, NEW t \in Target, NEW lab \in SUBSET Resource
  PROVE  /\ Touched(s, t) \subseteq Resource
         /\ Applied(lab, s, t) \subseteq lab \cup Touched(s, t)
         /\ \A l \in ApplyRaised(lab, s, t) : l \subseteq lab \cup Touched(s, t)
         /\ Reverted(lab, s, t) = lab \ Footprint[s][t]
         /\ \A l \in RevertRaised(lab, s, t) : l \subseteq lab
         /\ ExtraApplied(lab, s, t) \subseteq lab
         /\ \A l \in ExtraRaised(lab, s, t) : l \subseteq lab \cup Touched(s, t)
         /\ ExtraReverted(lab, s, t) = lab \ ExtraOf[s][t]
<1>1. Footprint[s][t] \subseteq Resource /\ ExtraOf[s][t] \subseteq Resource
  BY LabAssumption
<1> QED
  BY <1>1 DEF Touched, Applied, ApplyRaised, Reverted, RevertRaised,
              ExtraApplied, ExtraRaised, ExtraReverted

-----------------------------------------------------------------------------
(* Type correctness.                                                       *)

LEMMA JobType == ASSUME TypeOK, NEW i \in Id
                 PROVE  S(i) \in Scenario /\ T(i) \in Target
BY DEF TypeOK, S, T

LEMMA InitType == Init => TypeOK
<1> SUFFICES ASSUME Init PROVE TypeOK
  OBVIOUS
<1>1. [scenario: Scenario, target: Target] # {}
  <2>1. PICK s \in Scenario, t \in Target : TRUE
    BY LabAssumption
  <2>2. [scenario |-> s, target |-> t] \in [scenario: Scenario, target: Target]
    OBVIOUS
  <2> QED BY <2>2
<1>2. (CHOOSE j \in [scenario: Scenario, target: Target] : TRUE)
        \in [scenario: Scenario, target: Target]
  BY <1>1
<1>3. job \in [Id -> [scenario: Scenario, target: Target]]
  BY <1>2 DEF Init
<1> QED
  BY <1>3, FaultInjectionAssumption DEF Init, TypeOK, PC

(* A worker's moves stay inside PC and the error inside its tags.          *)
LEMMA WorkerType == ASSUME TypeOK, NEW i \in Id, Worker(i)
                    PROVE  TypeOK'
<1> USE DEF TypeOK, PC, Before, Owing, After, Ended, apiVars, Goto, Raise, Note, Tag
<1> DEFINE s == S(i)
           t == T(i)
<1>0. s \in Scenario /\ t \in Target /\ impaired \in SUBSET Resource
  BY JobType
<1> HIDE DEF s, t
<1>1. CASE Build(i)
  <2>1. held' \in [Id -> BOOLEAN]
    <3>1. CASE held' = [held EXCEPT ![i] = S(i) \in Overlay]
      <4>1. (S(i) \in Overlay) \in BOOLEAN
        OBVIOUS
      <4> QED BY <4>1, <3>1, Zenon DEF TypeOK
    <3>2. CASE held' = held  BY <3>2
    <3> QED BY <1>1, <3>1, <3>2 DEF Build
  <2>2. pc' \in [Id -> PC]
    BY <1>1 DEF Build
  <2> QED BY <2>1, <2>2, <1>1 DEF Build
<1>2. CASE PostOverlay(i)
  <2>1. overlays' \in {overlays, [overlays EXCEPT ![t] = i]}
    BY <1>2 DEF PostOverlay, t
  <2>2. overlays' \in [Target -> Id \cup {None}]
    BY <2>1, <1>0
  <2>3. held' \in [Id -> BOOLEAN]
    <3>1. held' = held \/ held' = [held EXCEPT ![i] = FALSE]
      BY <1>2, Zenon DEF PostOverlay
    <3> QED BY <3>1
  <2>4. error' \in [Id -> SUBSET Tag]
    <3>1. error' = error \/ error' = [error EXCEPT ![i] = @ \cup {"overlay_post_failed"}]
      BY <1>2, Zenon DEF PostOverlay
    <3> QED BY <3>1
  <2> QED BY <2>2, <2>3, <2>4, <1>2 DEF PostOverlay
<1>3. CASE EmitPrecursors(i)  BY <1>3 DEF EmitPrecursors
<1>4. CASE WaitLead(i)  BY <1>4 DEF WaitLead
<1>5. CASE Fire(i)
  <2>1. impaired' \subseteq Resource
    <3>1. impaired' \in {Applied(impaired, S(i), T(i))} \cup ApplyRaised(impaired, S(i), T(i))
      BY <1>5 DEF Fire, Returned
    <3> QED BY <3>1, <1>0, LabSteps DEF s, t
  <2>2. fired' \in [Id -> BOOLEAN]
    <3>1. fired' = fired \/ fired' = [fired EXCEPT ![i] = ~HasExtra(S(i), T(i))]
      BY <1>5, Zenon DEF Fire
    <3> QED BY <3>1, Zenon
  <2>3. pc' \in [Id -> PC]
    BY <1>5 DEF Fire
  <2>4. error' \in [Id -> SUBSET Tag]
    BY <1>5 DEF Fire
  <2> QED BY <2>1, <2>2, <2>3, <2>4, <1>5, Zenon DEF Fire
<1>6. CASE FireExtra(i)
  <2>1. impaired' \subseteq Resource
    <3>1. impaired' \in {ExtraApplied(impaired, S(i), T(i))} \cup ExtraRaised(impaired, S(i), T(i))
      BY <1>6 DEF FireExtra, Returned
    <3> QED BY <3>1, <1>0, LabSteps DEF s, t
  <2>2. fired' \in [Id -> BOOLEAN]
    <3>1. fired' = fired \/ fired' = [fired EXCEPT ![i] = TRUE]
      BY <1>6, Zenon DEF FireExtra
    <3> QED BY <3>1, Zenon
  <2>3. pc' \in [Id -> PC]
    BY <1>6 DEF FireExtra
  <2>4. error' \in [Id -> SUBSET Tag]
    BY <1>6 DEF FireExtra
  <2> QED BY <2>1, <2>2, <2>3, <2>4, <1>6, Zenon DEF FireExtra
<1>7. CASE Hold(i)  BY <1>7 DEF Hold
<1>8. CASE SkipRevert(i)  BY <1>8 DEF SkipRevert
<1>9. CASE RevertExtra(i)
  <2>1. impaired' \subseteq Resource
    <3>1. impaired' \in {impaired, ExtraReverted(impaired, s, t)}
      BY <1>9 DEF RevertExtra, Returned, s, t
    <3> QED BY <3>1, <1>0, LabSteps
  <2>2. error' \in [Id -> SUBSET Tag]
    BY <1>9 DEF RevertExtra
  <2> QED BY <2>1, <2>2, <1>9 DEF RevertExtra
<1>10. CASE RevertInjector(i)
  <2>1. impaired' \subseteq Resource
    <3>1. impaired' \in {Reverted(impaired, s, t)} \cup RevertRaised(impaired, s, t)
      BY <1>10 DEF RevertInjector, Returned, s, t
    <3> QED BY <3>1, <1>0, LabSteps
  <2>2. error' \in [Id -> SUBSET Tag]
    BY <1>10 DEF RevertInjector
  <2> QED BY <2>1, <2>2, <1>10 DEF RevertInjector
<1>11. CASE ClearOverlay(i)
  <2>1. overlays' \in {overlays, [overlays EXCEPT ![t] = None]}
    BY <1>11 DEF ClearOverlay, t
  <2>2. overlays' \in [Target -> Id \cup {None}]
    BY <2>1, <1>0
  <2>3. error' \in [Id -> SUBSET Tag]
    BY <1>11 DEF ClearOverlay
  <2> QED BY <2>2, <2>3, <1>11 DEF ClearOverlay
<1>12. CASE WriteLabel(i)
  <2>1. FinalError(i) \in SUBSET Tag
    BY DEF FinalError
  <2>3. rows' \in [Id -> (SUBSET Tag) \cup {None}] /\ error' \in [Id -> SUBSET Tag]
    BY <2>1, <1>12 DEF WriteLabel
  <2> QED BY <2>3, <1>12 DEF WriteLabel
<1>13. CASE Unregister(i)  BY <1>13 DEF Unregister
<1> QED
  BY <1>1, <1>2, <1>3, <1>4, <1>5, <1>6, <1>7, <1>8, <1>9, <1>10, <1>11,
     <1>12, <1>13 DEF Worker

LEMMA NextType == TypeOK /\ [Next]_vars => TypeOK'
<1> SUFFICES ASSUME TypeOK, [Next]_vars PROVE TypeOK'
  OBVIOUS
<1> USE DEF TypeOK
<1>1. ASSUME NEW i \in Id, NEW s \in Scenario, NEW t \in Target, Inject(i, s, t)
      PROVE  TypeOK'
  BY <1>1 DEF Inject, PC, Before
<1>2. ASSUME NEW i \in Id, RevertPop(i) PROVE TypeOK'
  BY <1>2 DEF RevertPop, workerVars
<1>3. ASSUME NEW i \in Id, RevertSignal(i) PROVE TypeOK'
  BY <1>3 DEF RevertSignal, workerVars
<1>4. ASSUME NEW i \in Id, Worker(i) PROVE TypeOK'
  BY <1>4, WorkerType
<1>5. ASSUME NEW t \in Target, ExpireOverlay(t) PROVE TypeOK'
  BY <1>5 DEF ExpireOverlay, apiVars, workerVars
<1>8. ASSUME NEW r \in Daemon, Respawn(r)
      PROVE  TypeOK'
  BY <1>8 DEF Respawn, Respawned, apiVars, workerVars
<1>6. CASE Crash
  BY <1>6, FaultInjectionAssumption DEF Crash, PC, Ended
<1>7. CASE UNCHANGED vars
  BY <1>7 DEF vars
<1> QED
  BY <1>1, <1>2, <1>3, <1>4, <1>5, <1>6, <1>7, <1>8 DEF Next

(* Every reachable state of live injection is well typed.                  *)
THEOREM TypeCorrect == Spec => []TypeOK
BY InitType, NextType, PTL DEF Spec

-----------------------------------------------------------------------------
(* Registry and worker ends.                                               *)

(* A worker moves only itself: it touches no other worker's variables, and *)
(* the API's only when it unregisters.                                     *)
LEMMA WorkerFrame ==
  ASSUME TypeOK, NEW i \in Id, Worker(i)
  PROVE  /\ UNCHANGED <<job, reverting, cancel, crashes>>
         /\ active' = active \/ (active' = active \ {i} /\ pc'[i] = "done")
         /\ Live(i)
         /\ pc'[i] # "none" /\ pc'[i] # "lost"
         /\ \A j \in Id \ {i} : /\ pc'[j] = pc[j]
                                /\ error'[j] = error[j]
                                /\ held'[j] = held[j]
                                /\ fired'[j] = fired[j]
                                /\ rows'[j] = rows[j]
BY DEF Worker, TypeOK, Build, PostOverlay, EmitPrecursors, WaitLead, Fire,
       FireExtra, Hold, SkipRevert, RevertExtra, RevertInjector, ClearOverlay,
       WriteLabel, Unregister, Goto, Raise, Note, apiVars, Live, Ended

(* Two registered injections never share a target.                         *)
THEOREM RegistryIsExclusive == Spec => []RegistryExclusive
<1>1. Init => RegistryExclusive
  BY DEF Init, RegistryExclusive
<1>2. TypeOK /\ RegistryExclusive /\ [Next]_vars => RegistryExclusive'
  <2> SUFFICES ASSUME TypeOK, RegistryExclusive, [Next]_vars
               PROVE  RegistryExclusive'
    OBVIOUS
  <2>1. ASSUME NEW i \in Id, NEW s \in Scenario, NEW t \in Target, Inject(i, s, t)
        PROVE  RegistryExclusive'
    <3>1. \A j \in active \ {i} : T(j)' = T(j) /\ T(j) # t
      BY <2>1 DEF Inject, Conflict, T, TypeOK
    <3>2. T(i)' = t
      BY <2>1 DEF Inject, Conflict, T, TypeOK
    <3>3. active' = active \cup {i}
      BY <2>1 DEF Inject
    <3> QED BY <3>1, <3>2, <3>3 DEF RegistryExclusive
  <2>2. ASSUME active' \subseteq active, job' = job
        PROVE  RegistryExclusive'
    BY <2>2 DEF RegistryExclusive, T
  <2>3. ASSUME NEW i \in Id, RevertPop(i) \/ RevertSignal(i)
        PROVE  RegistryExclusive'
    BY <2>2, <2>3 DEF RevertPop, RevertSignal
  <2>4. ASSUME NEW i \in Id, Worker(i) PROVE RegistryExclusive'
    BY <2>2, <2>4, WorkerFrame
  <2>5. ASSUME NEW t \in Target, ExpireOverlay(t) PROVE RegistryExclusive'
    BY <2>2, <2>5 DEF ExpireOverlay, apiVars
  <2>8. ASSUME NEW r \in Daemon, Respawn(r)
        PROVE  RegistryExclusive'
    BY <2>8, <2>2 DEF Respawn, apiVars
  <2>6. CASE Crash
    BY <2>2, <2>6 DEF Crash
  <2>7. CASE UNCHANGED vars
    BY <2>2, <2>7 DEF vars
  <2> QED
    BY <2>1, <2>3, <2>4, <2>5, <2>6, <2>7, <2>8 DEF Next
<1> QED
  BY <1>1, <1>2, TypeCorrect, PTL DEF Spec

(* A worker that runs outside the registry has been told to stop, or a     *)
(* revert handler is about to tell it.                                     *)
THEOREM UnregisteredAreCancelled == Spec => []UnregisteredIsCancelled
<1>1. Init => UnregisteredIsCancelled
  BY DEF Init, UnregisteredIsCancelled, Live
<1>2. TypeOK /\ UnregisteredIsCancelled /\ [Next]_vars => UnregisteredIsCancelled'
  <2> SUFFICES ASSUME TypeOK, UnregisteredIsCancelled, [Next]_vars,
                      NEW j \in Id, Live(j)', j \notin active'
               PROVE  cancel'[j] \/ j \in reverting'
    BY DEF UnregisteredIsCancelled
  <2> USE DEF UnregisteredIsCancelled
  <2>1. ASSUME NEW i \in Id, NEW s \in Scenario, NEW t \in Target, Inject(i, s, t)
        PROVE  cancel'[j] \/ j \in reverting'
    BY <2>1 DEF Inject, Live, TypeOK
  <2>2. ASSUME NEW i \in Id, RevertPop(i)
        PROVE  cancel'[j] \/ j \in reverting'
    BY <2>2 DEF RevertPop, Live, workerVars
  <2>3. ASSUME NEW i \in Id, RevertSignal(i)
        PROVE  cancel'[j] \/ j \in reverting'
    BY <2>3 DEF RevertSignal, Live, TypeOK, workerVars
  <2>4. ASSUME NEW i \in Id, Worker(i)
        PROVE  cancel'[j] \/ j \in reverting'
    BY <2>4, WorkerFrame DEF Live, Ended
  <2>5. ASSUME NEW t \in Target, ExpireOverlay(t)
        PROVE  cancel'[j] \/ j \in reverting'
    BY <2>5 DEF ExpireOverlay, Live, apiVars, workerVars
  <2>8. ASSUME NEW r \in Daemon, Respawn(r)
        PROVE  cancel'[j] \/ j \in reverting'
    BY <2>8 DEF Respawn, Live, apiVars, workerVars
  <2>6. CASE Crash
    BY <2>6 DEF Crash, Live, Ended, TypeOK
  <2>7. CASE UNCHANGED vars
    BY <2>7 DEF vars, Live
  <2> QED
    BY <2>1, <2>2, <2>3, <2>4, <2>5, <2>6, <2>7, <2>8 DEF Next
<1> QED
  BY <1>1, <1>2, TypeCorrect, PTL DEF Spec

-----------------------------------------------------------------------------
(* Label rows.                                                             *)

RowInv ==
  \A i \in Id : rows[i] # None =>
    /\ pc[i] \in {"unregister", "done", "lost"}
    /\ rows[i] = error[i]

(* A row carries the errors its injection noted.                           *)
LEMMA RowsTellTheTruth == Spec => []RowInv
<1>1. Init => RowInv
  BY DEF Init, RowInv
<1>2. TypeOK /\ RowInv /\ [Next]_vars => RowInv'
  <2> SUFFICES ASSUME TypeOK, RowInv, [Next]_vars, NEW j \in Id, rows'[j] # None
               PROVE  /\ pc'[j] \in {"unregister", "done", "lost"}
                      /\ rows'[j] = error'[j]
    BY DEF RowInv
  <2> DEFINE Goal == /\ pc'[j] \in {"unregister", "done", "lost"}
                     /\ rows'[j] = error'[j]
  <2>0. ASSUME rows[j] # None
        PROVE  /\ pc[j] \in {"unregister", "done", "lost"}
               /\ rows[j] = error[j]
    BY <2>0 DEF RowInv
  <2>1. ASSUME NEW i \in Id, NEW s \in Scenario, NEW t \in Target, Inject(i, s, t)
        PROVE  Goal
    BY <2>0, <2>1 DEF Inject, TypeOK
  <2>2. ASSUME pc' = pc, error' = error, rows' = rows
        PROVE  Goal
    BY <2>0, <2>2
  <2>3. ASSUME NEW i \in Id, RevertPop(i) \/ RevertSignal(i)
        PROVE  Goal
    BY <2>2, <2>3 DEF RevertPop, RevertSignal, workerVars
  <2>4. ASSUME NEW i \in Id, Worker(i)
        PROVE  Goal
    <3>1. CASE j # i
      BY <2>0, <2>4, <3>1, WorkerFrame
    <3>2. CASE j = i /\ WriteLabel(i)
      <4>1. rows'[i] # rows[i] => rows'[i] = FinalError(i)
        BY <3>2 DEF WriteLabel, TypeOK
      <4>2. pc[i] = "label" /\ pc'[i] = "unregister" /\ error'[i] = FinalError(i)
        BY <3>2 DEF WriteLabel, Goto, TypeOK
      <4>3. rows'[i] = FinalError(i)
        BY <2>0, <3>2, <4>1, <4>2
      <4> QED BY <3>2, <4>2, <4>3
    <3>3. CASE j = i /\ ~WriteLabel(i)
      <4>1. rows'[i] = rows[i]
        BY <2>4, <3>3 DEF Worker, Build, PostOverlay, EmitPrecursors, WaitLead,
             Fire, FireExtra, Hold, SkipRevert, RevertExtra, RevertInjector,
             ClearOverlay, Unregister
      <4>2. pc[i] = "unregister"
        BY <2>0, <2>4, <3>3, <4>1, WorkerFrame DEF Live, Ended
      <4>3. Unregister(i)
        BY <2>4, <3>3, <4>2 DEF Worker, Build, PostOverlay, EmitPrecursors,
             WaitLead, Fire, FireExtra, Hold, SkipRevert, RevertExtra,
             RevertInjector, ClearOverlay, Goto
      <4> QED BY <2>0, <3>3, <4>3 DEF Unregister, Goto, TypeOK
    <3> QED BY <3>1, <3>2, <3>3
  <2>5. ASSUME NEW t \in Target, ExpireOverlay(t)
        PROVE  Goal
    BY <2>2, <2>5 DEF ExpireOverlay, workerVars
  <2>8. ASSUME NEW r \in Daemon, Respawn(r)
        PROVE  Goal
    BY <2>8, <2>2 DEF Respawn, workerVars
  <2>6. CASE Crash
    BY <2>0, <2>6 DEF Crash, Live, Ended
  <2>7. CASE UNCHANGED vars
    BY <2>2, <2>7 DEF vars
  <2> QED
    BY <2>1, <2>3, <2>4, <2>5, <2>6, <2>7, <2>8 DEF Next
<1> QED
  BY <1>1, <1>2, TypeCorrect, PTL DEF Spec

-----------------------------------------------------------------------------
(* Leaks.  LeakIsExplained is not inductive: it lets an injection whose    *)
(* extra is already reverted answer for the extra's resources.  LeakInv    *)
(* says what each injection still owes at each place of run_scenario.      *)

Blamed(i) == error[i] \cap {"scenario_error", "revert_failed"} # {}

Owes(i, r) ==
  \/ pc[i] \in {"extra", "hold", "unextra"} /\ r \in Touched(S(i), T(i))
  \/ pc[i] = "unapply" /\ r \in Footprint[S(i)][T(i)]

Explains(i, r) ==
  /\ Started(i)
  /\ \/ Owes(i, r)
     \/ r \in Touched(S(i), T(i)) /\ (pc[i] = "lost" \/ Blamed(i))

LeakInv == \A r \in impaired : \E i \in Id : Explains(i, r)

LEMMA LeakInvImplies == LeakInv /\ RowInv => LeakIsExplained
BY DEF LeakInv, RowInv, LeakIsExplained, Explains, Owes, Blamed, Owing, Touched

(* An explanation survives a step of any other worker.                     *)
LEMMA OthersStillExplain ==
  ASSUME TypeOK, NEW i \in Id, Worker(i), NEW k \in Id \ {i}, NEW r,
         Explains(k, r)
  PROVE  Explains(k, r)'
<1>1. pc'[k] = pc[k] /\ error'[k] = error[k] /\ job' = job
  BY WorkerFrame
<1> QED
  BY <1>1 DEF Explains, Owes, Blamed, Started, S, T, Touched

(* An injection answers for every resource its own step leaves impaired,   *)
(* if that resource was not impaired before or the injection answered for  *)
(* it before.                                                              *)
LEMMA StepExplains ==
  ASSUME "refused" \notin CanFail,
         TypeOK, NEW i \in Id, Worker(i), NEW r \in impaired',
         r \in impaired => Explains(i, r)
  PROVE  Explains(i, r)'
<1> DEFINE s == S(i)
           t == T(i)
<1>0. s \in Scenario /\ t \in Target /\ impaired \in SUBSET Resource
  BY JobType DEF TypeOK
<1>1. s' = s /\ t' = t
  BY WorkerFrame DEF S, T
<1>2. pc'[i] # "none" /\ Live(i)
  BY WorkerFrame
<1>3. Touched(s, t) = Footprint[s][t] \cup ExtraOf[s][t]
  BY DEF Touched
<1>4. ASSUME r \in Touched(s, t), Blamed(i)' PROVE Explains(i, r)'
  BY <1>4, <1>1, <1>2 DEF Explains, Started, Touched
<1>5. ASSUME r \in Touched(s, t), pc'[i] \in {"extra", "hold", "unextra"}
      PROVE  Explains(i, r)'
  BY <1>5, <1>1, <1>2 DEF Explains, Owes, Started, Touched
<1>6. ASSUME r \in Footprint[s][t], pc'[i] = "unapply" PROVE Explains(i, r)'
  BY <1>6, <1>1, <1>2 DEF Explains, Owes, Started
<1>7. ASSUME r \in impaired
      PROVE  r \in Touched(s, t) /\ (Owes(i, r) \/ Blamed(i))
  BY <1>7, <1>2, <1>3 DEF Explains, Owes, Live, Ended
<1>8. ASSUME pc[i] \in Before \cup After \cup {"undo"}, r \in impaired
      PROVE  Blamed(i) /\ r \in Touched(s, t)
  BY <1>7, <1>8 DEF Owes, Before, After
<1>9. ASSUME Blamed(i), error'[i] = error[i] \/ "scenario_error" \in error'[i]
      PROVE  Blamed(i)'
  BY <1>9 DEF Blamed
<1>10. ASSUME pc[i] \in Before \cup After \cup {"undo"}, r \in impaired,
              error'[i] = error[i]
       PROVE  Explains(i, r)'
  BY <1>4, <1>8, <1>9, <1>10
<1>11. ASSUME NEW tag, Note(i, tag), Blamed(i) PROVE Blamed(i)'
  BY <1>11 DEF Blamed, Note, TypeOK
<1> HIDE DEF s, t
<1>a. CASE Build(i)
  BY <1>a, <1>10 DEF Build, Goto, Before, TypeOK
<1>b. CASE PostOverlay(i)
  <2>1. r \in impaired /\ pc[i] = "post"
    BY <1>b DEF PostOverlay, Goto
  <2>2. Blamed(i) /\ r \in Touched(s, t)
    BY <1>8, <2>1 DEF Before
  <2>3. error' = error \/ Note(i, "overlay_post_failed")
    BY <1>b DEF PostOverlay
  <2> QED BY <1>4, <1>9, <1>11, <2>2, <2>3
<1>c. CASE EmitPrecursors(i)
  BY <1>c, <1>10 DEF EmitPrecursors, Goto, Before
<1>d. CASE WaitLead(i)
  BY <1>d, <1>10 DEF WaitLead, Goto, Before
<1>e. CASE Fire(i)
  <2>1. r \in impaired \/ r \in Touched(s, t)
    <3>1. impaired' \in {Applied(impaired, s, t)} \cup ApplyRaised(impaired, s, t)
      BY <1>e DEF Fire, Returned, s, t
    <3> QED BY <3>1, <1>0, LabSteps
  <2>2. r \in Touched(s, t)
    BY <1>7, <2>1
  <2>3. pc'[i] \in {"extra", "hold"} \/ "scenario_error" \in error'[i]
    BY <1>e DEF Fire, Goto, Raise, TypeOK
  <2> QED BY <1>4, <1>5, <2>2, <2>3 DEF Blamed
<1>f. CASE FireExtra(i)
  <2>1. r \in impaired \/ r \in Touched(s, t)
    <3>1. impaired' \in {ExtraApplied(impaired, s, t)} \cup ExtraRaised(impaired, s, t)
      BY <1>f DEF FireExtra, Returned, s, t
    <3> QED BY <3>1, <1>0, LabSteps
  <2>2. r \in Touched(s, t)
    BY <1>7, <2>1
  <2>3. pc'[i] = "hold" \/ "scenario_error" \in error'[i]
    BY <1>f DEF FireExtra, Goto, Raise, TypeOK
  <2> QED BY <1>4, <1>5, <2>2, <2>3 DEF Blamed
<1>g. CASE Hold(i)
  <2>1. r \in impaired /\ error' = error
    BY <1>g DEF Hold
  <2>2. r \in Touched(s, t)
    BY <1>7, <2>1
  <2>3. CASE HasExtra(s, t)
    <3>1. pc'[i] = "unextra"
      BY <1>g, <2>3 DEF Hold, Goto, TypeOK, s, t
    <3> QED BY <3>1, <2>2, <1>5
  <2>4. CASE ~HasExtra(s, t)
    <3>1. pc'[i] = "unapply"
      BY <1>g, <2>4 DEF Hold, Goto, TypeOK, s, t
    <3>2. r \in Footprint[s][t]
      BY <2>2, <2>4, <1>3 DEF HasExtra
    <3> QED BY <3>1, <3>2, <1>6
  <2> QED BY <2>3, <2>4
<1>h. CASE SkipRevert(i)
  BY <1>h, <1>10 DEF SkipRevert, Goto
<1>i. CASE RevertExtra(i)
  <2>1. r \in impaired
    BY <1>i DEF RevertExtra, Returned, ExtraReverted
  <2>2. r \in Touched(s, t)
    BY <1>7, <2>1
  <2>3. CASE "revert_failed" \in error'[i]
    BY <2>2, <2>3, <1>4 DEF Blamed
  <2>4. CASE /\ impaired' = ExtraReverted(impaired, s, t)
             /\ Goto(i, "unextra", "unapply")
    <3>1. r \in Footprint[s][t]
      BY <2>2, <2>4, <1>3 DEF ExtraReverted
    <3>2. pc'[i] = "unapply"
      BY <2>4 DEF Goto, TypeOK
    <3> QED BY <3>1, <3>2, <1>6
  <2>5. (Note(i, "revert_failed") => "revert_failed" \in error'[i])
    BY DEF Note, TypeOK
  <2> QED BY <1>i, <2>3, <2>4, <2>5 DEF RevertExtra, Returned, s, t
<1>j. CASE RevertInjector(i)
  <2>1. r \in impaired /\ pc[i] = "unapply"
    BY <1>j DEF RevertInjector, Returned, Reverted, RevertRaised, Goto
  <2>2. r \in Touched(s, t) /\ (Owes(i, r) \/ Blamed(i))
    BY <1>7, <2>1
  <2>3. CASE Note(i, "revert_failed")
    <3>1. "revert_failed" \in error'[i]
      BY <2>3 DEF Note, TypeOK
    <3> QED BY <2>2, <3>1, <1>4 DEF Blamed
  <2>4. CASE impaired' = Reverted(impaired, s, t) /\ error' = error
    <3>1. r \notin Footprint[s][t]
      BY <2>4 DEF Reverted
    <3>2. ~Owes(i, r)
      BY <2>1, <3>1 DEF Owes, s, t
    <3> QED BY <2>2, <2>4, <3>2, <1>4, <1>9
  <2> QED BY <1>j, <2>3, <2>4 DEF RevertInjector, Returned, s, t
<1>k. CASE ClearOverlay(i)
  <2>1. r \in impaired /\ pc[i] = "clear"
    BY <1>k DEF ClearOverlay, Goto
  <2>2. Blamed(i) /\ r \in Touched(s, t)
    BY <1>8, <2>1 DEF After
  <2>3. error' = error \/ Note(i, "overlay_clear_failed")
    BY <1>k DEF ClearOverlay
  <2> QED BY <1>4, <1>9, <1>11, <2>2, <2>3
<1>l. CASE WriteLabel(i)
  <2>1. r \in impaired /\ pc[i] = "label"
    BY <1>l DEF WriteLabel, Goto
  <2>2. Blamed(i) /\ r \in Touched(s, t)
    BY <1>8, <2>1 DEF After
  <2>3. error'[i] = error[i]
    BY <2>2, <1>l DEF WriteLabel, FinalError, Blamed, TypeOK
  <2> QED BY <1>4, <1>9, <2>2, <2>3
<1>m. CASE Unregister(i)
  BY <1>m, <1>10 DEF Unregister, Goto, After
<1> QED
  BY <1>a, <1>b, <1>c, <1>d, <1>e, <1>f, <1>g, <1>h, <1>i, <1>j, <1>k, <1>l,
     <1>m DEF Worker

(* When no command is refused in silence, for every resource left impaired *)
(* there is an injection that will still revert it, or whose error names   *)
(* the failed step, or that was killed with the process.                   *)
THEOREM LeaksAreExplained ==
  ASSUME "refused" \notin CanFail
  PROVE  Spec => []LeakIsExplained
<1>1. Init => LeakInv
  BY DEF Init, LeakInv
<1>2. TypeOK /\ LeakInv /\ [Next]_vars => LeakInv'
  <2> SUFFICES ASSUME TypeOK, LeakInv, [Next]_vars, NEW r \in impaired'
               PROVE  \E k \in Id : Explains(k, r)'
    BY DEF LeakInv
  <2>0. ASSUME r \in impaired
        PROVE  \E k \in Id : Explains(k, r)
    BY <2>0 DEF LeakInv
  <2>1. ASSUME NEW i \in Id, NEW s \in Scenario, NEW t \in Target, Inject(i, s, t)
        PROVE  \E k \in Id : Explains(k, r)'
    <3>1. r \in impaired
      BY <2>1 DEF Inject
    <3>2. PICK k \in Id : Explains(k, r)
      BY <2>0, <3>1
    <3>3. k # i
      BY <2>1, <3>2 DEF Explains, Started, Inject
    <3>4. pc'[k] = pc[k] /\ job'[k] = job[k] /\ error' = error
      BY <2>1, <3>3 DEF Inject, TypeOK
    <3>5. Explains(k, r)'
      BY <3>2, <3>4 DEF Explains, Owes, Blamed, Started, S, T, Touched
    <3> QED BY <3>5
  <2>2. ASSUME impaired' = impaired, job' = job, pc' = pc, error' = error
        PROVE  \E k \in Id : Explains(k, r)'
    <3>1. PICK k \in Id : Explains(k, r)
      BY <2>0, <2>2
    <3>2. Explains(k, r)'
      BY <3>1, <2>2 DEF Explains, Owes, Blamed, Started, S, T, Touched
    <3> QED BY <3>2
  <2>3. ASSUME NEW i \in Id, RevertPop(i) \/ RevertSignal(i)
        PROVE  \E k \in Id : Explains(k, r)'
    BY <2>2, <2>3 DEF RevertPop, RevertSignal, workerVars
  <2>4. ASSUME NEW i \in Id, Worker(i)
        PROVE  \E k \in Id : Explains(k, r)'
    <3>1. CASE r \in impaired => Explains(i, r)
      BY <2>4, <3>1, StepExplains
    <3>2. CASE r \in impaired /\ ~Explains(i, r)
      <4>1. PICK k \in Id : Explains(k, r)
        BY <2>0, <3>2
      <4>2. k \in Id \ {i}
        BY <3>2, <4>1
      <4>3. Explains(k, r)'
        BY <2>4, <4>1, <4>2, OthersStillExplain
      <4> QED BY <4>3
    <3> QED BY <3>1, <3>2
  <2>5. ASSUME NEW t \in Target, ExpireOverlay(t)
        PROVE  \E k \in Id : Explains(k, r)'
    BY <2>2, <2>5 DEF ExpireOverlay, apiVars, workerVars
  <2>8. ASSUME NEW d \in Daemon, Respawn(d)
        PROVE  \E k \in Id : Explains(k, r)'
    <3>1. r \in impaired /\ UNCHANGED <<job, pc, error>>
      BY <2>8 DEF Respawn, Respawned, apiVars, workerVars
    <3>2. PICK k \in Id : Explains(k, r)
      BY <2>0, <3>1
    <3>3. Explains(k, r)'
      BY <3>1, <3>2 DEF Explains, Owes, Blamed, Started, S, T, Touched
    <3> QED BY <3>3
  <2>6. CASE Crash
    <3>1. PICK k \in Id : Explains(k, r)
      BY <2>0, <2>6 DEF Crash
    <3>2. job' = job /\ error' = error
      BY <2>6 DEF Crash
    <3>3. pc'[k] = IF Live(k) THEN "lost" ELSE pc[k]
      BY <2>6 DEF Crash
    <3>4. Started(k)' /\ r \in Touched(S(k), T(k))
      BY <3>1, <3>3 DEF Explains, Owes, Started, Live, Touched
    <3>5. Owes(k, r) => Live(k)
      BY DEF Owes, Live, Ended
    <3>6. Explains(k, r)'
      BY <3>1, <3>2, <3>3, <3>4, <3>5
         DEF Explains, Blamed, Started, Live, Ended, S, T, Touched
    <3> QED BY <3>6
  <2>7. CASE UNCHANGED vars
    BY <2>2, <2>7 DEF vars
  <2> QED
    BY <2>1, <2>3, <2>4, <2>5, <2>6, <2>7, <2>8 DEF Next
<1> QED
  BY <1>1, <1>2, TypeCorrect, RowsTellTheTruth, LeakInvImplies, PTL DEF Spec

-----------------------------------------------------------------------------
(* With injector calls that succeed, the lab returns to its baseline.      *)

Clean ==
  \A i \in Id : ~Blamed(i) /\ (pc[i] = "lost" => crashes # 0)

(* When apply() and revert() neither raise nor have a command refused,     *)
(* whatever the callers cancel and whatever else fails, no impairment      *)
(* outlives the workers.                                                   *)
THEOREM LabIsRestored ==
  ASSUME CanFail \cap {"apply", "extra", "revert", "refused"} = {}
  PROVE  Spec => []FinallyReverts
<1>1. Init => Clean
  BY DEF Init, Clean, Blamed
<1>2. TypeOK /\ Clean /\ [Next]_vars => Clean'
  <2> SUFFICES ASSUME TypeOK, Clean, [Next]_vars, NEW j \in Id
               PROVE  ~Blamed(j)' /\ (pc'[j] = "lost" => crashes' # 0)
    BY DEF Clean
  <2>0. ~Blamed(j) /\ (pc[j] = "lost" => crashes # 0)
    BY DEF Clean
  <2>1. ASSUME NEW i \in Id, NEW s \in Scenario, NEW t \in Target, Inject(i, s, t)
        PROVE  ~Blamed(j)' /\ (pc'[j] = "lost" => crashes' # 0)
    BY <2>0, <2>1 DEF Inject, Blamed, TypeOK
  <2>2. ASSUME pc' = pc, error' = error, crashes' = crashes
        PROVE  ~Blamed(j)' /\ (pc'[j] = "lost" => crashes' # 0)
    BY <2>0, <2>2 DEF Blamed
  <2>3. ASSUME NEW i \in Id, RevertPop(i) \/ RevertSignal(i)
        PROVE  ~Blamed(j)' /\ (pc'[j] = "lost" => crashes' # 0)
    BY <2>2, <2>3 DEF RevertPop, RevertSignal, workerVars
  <2>4. ASSUME NEW i \in Id, Worker(i)
        PROVE  ~Blamed(j)' /\ (pc'[j] = "lost" => crashes' # 0)
    <3>1. CASE j # i
      BY <2>0, <2>4, <3>1, WorkerFrame DEF Blamed
    <3>2. CASE j = i
      <4>1. pc'[i] # "lost"
        BY <2>4, WorkerFrame
      <4>2. \/ error'[i] = error[i]
            \/ error'[i] = error[i] \cup {"overlay_post_failed"}
            \/ error'[i] = error[i] \cup {"overlay_clear_failed"}
            \/ error'[i] = FinalError(i)
        BY <2>4 DEF Worker, TypeOK, Build, PostOverlay, EmitPrecursors, WaitLead,
             Fire, FireExtra, Hold, SkipRevert, RevertExtra, RevertInjector,
             ClearOverlay, WriteLabel, Unregister, Raise, Note
      <4> QED BY <2>0, <3>2, <4>1, <4>2 DEF Blamed, FinalError
    <3> QED BY <3>1, <3>2
  <2>5. ASSUME NEW t \in Target, ExpireOverlay(t)
        PROVE  ~Blamed(j)' /\ (pc'[j] = "lost" => crashes' # 0)
    BY <2>2, <2>5 DEF ExpireOverlay, workerVars
  <2>8. ASSUME NEW r \in Daemon, Respawn(r)
        PROVE  ~Blamed(j)' /\ (pc'[j] = "lost" => crashes' # 0)
    BY <2>8, <2>2 DEF Respawn, workerVars
  <2>6. CASE Crash
    <3>1. crashes' # 0
      BY <2>6, FaultInjectionAssumption DEF Crash, TypeOK
    <3> QED BY <2>0, <2>6, <3>1 DEF Crash, Blamed
  <2>7. CASE UNCHANGED vars
    BY <2>2, <2>7 DEF vars
  <2> QED
    BY <2>1, <2>3, <2>4, <2>5, <2>6, <2>7, <2>8 DEF Next
<1>3. Clean /\ LeakIsExplained => FinallyReverts
  BY DEF Clean, Blamed, LeakIsExplained, FinallyReverts, Live, Ended, Owing
<1>4. Spec => []LeakIsExplained
  <2>1. "refused" \notin CanFail
    OBVIOUS
  <2> QED BY <2>1, LeaksAreExplained
<1> QED
  BY <1>1, <1>2, <1>3, <1>4, TypeCorrect, PTL DEF Spec

-----------------------------------------------------------------------------
(* Overlays.                                                               *)

Accounted(i) ==
  \/ held[i] /\ pc[i] \in Posted
  \/ error[i] \cap {"overlay_post_failed", "overlay_clear_failed",
                      "scenario_error"} # {}
  \/ pc[i] = "lost"

OverlayInv ==
  /\ \A t \in Target : overlays[t] # None =>
       /\ Started(overlays[t])
       /\ T(overlays[t]) = t
       /\ Accounted(overlays[t])
  /\ \A i \in Id : pc[i] = "post" => held[i]

(* A worker that has posted an overlay stays accountable for it until its  *)
(* own clear takes it out of the controller.                               *)
LEMMA StepAccounts ==
  ASSUME TypeOK, NEW i \in Id, Worker(i), Accounted(i),
         ~(ClearOverlay(i) /\ error' = error)
  PROVE  Accounted(i)'
<1> USE DEF Posted, Owing, TypeOK
<1>1. CASE error[i] \cap {"overlay_post_failed", "overlay_clear_failed",
                          "scenario_error"} # {}
  <2>1. \/ error'[i] = error[i]
        \/ "scenario_error" \in error'[i]
        \/ error[i] \subseteq error'[i]
    BY <1>1 DEF Worker, Build, PostOverlay, EmitPrecursors, WaitLead,
         Fire, FireExtra, Hold, SkipRevert, RevertExtra, RevertInjector,
         ClearOverlay, WriteLabel, Unregister, Raise, Note, FinalError
  <2> QED BY <1>1, <2>1 DEF Accounted
<1>2. CASE held[i] /\ pc[i] \in Posted
  <2>1. CASE ClearOverlay(i)
    <3>1. Note(i, "overlay_clear_failed")
      BY <2>1 DEF ClearOverlay
    <3>2. "overlay_clear_failed" \in error'[i]
      BY <3>1 DEF Note
    <3> QED BY <3>2 DEF Accounted
  <2>2. CASE Fire(i) \/ FireExtra(i)
    BY <1>2, <2>2 DEF Fire, FireExtra, Goto, Accounted
  <2>3. CASE EmitPrecursors(i) \/ WaitLead(i) \/ Hold(i) \/ SkipRevert(i)
    BY <1>2, <2>3 DEF EmitPrecursors, WaitLead, Hold, SkipRevert, Goto, Accounted
  <2>4. CASE RevertExtra(i) \/ RevertInjector(i)
    BY <1>2, <2>4 DEF RevertExtra, RevertInjector, Goto, Accounted
  <2>5. ~(Build(i) \/ PostOverlay(i) \/ WriteLabel(i) \/ Unregister(i))
    BY <1>2 DEF Build, PostOverlay, WriteLabel, Unregister, Goto
  <2> QED BY <2>1, <2>2, <2>3, <2>4, <2>5 DEF Worker
<1>3. CASE pc[i] = "lost"
  BY <1>3, WorkerFrame DEF Live, Ended
<1> QED
  BY <1>1, <1>2, <1>3 DEF Accounted

(* Every overlay in the controller is its site's injection's to clear, or  *)
(* its injection says what failed, or was killed with the process.         *)
THEOREM OverlaysAreExplained == Spec => []OverlayIsExplained
<1>1. Init => OverlayInv
  BY DEF Init, OverlayInv
<1>2. TypeOK /\ OverlayInv /\ [Next]_vars => OverlayInv'
  <2> SUFFICES ASSUME TypeOK, OverlayInv, [Next]_vars PROVE OverlayInv'
    OBVIOUS
  <2> DEFINE Fine(k, t) == Started(k) /\ T(k) = t /\ Accounted(k)
  <2>0. ASSUME NEW t \in Target, overlays[t] # None
        PROVE  overlays[t] \in Id /\ Fine(overlays[t], t)
    BY <2>0 DEF OverlayInv, TypeOK
  <2>1. ASSUME NEW i \in Id, NEW s \in Scenario, NEW t \in Target, Inject(i, s, t)
        PROVE  OverlayInv'
    <3>1. \A k \in Id : Started(k) =>
            /\ pc'[k] = pc[k] /\ error'[k] = error[k]
            /\ held'[k] = held[k] /\ job'[k] = job[k]
      BY <2>1 DEF Inject, Started, TypeOK
    <3>2. overlays' = overlays /\ pc'[i] = "build" /\ held' = held
            /\ \A k \in Id \ {i} : pc'[k] = pc[k]
      BY <2>1 DEF Inject, TypeOK
    <3>3. ASSUME NEW u \in Target, overlays'[u] # None
          PROVE  Fine(overlays[u], u)'
      <4>1. PICK k \in Id : k = overlays[u] /\ overlays' = overlays
        BY <2>0, <3>2, <3>3
      <4>2. Fine(k, u)
        BY <2>0, <3>2, <3>3, <4>1
      <4> QED BY <3>1, <4>1, <4>2 DEF Started, T, Accounted
    <3>4. \A k \in Id : pc'[k] = "post" => held'[k]
      BY <3>2 DEF OverlayInv
    <3> QED BY <3>3, <3>4 DEF OverlayInv
  <2>2. ASSUME pc' = pc, error' = error, held' = held, job' = job,
               \A t \in Target : overlays'[t] \in {overlays[t], None}
        PROVE  OverlayInv'
    <3>1. ASSUME NEW u \in Target, overlays'[u] # None
          PROVE  Fine(overlays[u], u)'
      <4>1. overlays'[u] = overlays[u] /\ Fine(overlays[u], u)
        BY <2>0, <2>2, <3>1
      <4> QED BY <2>2, <4>1 DEF Started, T, Accounted
    <3> QED BY <2>2, <3>1 DEF OverlayInv
  <2>3. ASSUME NEW i \in Id, RevertPop(i) \/ RevertSignal(i)
        PROVE  OverlayInv'
    BY <2>2, <2>3 DEF RevertPop, RevertSignal, workerVars, TypeOK
  <2>4. ASSUME NEW i \in Id, Worker(i)
        PROVE  OverlayInv'
    <3>1. ASSUME NEW k \in Id \ {i}, NEW u, Fine(k, u)
          PROVE  Fine(k, u)'
      BY <2>4, <3>1, WorkerFrame DEF Started, T, Accounted
    <3>2. Started(i)' /\ T(i)' = T(i) /\ T(i) \in Target
      BY <2>4, WorkerFrame, JobType DEF Started, T
    <3>3. ASSUME NEW u \in Target, overlays'[u] # None
          PROVE  Fine(overlays[u], u)'
      <4>1. CASE PostOverlay(i)
        <5>1. CASE overlays'[u] = i /\ u = T(i)
          <6>1. pc[i] = "post" /\ pc'[i] = "precursor"
            BY <4>1 DEF PostOverlay, Goto, TypeOK
          <6>2. held' = held \/ Note(i, "overlay_post_failed")
            BY <4>1 DEF PostOverlay
          <6>3. Accounted(i)'
            <7>1. CASE held' = held
              BY <6>1, <7>1 DEF OverlayInv, Accounted, Posted
            <7>2. CASE Note(i, "overlay_post_failed")
              <8>1. "overlay_post_failed" \in error'[i]
                BY <7>2 DEF Note, TypeOK
              <8> QED BY <8>1 DEF Accounted
            <7> QED BY <6>2, <7>1, <7>2
          <6> QED BY <5>1, <6>3, <3>2
        <5>2. CASE overlays'[u] = overlays[u]
          <6>1. Accounted(i) => Accounted(i)'
            BY <2>4, <4>1, StepAccounts DEF PostOverlay, ClearOverlay, Goto
          <6> QED BY <5>2, <6>1, <2>0, <3>1, <3>2, <3>3
        <5> QED BY <4>1, <5>1, <5>2 DEF PostOverlay, TypeOK
      <4>2. CASE ClearOverlay(i)
        <5>1. overlays'[u] = overlays[u] /\ Fine(overlays[u], u)
                 /\ overlays[u] \in Id
          BY <4>2, <3>3, <2>0 DEF ClearOverlay, TypeOK
        <5>2. CASE overlays[u] # i
          BY <5>1, <5>2, <3>1
        <5>3. CASE overlays[u] = i
          <6>1. u = T(i)
            BY <5>1, <5>3
          <6>2. Note(i, "overlay_clear_failed")
            BY <4>2, <6>1, <3>3 DEF ClearOverlay, TypeOK
          <6>3. "overlay_clear_failed" \in error'[i]
            BY <6>2 DEF Note, TypeOK
          <6>4. Accounted(i)'
            BY <6>3 DEF Accounted
          <6> QED BY <5>1, <5>3, <6>1, <6>4, <3>2
        <5> QED BY <5>2, <5>3
      <4>3. CASE ~PostOverlay(i) /\ ~ClearOverlay(i)
        <5>1. overlays' = overlays
          BY <2>4, <4>3 DEF Worker, Build, EmitPrecursors, WaitLead, Fire,
               FireExtra, Hold, SkipRevert, RevertExtra, RevertInjector,
               WriteLabel, Unregister
        <5>2. Accounted(i) => Accounted(i)'
          BY <2>4, <4>3, StepAccounts
        <5> QED BY <5>1, <5>2, <2>0, <3>1, <3>2, <3>3
      <4> QED BY <4>1, <4>2, <4>3
    <3>4. ASSUME NEW k \in Id, pc'[k] = "post"
          PROVE  held'[k]
      <4>1. CASE k # i
        BY <2>4, <3>4, <4>1, WorkerFrame DEF OverlayInv
      <4>2. CASE k = i
        BY <2>4, <3>4, <4>2 DEF Worker, Build, PostOverlay, EmitPrecursors,
             WaitLead, Fire, FireExtra, Hold, SkipRevert, RevertExtra,
             RevertInjector, ClearOverlay, WriteLabel, Unregister, Goto, TypeOK
      <4> QED BY <4>1, <4>2
    <3> QED BY <3>3, <3>4 DEF OverlayInv
  <2>5. ASSUME NEW t \in Target, ExpireOverlay(t)
        PROVE  OverlayInv'
    BY <2>2, <2>5 DEF ExpireOverlay, apiVars, workerVars, TypeOK
  <2>8. ASSUME NEW r \in Daemon, Respawn(r)
        PROVE  OverlayInv'
    BY <2>8, <2>2 DEF Respawn, apiVars, workerVars, TypeOK
  <2>6. CASE Crash
    <3>1. ASSUME NEW u \in Target, overlays'[u] # None
          PROVE  Fine(overlays[u], u)'
      <4>1. overlays' = overlays /\ overlays[u] \in Id /\ Fine(overlays[u], u)
        BY <2>0, <2>6, <3>1 DEF Crash
      <4>2. pc'[overlays[u]] = IF Live(overlays[u]) THEN "lost" ELSE pc[overlays[u]]
        BY <2>6, <4>1 DEF Crash
      <4>3. UNCHANGED <<job, error, held>>
        BY <2>6 DEF Crash
      <4> QED BY <4>1, <4>2, <4>3 DEF Started, T, Accounted, Live, Ended
    <3>2. \A k \in Id : pc'[k] = "post" => held'[k]
      BY <2>6 DEF Crash, OverlayInv
    <3> QED BY <3>1, <3>2 DEF OverlayInv
  <2>7. CASE UNCHANGED vars
    BY <2>2, <2>7 DEF vars
  <2> QED
    BY <2>1, <2>3, <2>4, <2>5, <2>6, <2>7, <2>8 DEF Next
<1>3. OverlayInv => OverlayIsExplained
  BY DEF OverlayInv, OverlayIsExplained, Accounted
<1> QED
  BY <1>1, <1>2, <1>3, TypeCorrect, PTL DEF Spec
===============================================================================
