--------------------------- MODULE OrchestratorProofs ---------------------------
(***************************************************************************)
(* Proofs about the fault orchestrator.  Part 1: Campaign, for every pool, *)
(* every set of scenarios, targets and resources, every pattern of         *)
(* failures and any number of interrupts.  Part 2: CoreFaults, for every   *)
(* set of knob records within the sizes and names it assumes.  Part 3:     *)
(* CoreReach, for every lab with the redundancy Redundant names: what a    *)
(* single fault leaves reachable, and what it cuts off.                    *)
(***************************************************************************)
EXTENDS Campaign, CoreReach, FiniteSetTheorems, WellFoundedInduction, TLAPS

LEMMA LabSteps ==
  ASSUME NEW s \in Scenario, NEW t \in Target, NEW lab \in SUBSET Resource
  PROVE  /\ Touched(s, t) \subseteq Resource
         /\ \A l \in {Applied(lab, s, t), Reverted(lab, s, t),
                      ExtraApplied(lab, s, t), ExtraReverted(lab, s, t)}
                     \cup ApplyRaised(lab, s, t) \cup RevertRaised(lab, s, t)
                     \cup ExtraRaised(lab, s, t) :
              /\ l \subseteq Resource
              /\ lab \ Touched(s, t) \subseteq l
<1>1. Footprint[s][t] \subseteq Resource /\ ExtraOf[s][t] \subseteq Resource
  BY LabAssumption
<1>2. \A l \in ApplyRaised(lab, s, t) :
         l \subseteq Resource /\ lab \ Footprint[s][t] \subseteq l
  BY <1>1 DEF ApplyRaised
<1>3. \A l \in RevertRaised(lab, s, t) \cup ExtraRaised(lab, s, t) :
         l \subseteq Resource /\ lab \ Touched(s, t) \subseteq l
  BY <1>1 DEF RevertRaised, ExtraRaised, Touched
<1>4. \A l \in {Applied(lab, s, t), Reverted(lab, s, t),
                ExtraApplied(lab, s, t), ExtraReverted(lab, s, t)} :
         l \subseteq Resource /\ lab \ Touched(s, t) \subseteq l
  BY <1>1 DEF Applied, Reverted, ExtraApplied, ExtraReverted, Touched
<1> QED
  BY <1>1, <1>2, <1>3, <1>4 DEF Touched

(* Every lock key names its device first, and a device-exclusive one the   *)
(* whole of it.                                                            *)
LEMMA KeyShape ==
  ASSUME NEW s, NEW t, NEW key \in LockKeys(s, t)
  PROVE  key[1] = t /\ (s \in Exclusive => key = <<t, Whole>>)
<1>1. CASE s \in Exclusive
  BY <1>1 DEF LockKeys
<1>2. CASE s \notin Exclusive
  <2>1. key = <<t, KeyOf[s][t]>> \/ key = <<t, s>>
    BY <1>2, Zenon DEF LockKeys
  <2> QED BY <1>2, <2>1
<1> QED
  BY <1>1, <1>2

-----------------------------------------------------------------------------
(* Type correctness.                                                       *)

LEMMA InitType == Init => TypeOK
<1> SUFFICES ASSUME Init PROVE TypeOK
  OBVIOUS
<1>1. (CHOOSE j \in [scenario: Scenario, target: Target] : TRUE)
        \in [scenario: Scenario, target: Target]
  <2>1. PICK s \in Scenario, t \in Target : TRUE
    BY LabAssumption
  <2>2. [scenario |-> s, target |-> t] \in [scenario: Scenario, target: Target]
    OBVIOUS
  <2> QED BY <2>2
<1>2. job \in [Fault -> [scenario: Scenario, target: Target]]
  BY <1>1 DEF Init
<1>3. targets \subseteq Keys /\ keys \in [Fault -> Keys]
  <2>1. PICK s \in Scenario, t \in Target : TRUE
    BY LabAssumption
  <2>2. \E key : key \in Keys
    <3>1. \E key : key \in LockKeys(s, t)
      <4>1. CASE s \in Exclusive
        BY <4>1, Zenon DEF LockKeys
      <4>2. CASE s \notin Exclusive
        <5> DEFINE key == <<t, KeyOf[s][t]>>
                   fallback == IF "build" \in CanFail /\ s \in Probing
                               THEN {<<t, s>>} ELSE {}
        <5>1. LockKeys(s, t) = {key} \cup fallback
          BY <4>2, Zenon DEF LockKeys
        <5> HIDE DEF key, fallback
        <5>2. key \in {key} \cup fallback
          OBVIOUS
        <5> QED BY <5>1, <5>2, Zenon
      <4> QED BY <4>1, <4>2
    <3>2. LockKeys(s, t) \subseteq Keys
      BY DEF Keys
    <3> QED BY <3>1, <3>2
  <2>3. (CHOOSE key \in Keys : TRUE) \in Keys
    BY <2>2
  <2>4. targets = {} /\ keys \in [Fault -> Keys]
    BY <2>3 DEF Init
  <2> QED BY <2>4
<1>4. stop \in BOOLEAN
  BY Zenon DEF Init
<1>5. signals \in 0..Interrupts
  BY CampaignAssumption DEF Init
<1>6. /\ main \in {"loop", "join", "ended", "killed"}
      /\ pc \in [Fault -> PC] /\ error \in [Fault -> SUBSET Tag]
      /\ rows \in [Fault -> (SUBSET Tag) \cup {None}]
      /\ counted \subseteq Fault /\ impaired \subseteq Resource
  BY DEF Init, PC
<1> QED
  BY <1>2, <1>3, <1>4, <1>5, <1>6 DEF TypeOK

LEMMA JobType == ASSUME TypeOK, NEW k \in Fault
                 PROVE  /\ S(k) \in Scenario /\ T(k) \in Target
                        /\ LockKeys(S(k), T(k)) \subseteq Keys
BY DEF TypeOK, S, T, Keys

(* Every step of a thread leaves the lab inside Resource, and impaired     *)
(* whatever its fault does not touch.                                      *)
LEMMA ThreadLab ==
  ASSUME TypeOK, NEW k \in Fault, Thread(k)
  PROVE  /\ impaired' \subseteq Resource
         /\ impaired \ Touched(S(k), T(k)) \subseteq impaired'
<1>0. S(k) \in Scenario /\ T(k) \in Target /\ impaired \in SUBSET Resource
  BY JobType DEF TypeOK
<1>1. \/ impaired' = impaired
      \/ impaired' \in {Applied(impaired, S(k), T(k)), Reverted(impaired, S(k), T(k)),
                        ExtraApplied(impaired, S(k), T(k)),
                        ExtraReverted(impaired, S(k), T(k))}
                       \cup ApplyRaised(impaired, S(k), T(k))
                       \cup RevertRaised(impaired, S(k), T(k))
                       \cup ExtraRaised(impaired, S(k), T(k))
  BY DEF Thread, Acquire, Build, Apply, ApplyExtra, Hold, RevertExtra,
         RevertInjector, WriteLabel, Count, Release, Returned
<1> QED
  BY <1>0, <1>1, LabSteps

LEMMA ThreadType == ASSUME TypeOK, NEW k \in Fault, Thread(k)
                    PROVE  TypeOK'
<1>1. UNCHANGED <<main, stop, signals, job>> /\ impaired' \subseteq Resource
  BY ThreadLab DEF Thread, Acquire, Build, Apply, ApplyExtra, Hold, RevertExtra,
         RevertInjector, WriteLabel, Count, Release, mainVars
<1>2. pc' \in [Fault -> PC]
  BY DEF Thread, Acquire, Build, Apply, ApplyExtra, Hold, RevertExtra,
         RevertInjector, WriteLabel, Count, Release, Goto, Undo, TypeOK, PC,
         Holding, Owing, Ended
<1>3. error' \in [Fault -> SUBSET Tag]
  BY DEF Thread, Acquire, Build, Apply, ApplyExtra, Hold, RevertExtra,
         RevertInjector, WriteLabel, Count, Release, Note, Tag, TypeOK
<1>4. rows' \in [Fault -> (SUBSET Tag) \cup {None}] /\ counted' \subseteq Fault
  BY DEF Thread, Acquire, Build, Apply, ApplyExtra, Hold, RevertExtra,
         RevertInjector, WriteLabel, Count, Release, TypeOK
<1>5. targets' \subseteq Keys /\ keys' \in [Fault -> Keys]
  <2>1. CASE Acquire(k)
    <3>1. PICK key \in LockKeys(S(k), T(k)) :
            /\ keys' = [keys EXCEPT ![k] = key]
            /\ targets' \subseteq targets \cup {key}
      BY <2>1 DEF Acquire
    <3> QED BY <3>1, JobType DEF TypeOK
  <2>2. CASE ~Acquire(k)
    <3>1. targets' \subseteq targets /\ keys' = keys
      BY <2>2 DEF Thread, Build, Apply, ApplyExtra, Hold, RevertExtra,
           RevertInjector, WriteLabel, Count, Release, mainVars
    <3> QED BY <3>1 DEF TypeOK
  <2> QED BY <2>1, <2>2
<1> QED
  BY <1>1, <1>2, <1>3, <1>4, <1>5 DEF TypeOK

LEMMA NextType == TypeOK /\ [Next]_vars => TypeOK'
<1> SUFFICES ASSUME TypeOK, [Next]_vars PROVE TypeOK'
  OBVIOUS
<1> USE DEF TypeOK
<1>1. ASSUME NEW k \in Fault, NEW s \in Scenario, NEW t \in Target, Pick(k, s, t)
      PROVE  TypeOK'
  BY <1>1 DEF Pick, PC
<1>2. ASSUME NEW k \in Fault, Spawn(k) PROVE TypeOK'
  BY <1>2 DEF Spawn, PC
<1>3. CASE LeaveLoop \/ Join
  BY <1>3 DEF LeaveLoop, Join, threadVars
<1>4. CASE Interrupt
  <2>1. stop' \in BOOLEAN
    <3>1. stop' = TRUE \/ stop' = stop
      BY <1>4, Zenon DEF Interrupt
    <3>2. stop \in BOOLEAN /\ TRUE \in BOOLEAN
      OBVIOUS
    <3>3. CASE stop' = TRUE   BY <3>2, <3>3, Zenon
    <3>4. CASE stop' = stop   BY <3>2, <3>4, Zenon
    <3> QED BY <3>1, <3>3, <3>4, Zenon
  <2>2. signals' \in 0..Interrupts
    BY <1>4, CampaignAssumption DEF Interrupt
  <2>3. pc' \in [Fault -> PC]
    BY <1>4 DEF Interrupt, PC, Ended
  <2> QED BY <1>4, <2>1, <2>2, <2>3 DEF Interrupt
<1>5. ASSUME NEW k \in Fault, Thread(k) PROVE TypeOK'
  BY <1>5, ThreadType
<1>6. CASE UNCHANGED vars
  BY <1>6 DEF vars
<1>7. ASSUME NEW r \in Daemon, Respawn(r) PROVE TypeOK'
  BY <1>7 DEF Respawn, Respawned, mainVars
<1> QED
  BY <1>1, <1>2, <1>3, <1>4, <1>5, <1>6, <1>7 DEF Next

(* Every reachable state of a campaign is well typed.                      *)
THEOREM TypeCorrect == Spec => []TypeOK
BY InitType, NextType, PTL DEF Spec

-----------------------------------------------------------------------------
(* The keys.                                                               *)

(* The inductive form: a killed campaign has no thread left; otherwise the *)
(* taken keys are the holders' keys; and no two holders ever exclude each  *)
(* other, which is what the test under the lock establishes.               *)
KeyInv ==
  /\ main = "killed" => \A k \in Fault : pc[k] \in Ended \cup {"none"}
  /\ main # "killed" => targets = {keys[k] : k \in Holders}
  /\ \A k \in Holders : keys[k] \in LockKeys(S(k), T(k))
  /\ \A j, k \in Holders : j # k =>
       /\ keys[j] # keys[k]
       /\ T(j) = T(k) => S(j) \notin Exclusive

(* A step of a thread takes its key, gives it back or leaves the keys      *)
(* alone, and moves no other thread.                                       *)
LEMMA ThreadKeys ==
  ASSUME TypeOK, NEW k \in Fault, Thread(k)
  PROVE  /\ UNCHANGED <<main, job>>
         /\ \A j \in Fault \ {k} : pc'[j] = pc[j]
         /\ pc[k] \notin Ended \cup {"none"}
         /\ \A j \in Fault \ {k} : keys'[j] = keys[j]
         /\ k \in Holders => keys' = keys
         /\ \/ /\ Holders' = Holders \cup {k} /\ k \notin Holders
               /\ keys'[k] \in LockKeys(S(k), T(k))
               /\ targets' = targets \cup {keys'[k]} /\ ~Blocked(keys'[k])
            \/ Holders' = Holders /\ targets' = targets
            \/ /\ Holders' = Holders \ {k} /\ k \in Holders
               /\ targets' = targets \ {keys[k]}
<1> USE DEF Goto, mainVars
<1>1. UNCHANGED <<main, job>> /\ \A j \in Fault \ {k} : pc'[j] = pc[j]
  BY DEF Thread, Acquire, Build, Apply, ApplyExtra, Hold, RevertExtra,
         RevertInjector, WriteLabel, Count, Release, TypeOK
<1>2. pc' = [pc EXCEPT ![k] = pc'[k]] /\ pc \in [Fault -> PC]
  BY DEF Thread, Acquire, Build, Apply, ApplyExtra, Hold, RevertExtra,
         RevertInjector, WriteLabel, Count, Release, TypeOK
<1> USE DEF Holding, Owing
<1>6. pc[k] \notin Ended \cup {"none"}
  BY DEF Thread, Acquire, Build, Apply, ApplyExtra, Hold, RevertExtra,
         RevertInjector, WriteLabel, Count, Release, Ended
<1>7. /\ \A j \in Fault \ {k} : keys'[j] = keys[j]
      /\ k \in Holders => keys' = keys
  BY DEF Thread, Acquire, Build, Apply, ApplyExtra, Hold, RevertExtra,
         RevertInjector, WriteLabel, Count, Release, TypeOK, Holders
<1>3. CASE Acquire(k)
  <2>1. pc[k] = "start" /\ k \notin Holders
    BY <1>3 DEF Acquire, Holders
  <2>2. PICK key \in LockKeys(S(k), T(k)) :
          /\ keys' = [keys EXCEPT ![k] = key]
          /\ \/ /\ ~Blocked(key) /\ pc' = [pc EXCEPT ![k] = "build"]
                /\ targets' = targets \cup {key}
             \/ pc' = [pc EXCEPT ![k] = "skipped"] /\ targets' = targets
    BY <1>3 DEF Acquire
  <2>3. keys'[k] = key
    BY <2>2 DEF TypeOK
  <2>4. CASE /\ ~Blocked(key) /\ pc' = [pc EXCEPT ![k] = "build"]
             /\ targets' = targets \cup {key}
    <3>1. pc'[k] = "build"
      BY <2>4, <1>2
    <3>2. Holders' = Holders \cup {k}
      BY <3>1, <1>1 DEF Holders
    <3> QED BY <1>1, <1>6, <1>7, <2>1, <2>3, <2>4, <3>2
  <2>5. CASE pc' = [pc EXCEPT ![k] = "skipped"] /\ targets' = targets
    <3>1. pc'[k] = "skipped"
      BY <2>5, <1>2
    <3>2. Holders' = Holders
      BY <3>1, <2>1, <1>1 DEF Holders
    <3> QED BY <1>1, <1>6, <1>7, <2>5, <3>2
  <2> QED BY <2>2, <2>4, <2>5
<1>4. CASE Release(k)
  <2>1. pc[k] = "release" /\ pc'[k] = "done" /\ targets' = targets \ {keys[k]}
    BY <1>4, <1>2 DEF Release
  <2>2. Holders' = Holders \ {k} /\ k \in Holders
    BY <2>1, <1>1 DEF Holders
  <2> QED BY <1>1, <1>6, <1>7, <2>1, <2>2
<1>5. CASE ~Acquire(k) /\ ~Release(k)
  <2>1. pc[k] \in Holding /\ pc'[k] \in Holding /\ targets' = targets
    BY <1>5, <1>2 DEF Thread, Build, Apply, ApplyExtra, Hold, RevertExtra,
           RevertInjector, WriteLabel, Count, Undo
  <2>2. Holders' = Holders
    BY <2>1, <1>1 DEF Holders
  <2> QED BY <1>1, <1>6, <1>7, <2>1, <2>2
<1> QED
  BY <1>3, <1>4, <1>5, <1>6

LEMMA KeysStep == TypeOK /\ KeyInv /\ [Next]_vars => KeyInv'
<1> SUFFICES ASSUME TypeOK, KeyInv, [Next]_vars PROVE KeyInv'
  OBVIOUS
<1>1. ASSUME NEW k \in Fault, Thread(k) PROVE KeyInv'
  <2>1. \A j \in Fault : S(j)' = S(j) /\ T(j)' = T(j)
    BY <1>1, ThreadKeys DEF S, T
  <2>7. \A j \in Holders : keys'[j] = keys[j] /\ keys[j] \in LockKeys(S(j), T(j))
    BY <1>1, ThreadKeys DEF KeyInv, Holders
  <2>2. Holders \subseteq Fault /\ Holders' \subseteq Fault
    BY DEF Holders
  <2>3. main' = main /\ main # "killed"
    BY <1>1, ThreadKeys DEF KeyInv
  <2>4. CASE /\ Holders' = Holders \cup {k} /\ k \notin Holders
             /\ keys'[k] \in LockKeys(S(k), T(k))
             /\ targets' = targets \cup {keys'[k]} /\ ~Blocked(keys'[k])
    <3> DEFINE key == keys'[k]
    <3>2. \A j \in Holders : keys[j] \in targets
      BY <2>3 DEF KeyInv
    <3>3. \A j \in Holders : keys[j] # key
      BY <3>2, <2>4 DEF Blocked
    <3>4. \A j \in Holders : T(j) = T(k) => S(j) \notin Exclusive /\ S(k) \notin Exclusive
      <4> SUFFICES ASSUME NEW j \in Holders, T(j) = T(k),
                          S(j) \in Exclusive \/ S(k) \in Exclusive
                   PROVE  FALSE
        OBVIOUS
      <4>0. key[1] = T(k) /\ keys[j][1] = T(k)
        BY <2>4, <2>7, KeyShape
      <4>1. CASE S(j) \in Exclusive
        <5>1. keys[j] = <<T(k), Whole>>
          BY <4>1, <2>7, KeyShape
        <5> QED BY <5>1, <4>0, <3>2, <2>4 DEF Blocked
      <4>2. CASE S(k) \in Exclusive
        <5>1. key[2] = Whole
          BY <4>2, <2>4, KeyShape
        <5> QED BY <5>1, <4>0, <3>2, <2>4 DEF Blocked
      <4> QED BY <4>1, <4>2
    <3>5. targets' = {keys'[j] : j \in Holders'}
      BY <2>3, <2>4, <2>7 DEF KeyInv
    <3>6. \A j \in Holders' : keys'[j] \in LockKeys(S(j), T(j))
      BY <2>4, <2>7
    <3>7. \A i, j \in Holders' : i # j => keys'[i] # keys'[j]
      BY <2>4, <2>7, <3>3 DEF KeyInv
    <3>8. \A i, j \in Holders' : i # j /\ T(i) = T(j) => S(i) \notin Exclusive
      BY <2>4, <3>4 DEF KeyInv
    <3> QED BY <2>1, <2>2, <2>3, <3>5, <3>6, <3>7, <3>8 DEF KeyInv
  <2>5. CASE Holders' = Holders /\ targets' = targets
    BY <2>1, <2>2, <2>3, <2>5, <2>7 DEF KeyInv
  <2>6. CASE /\ Holders' = Holders \ {k} /\ k \in Holders
             /\ targets' = targets \ {keys[k]}
    BY <2>1, <2>2, <2>3, <2>6, <2>7 DEF KeyInv
  <2> QED BY <1>1, <2>4, <2>5, <2>6, ThreadKeys
<1>2. ASSUME NEW k \in Fault, NEW s \in Scenario, NEW t \in Target, Pick(k, s, t)
      PROVE  KeyInv'
  <2>1. Holders' = Holders /\ k \notin Holders
    BY <1>2 DEF Pick, Holders, Holding, Owing, TypeOK
  <2>2. \A j \in Holders : keys' = keys /\ S(j)' = S(j) /\ T(j)' = T(j)
    BY <1>2, <2>1 DEF Pick, S, T, Holders, TypeOK
  <2>3. main # "killed" /\ main' = main
    BY <1>2 DEF Pick
  <2> QED BY <1>2, <2>1, <2>2, <2>3 DEF KeyInv, Pick
<1>3. ASSUME NEW k \in Fault, Spawn(k) PROVE KeyInv'
  <2>1. Holders' = Holders
    BY <1>3 DEF Spawn, Holders, Holding, Owing, TypeOK
  <2>2. keys' = keys /\ \A j \in Fault : S(j)' = S(j) /\ T(j)' = T(j)
    BY <1>3 DEF Spawn, S, T
  <2>3. Holders \subseteq Fault
    BY DEF Holders
  <2>4. main # "killed" /\ main' = main
    BY <1>3 DEF Spawn, KeyInv, Ended
  <2> QED BY <1>3, <2>1, <2>2, <2>3, <2>4 DEF KeyInv, Spawn
<1>4. CASE LeaveLoop \/ Join \/ Interrupt \/ UNCHANGED vars
  <2>1. keys' = keys /\ \A j \in Fault : S(j)' = S(j) /\ T(j)' = T(j)
    BY <1>4 DEF LeaveLoop, Join, Interrupt, vars, threadVars, S, T
  <2>2. targets' = targets
    BY <1>4 DEF LeaveLoop, Join, Interrupt, vars, threadVars
  <2>3. Holders \subseteq Fault
    BY DEF Holders
  <2>4. CASE main' = "killed" /\ main # "killed"
    <3>1. \A j \in Fault : pc'[j] \in Ended \cup {"none"}
      BY <1>4, <2>4 DEF LeaveLoop, Join, Interrupt, vars, Ended, TypeOK
    <3>2. Holders' = {}
      BY <3>1 DEF Holders, Holding, Owing, Ended
    <3> QED BY <2>4, <3>1, <3>2 DEF KeyInv
  <2>5. CASE ~(main' = "killed" /\ main # "killed")
    <3>1. pc' = pc /\ (main' = "killed" <=> main = "killed")
      BY <1>4, <2>5 DEF LeaveLoop, Join, Interrupt, vars, threadVars
    <3>2. Holders' = Holders
      BY <3>1 DEF Holders
    <3> QED BY <2>1, <2>2, <2>3, <3>1, <3>2 DEF KeyInv
  <2> QED BY <2>4, <2>5
<1>5. ASSUME NEW r \in Daemon, Respawn(r) PROVE KeyInv'
  <2>1. UNCHANGED <<main, job, keys, pc, targets>>
    BY <1>5 DEF Respawn, mainVars
  <2>2. Holders' = Holders /\ \A j \in Fault : S(j)' = S(j) /\ T(j)' = T(j)
    BY <2>1 DEF Holders, S, T
  <2>3. Holders \subseteq Fault
    BY DEF Holders
  <2> QED BY <2>1, <2>2, <2>3 DEF KeyInv
<1> QED
  BY <1>1, <1>2, <1>3, <1>4, <1>5 DEF Next

LEMMA KeyInvHolds == Spec => [](TypeOK /\ KeyInv)
<1>1. Init => KeyInv
  <2> SUFFICES ASSUME Init PROVE KeyInv
    OBVIOUS
  <2>1. Holders = {} /\ targets = {} /\ main = "loop"
    BY DEF Init, Holders, Holding, Owing
  <2> QED BY <2>1 DEF KeyInv
<1> QED
  BY <1>1, InitType, NextType, KeysStep, PTL DEF Spec

(* While the process runs, the taken keys are those of the threads at      *)
(* work, one thread for each key.                                          *)
THEOREM KeysAreTheHolders == Spec => []KeysAreHeld
<1>1. KeyInv => KeysAreHeld
  BY DEF KeyInv, KeysAreHeld
<1> QED
  BY <1>1, KeyInvHolds, PTL

(* A device-exclusive fault has its device for itself.                     *)
THEOREM ExclusiveIsAlone == Spec => []ExclusiveAlone
<1>1. KeyInv => ExclusiveAlone
  BY DEF KeyInv, ExclusiveAlone
<1> QED
  BY <1>1, KeyInvHolds, PTL

-----------------------------------------------------------------------------
(* The impact of a held fault.                                             *)

(* j has a key of its own and may have taken r away from k.                *)
Took(j, k, r) ==
  Applying(j) /\ RunsBeside(j, k) /\ r \in Touched(S(j), T(j))

(* An applied fault has its impact, but for what watchfrr gave back and    *)
(* what faults under other keys took.                                      *)
ImpactInv ==
  \A k \in Fault :
    pc[k] \in {"extra", "hold"} /\ S(k) \notin Pulse =>
      \A r \in Footprint[S(k)][T(k)] \ impaired :
        r \in Daemon \/ \E j \in Fault \ {k} : Took(j, k, r)

(* A thread that has called its injector keeps its job and its key.        *)
LEMMA ApplyingStays ==
  ASSUME TypeOK, [Next]_vars, NEW j \in Fault, Applying(j)
  PROVE  Applying(j)' /\ keys'[j] = keys[j] /\ job'[j] = job[j]
<1>0. pc \in [Fault -> PC]
  BY DEF TypeOK
<1>1. ASSUME NEW k \in Fault, Thread(k)
      PROVE  Applying(j)' /\ keys'[j] = keys[j] /\ job'[j] = job[j]
  <2>1. CASE j # k
    BY <1>1, <2>1, ThreadKeys DEF Applying
  <2>2. CASE j = k
    <3>1. ~Acquire(k) /\ ~Build(k) /\ ~Apply(k)
      BY <2>2 DEF Acquire, Build, Apply, Goto, Applying
    <3>2. keys' = keys /\ job' = job
      BY <1>1, <3>1 DEF Thread, ApplyExtra, Hold, RevertExtra, RevertInjector,
         WriteLabel, Count, Release, mainVars
    <3>3. pc'[k] \in {"hold", "unextra", "unapply", "label", "count", "release", "done"}
      BY <1>0, <1>1, <3>1 DEF Thread, ApplyExtra, Hold, RevertExtra,
         RevertInjector, WriteLabel, Count, Release, Goto, Undo
    <3> QED BY <2>2, <3>2, <3>3 DEF Applying
  <2> QED BY <2>1, <2>2
<1>2. ASSUME NEW k \in Fault, NEW s \in Scenario, NEW t \in Target, Pick(k, s, t)
      PROVE  Applying(j)' /\ keys'[j] = keys[j] /\ job'[j] = job[j]
  BY <1>2 DEF Pick, Applying, TypeOK
<1>3. ASSUME NEW k \in Fault, Spawn(k)
      PROVE  Applying(j)' /\ keys'[j] = keys[j] /\ job'[j] = job[j]
  BY <1>3 DEF Spawn, Applying, TypeOK
<1>4. CASE LeaveLoop \/ Join \/ UNCHANGED vars
  BY <1>4 DEF LeaveLoop, Join, vars, threadVars, Applying
<1>5. CASE Interrupt
  BY <1>0, <1>5 DEF Interrupt, Applying
<1>6. ASSUME NEW r \in Daemon, Respawn(r)
      PROVE  Applying(j)' /\ keys'[j] = keys[j] /\ job'[j] = job[j]
  BY <1>6 DEF Respawn, mainVars, Applying
<1> QED
  BY <1>1, <1>2, <1>3, <1>4, <1>5, <1>6 DEF Next

LEMMA TookStays ==
  ASSUME TypeOK, [Next]_vars, NEW j \in Fault, NEW k \in Fault, Applying(k),
         NEW r, Took(j, k, r)
  PROVE  Took(j, k, r)'
<1>1. Applying(j)' /\ keys'[j] = keys[j] /\ job'[j] = job[j]
  BY ApplyingStays DEF Took
<1>2. keys'[k] = keys[k] /\ job'[k] = job[k]
  BY ApplyingStays
<1>3. S(j)' = S(j) /\ T(j)' = T(j) /\ S(k)' = S(k) /\ T(k)' = T(k)
  BY <1>1, <1>2 DEF S, T
<1>4. RunsBeside(j, k)'
  BY <1>1, <1>2, <1>3 DEF RunsBeside, Took
<1>5. r \in Touched(S(j), T(j))'
  BY <1>3 DEF Touched, Took
<1> QED
  BY <1>1, <1>4, <1>5 DEF Took

(* What k misses after a step of its own that applies its fault or its     *)
(* extra, it missed before.                                                *)
LEMMA OwnImpact ==
  ASSUME "refused" \notin CanFail,
         TypeOK, NEW k \in Fault, Thread(k),
         pc'[k] \in {"extra", "hold"}, S(k) \notin Pulse,
         NEW r \in Footprint[S(k)][T(k)] \ impaired'
  PROVE  pc[k] = "extra" /\ r \notin impaired
<1>0. pc' = [pc EXCEPT ![k] = pc'[k]] /\ pc \in [Fault -> PC] /\ pc[k] # "none"
  BY DEF Thread, Acquire, Build, Apply, ApplyExtra, Hold, RevertExtra,
         RevertInjector, WriteLabel, Count, Release, TypeOK, Goto
<1>1. \/ Apply(k) /\ impaired' = Applied(impaired, S(k), T(k))
      \/ ApplyExtra(k) /\ impaired' = ExtraApplied(impaired, S(k), T(k))
  BY <1>0 DEF Thread, Acquire, Build, Apply, ApplyExtra, Hold, RevertExtra,
         RevertInjector, WriteLabel, Count, Release, Goto, Undo, Returned
<1>2. ~(Apply(k) /\ impaired' = Applied(impaired, S(k), T(k)))
  BY DEF Applied
<1>3. ApplyExtra(k) /\ impaired' = ExtraApplied(impaired, S(k), T(k))
  BY <1>1, <1>2
<1>4. Footprint[S(k)][T(k)] \cap ExtraOf[S(k)][T(k)] = {}
  BY JobType, LabAssumption
<1> QED
  BY <1>3, <1>4 DEF ExtraApplied, ApplyExtra, Goto

(* What a step of k takes from the lab, k took.                            *)
LEMMA TakerTook ==
  ASSUME TypeOK, KeyInv, NEW k \in Fault, Thread(k),
         NEW j \in Fault \ {k}, pc[j] \in {"extra", "hold"},
         NEW r \in impaired \ impaired'
  PROVE  Took(k, j, r)'
<1>0. pc \in [Fault -> PC]
  BY DEF TypeOK
<1>1. pc[k] \in Owing /\ ~Acquire(k) /\ ~Build(k)
  BY DEF Thread, Acquire, Build, Apply, ApplyExtra, Hold,
     RevertExtra, RevertInjector, WriteLabel, Count, Release, Goto, Owing
<1>2. j \in Holders /\ k \in Holders
  BY <1>1 DEF Holders, Holding, Owing
<1>3. pc'[k] \in {"extra", "hold", "unextra", "unapply", "label", "count", "release", "done"}
  BY <1>0, <1>1 DEF Thread, Apply, ApplyExtra, Hold, RevertExtra,
     RevertInjector, WriteLabel, Count, Release, Goto, Undo
<1>4. keys' = keys /\ job' = job
  BY <1>2, ThreadKeys
<1>5. \A i \in Fault : S(i)' = S(i) /\ T(i)' = T(i)
  BY <1>4 DEF S, T
<1>6. RunsBeside(k, j)
  <2>1. keys[k] # keys[j]
    BY <1>2 DEF KeyInv
  <2>2. T(k) = T(j) => S(k) \notin Exclusive /\ S(j) \notin Exclusive
    BY <1>2 DEF KeyInv
  <2> QED BY <2>1, <2>2 DEF RunsBeside
<1>7. RunsBeside(k, j)'
  BY <1>4, <1>5, <1>6 DEF RunsBeside
<1>8. r \in Touched(S(k), T(k))
  BY ThreadLab
<1>9. r \in Touched(S(k), T(k))'
  BY <1>5, <1>8 DEF Touched
<1>10. Applying(k)'
  BY <1>3 DEF Applying
<1> QED
  BY <1>7, <1>9, <1>10 DEF Took

LEMMA ImpactStep ==
  ASSUME "refused" \notin CanFail, TypeOK, KeyInv, ImpactInv, [Next]_vars
  PROVE  ImpactInv'
<1> SUFFICES ASSUME NEW k \in Fault, pc'[k] \in {"extra", "hold"},
                    S(k)' \notin Pulse,
                    NEW r \in (Footprint[S(k)][T(k)])', r \notin impaired',
                    r \notin Daemon
             PROVE  \E j \in Fault \ {k} : Took(j, k, r)'
  BY DEF ImpactInv
(* When k was past its apply() already and r missing, it still is.         *)
<1>1. ASSUME pc[k] \in {"extra", "hold"}, r \notin impaired
      PROVE  \E j \in Fault \ {k} : Took(j, k, r)'
  <2>1. Applying(k)
    BY <1>1 DEF Applying
  <2>2. S(k)' = S(k) /\ T(k)' = T(k)
    BY <2>1, ApplyingStays DEF S, T
  <2>3. S(k) \notin Pulse /\ r \in Footprint[S(k)][T(k)]
    BY <2>2
  <2>4. PICK j \in Fault \ {k} : Took(j, k, r)
    BY <1>1, <2>3 DEF ImpactInv
  <2> QED BY <2>1, <2>4, TookStays
<1>2. ASSUME NEW i \in Fault, Thread(i)
      PROVE  \E j \in Fault \ {k} : Took(j, k, r)'
  <2>0. S(k)' = S(k) /\ T(k)' = T(k)
    BY <1>2, ThreadKeys DEF S, T
  <2>1. S(k) \notin Pulse /\ r \in Footprint[S(k)][T(k)]
    BY <2>0
  <2>2. CASE i = k
    <3>1. pc[k] = "extra" /\ r \notin impaired
      BY <1>2, <2>1, <2>2, OwnImpact
    <3> QED BY <1>1, <3>1
  <2>3. CASE i # k
    <3>1. pc[k] \in {"extra", "hold"}
      BY <1>2, <2>3, ThreadKeys
    <3>2. CASE r \in impaired
      <4>1. k \in Fault \ {i} /\ r \in impaired \ impaired'
        BY <2>3, <3>2
      <4>2. Took(i, k, r)'
        BY <1>2, <3>1, <4>1, TakerTook
      <4> QED BY <2>3, <4>2
    <3> QED BY <1>1, <3>1, <3>2
  <2> QED BY <2>2, <2>3
<1>3. ASSUME NEW i \in Fault, NEW s \in Scenario, NEW t \in Target, Pick(i, s, t)
      PROVE  \E j \in Fault \ {k} : Took(j, k, r)'
  <2>1. pc[k] \in {"extra", "hold"} /\ impaired' = impaired
    BY <1>3 DEF Pick, TypeOK
  <2> QED BY <1>1, <2>1
<1>4. ASSUME NEW i \in Fault, Spawn(i)
      PROVE  \E j \in Fault \ {k} : Took(j, k, r)'
  <2>1. pc[k] \in {"extra", "hold"} /\ impaired' = impaired
    BY <1>4 DEF Spawn, TypeOK
  <2> QED BY <1>1, <2>1
<1>5. CASE LeaveLoop \/ Join \/ Interrupt \/ UNCHANGED vars
  <2>1. pc[k] \in {"extra", "hold"} /\ impaired' = impaired
    BY <1>5 DEF LeaveLoop, Join, Interrupt, vars, threadVars, TypeOK
  <2> QED BY <1>1, <2>1
<1>6. ASSUME NEW d \in Daemon, Respawn(d)
      PROVE  \E j \in Fault \ {k} : Took(j, k, r)'
  <2>1. pc[k] \in {"extra", "hold"} /\ impaired' = impaired \ {d}
    BY <1>6 DEF Respawn, Respawned
  <2> QED BY <1>1, <2>1
<1> QED
  BY <1>2, <1>3, <1>4, <1>5, <1>6 DEF Next

(* If no command is refused in silence, what a fault in its hold misses of *)
(* the impact its label will claim was given back by watchfrr or taken by  *)
(* a fault that shares a resource with it under another lock key: the      *)
(* active-target guard keeps all others away, whatever the footprints.     *)
THEOREM HeldFaultsKeepTheirs ==
  ASSUME "refused" \notin CanFail
  PROVE  Spec => []HeldIsImpaired
<1>1. Init => ImpactInv
  BY DEF Init, ImpactInv
<1>2. TypeOK /\ KeyInv /\ ImpactInv /\ [Next]_vars => ImpactInv'
  BY ImpactStep
<1>3. ImpactInv => HeldIsImpaired
  BY DEF ImpactInv, HeldIsImpaired, Took
<1> QED
  BY <1>1, <1>2, <1>3, KeyInvHolds, PTL DEF Spec

-----------------------------------------------------------------------------
(* The leftovers.                                                          *)

(* A fault accounts for what it touches until its reverts are done, and    *)
(* after them when one has failed.                                         *)
Accounts(k, r) ==
  \/ pc[k] \in {"apply", "extra", "hold", "unextra", "lost"}
     /\ r \in Touched(S(k), T(k))
  \/ pc[k] = "unapply" /\ r \in Footprint[S(k)][T(k)]
  \/ /\ pc[k] \in {"label", "count", "release", "done"}
     /\ r \in Touched(S(k), T(k)) /\ "revert_failed" \in error[k]

Accounted == \A r \in impaired : \E k \in Fault : Accounts(k, r)

(* A thread's row is its error string as it stands at the end, and is      *)
(* counted.                                                                *)
RowKept(k) ==
  /\ rows[k] \in {None, error[k]}
  /\ rows[k] # None => pc[k] \in {"count", "release", "done", "lost"}
  /\ rows[k] # None /\ pc[k] # "lost" => (k \in counted <=> pc[k] # "count")
  /\ k \in counted \/ pc[k] = "count" => rows[k] # None

RowsAreKept == \A k \in Fault : RowKept(k)

(* Threads are lost in a kill only, and none is left when a campaign ends. *)
ThreadsEnd ==
  /\ \A k \in Fault : pc[k] = "lost" => main = "killed"
  /\ main = "ended" => \A k \in Fault : pc[k] \in Ended \cup {"none"}

LabelInv == Accounted /\ RowsAreKept /\ ThreadsEnd

(* A step of a thread in a lab without silent refusals: what it accounted  *)
(* for it still does, or the resource is not impaired any more; what it    *)
(* impairs it accounts for.                                                *)
LEMMA ThreadAccounts ==
  ASSUME "refused" \notin CanFail, TypeOK, NEW k \in Fault, Thread(k),
         NEW r \in impaired', Accounts(k, r) \/ r \notin impaired
  PROVE  Accounts(k, r)'
<1> DEFINE F == Footprint[S(k)][T(k)]
           X == ExtraOf[S(k)][T(k)]
<1>1. /\ S(k)' = S(k) /\ T(k)' = T(k) /\ Touched(S(k), T(k)) = F \cup X
      /\ Touched(S(k), T(k))' = F \cup X /\ Footprint[S(k)'][T(k)'] = F
      /\ HasExtra(S(k), T(k)) <=> X # {}
  BY ThreadKeys DEF S, T, Touched, HasExtra
<1>2. pc \in [Fault -> PC] /\ error \in [Fault -> SUBSET Tag]
  BY DEF TypeOK
<1> HIDE DEF F, X
<1>3. CASE Acquire(k) \/ Build(k) \/ Hold(k) \/ WriteLabel(k) \/ Count(k) \/ Release(k)
  <2>1. impaired' = impaired
    BY <1>3 DEF Acquire, Build, Hold, WriteLabel, Count, Release
  <2>2. Accounts(k, r)
    BY <2>1
  <2>3. CASE Acquire(k) \/ Build(k)
    BY <2>2, <2>3, <1>2 DEF Acquire, Build, Goto, Accounts
  <2>4. CASE Hold(k)
    <3>1. /\ pc[k] = "hold" /\ pc'[k] = Undo(k)
      BY <2>4, <1>2 DEF Hold, Goto
    <3>2. r \in F \cup X
      BY <2>2, <3>1, <1>1 DEF Accounts
    <3> QED
      BY <3>1, <3>2, <1>1 DEF Undo, Accounts
  <2>5. CASE WriteLabel(k) \/ Count(k) \/ Release(k)
    <3>1. /\ pc[k] \in {"label", "count", "release"}
          /\ pc'[k] \in {"count", "release", "done"} /\ error' = error
      BY <2>5, <1>2 DEF WriteLabel, Count, Release, Goto
    <3> QED
      BY <2>2, <3>1, <1>1 DEF Accounts
  <2> QED
    BY <1>3, <2>3, <2>4, <2>5
<1>4. CASE Apply(k)
  <2>1. /\ pc[k] = "apply"
        /\ pc'[k] \in {IF X # {} THEN "extra" ELSE "hold", Undo(k)}
    BY <1>4, <1>1, <1>2 DEF Apply, Goto
  <2>2. impaired' \subseteq impaired \cup F
    <3>1. impaired' \in {Applied(impaired, S(k), T(k))}
                        \cup ApplyRaised(impaired, S(k), T(k))
      BY <1>4 DEF Apply, Returned
    <3>2. \A lab \in ApplyRaised(impaired, S(k), T(k)) : lab \subseteq impaired \cup F
      BY DEF ApplyRaised, F
    <3> QED
      BY <3>1, <3>2 DEF Applied, F
  <2>3. r \in F \cup X
    BY <2>1, <2>2, <1>1 DEF Accounts
  <2> QED
    BY <2>1, <2>3, <1>1 DEF Undo, Accounts
<1>5. CASE ApplyExtra(k)
  <2>1. pc[k] = "extra" /\ pc'[k] \in {"hold", Undo(k)}
    BY <1>5, <1>2 DEF ApplyExtra, Goto
  <2>2. impaired' \subseteq impaired \cup X
    BY <1>5 DEF ApplyExtra, Returned, ExtraApplied, ExtraRaised, X
  <2>3. r \in F \cup X
    BY <2>1, <2>2, <1>1 DEF Accounts
  <2> QED
    BY <2>1, <2>3, <1>1 DEF Undo, Accounts
<1>6. CASE RevertExtra(k)
  <2>1. pc[k] = "unextra" /\ impaired' \subseteq impaired
    BY <1>6 DEF RevertExtra, Goto, Returned, ExtraReverted
  <2>2. r \in F \cup X
    BY <2>1, <1>1 DEF Accounts
  <2>3. CASE pc'[k] = "unapply" /\ impaired' = impaired \ X
    BY <2>2, <2>3, <1>1 DEF Accounts
  <2>4. CASE pc'[k] = "label" /\ "revert_failed" \in error'[k]
    BY <2>2, <2>4, <1>1 DEF Accounts
  <2>5. \/ pc'[k] = "unapply" /\ impaired' = impaired \ X
        \/ pc'[k] = "label" /\ "revert_failed" \in error'[k]
    BY <1>6, <1>2 DEF RevertExtra, Goto, Returned, ExtraReverted, Note, X
  <2> QED
    BY <2>3, <2>4, <2>5
<1>7. CASE RevertInjector(k)
  <2>1. pc[k] = "unapply" /\ pc'[k] = "label"
    BY <1>7, <1>2 DEF RevertInjector, Goto
  <2>2. \/ impaired' = impaired \ F
        \/ impaired' \subseteq impaired /\ "revert_failed" \in error'[k]
    <3>1. \A lab \in RevertRaised(impaired, S(k), T(k)) : lab \subseteq impaired
      BY DEF RevertRaised
    <3> QED
      BY <1>7, <1>2, <3>1 DEF RevertInjector, Returned, Reverted, Note, F
  <2>3. r \in F
    BY <2>1, <2>2, <1>1 DEF Accounts
  <2>4. "revert_failed" \in error'[k]
    BY <2>2, <2>3
  <2> QED
    BY <2>1, <2>3, <2>4, <1>1 DEF Accounts
<1> QED
  BY <1>3, <1>4, <1>5, <1>6, <1>7 DEF Thread

LEMMA ThreadRows ==
  ASSUME TypeOK, NEW k \in Fault, Thread(k), RowKept(k)
  PROVE  RowKept(k)'
<1>1. /\ pc \in [Fault -> PC] /\ error \in [Fault -> SUBSET Tag]
      /\ rows \in [Fault -> (SUBSET Tag) \cup {None}]
  BY DEF TypeOK
<1>2. CASE WriteLabel(k)
  <2>1. /\ pc[k] = "label" /\ error' = error /\ counted' = counted
        /\ \/ pc'[k] = "count" /\ rows'[k] = error[k]
           \/ pc'[k] = "release" /\ rows'[k] = rows[k]
    BY <1>1, <1>2 DEF WriteLabel, Goto
  <2>2. error[k] # None
    BY <1>1, CampaignAssumption DEF Tag
  <2> QED
    BY <2>1, <2>2 DEF RowKept
<1>3. CASE Count(k) \/ Release(k)
  <2>1. /\ error' = error /\ rows' = rows
        /\ \/ pc[k] = "count" /\ pc'[k] = "release" /\ counted' = counted \cup {k}
           \/ pc[k] = "release" /\ pc'[k] = "done" /\ counted' = counted
    BY <1>1, <1>3 DEF Count, Release, Goto
  <2>2. /\ rows[k] \in {None, error[k]} /\ k \in counted => rows[k] # None
        /\ pc[k] = "count" \/ pc[k] = "release"
        /\ pc[k] = "release" => (rows[k] # None => k \in counted)
    BY <2>1 DEF RowKept
  <2>3. CASE pc[k] = "count"
    <3>1. pc'[k] = "release" /\ counted' = counted \cup {k}
      BY <2>1, <2>3
    <3>2. rows[k] # None
      BY <2>3 DEF RowKept
    <3> QED
      BY <2>1, <2>2, <3>1, <3>2 DEF RowKept
  <2>4. CASE pc[k] = "release"
    <3>1. pc'[k] = "done" /\ counted' = counted
      BY <2>1, <2>4
    <3> QED
      BY <2>1, <2>2, <2>4, <3>1 DEF RowKept
  <2> QED
    BY <2>2, <2>3, <2>4
<1>4. CASE ~(WriteLabel(k) \/ Count(k) \/ Release(k))
  <2>1. rows' = rows /\ counted' = counted
    BY <1>4 DEF Thread, Acquire, Build, Apply, ApplyExtra, Hold, RevertExtra,
         RevertInjector
  <2>2. pc[k] \notin {"count", "release", "done", "lost"}
    BY <1>4 DEF Thread, Acquire, Build, Apply, ApplyExtra, Hold, RevertExtra,
         RevertInjector, Goto
  <2>3. rows[k] = None /\ k \notin counted
    BY <2>2 DEF RowKept
  <2>4. pc'[k] # "count"
    BY <1>1, <1>4 DEF Thread, Acquire, Build, Apply, ApplyExtra, Hold, RevertExtra,
         RevertInjector, Goto, Undo
  <2> QED
    BY <2>1, <2>3, <2>4 DEF RowKept
<1> QED
  BY <1>2, <1>3, <1>4

LEMMA LabelStep ==
  ASSUME "refused" \notin CanFail, TypeOK, LabelInv, [Next]_vars
  PROVE  LabelInv'
<1>1. ASSUME NEW k \in Fault, Thread(k) PROVE LabelInv'
  <2>1. /\ main' = main /\ job' = job /\ pc[k] \notin Ended \cup {"none"}
        /\ \A j \in Fault \ {k} : pc'[j] = pc[j]
    BY <1>1, ThreadKeys
  <2>2. /\ \A j \in Fault \ {k} :
             /\ error'[j] = error[j] /\ rows'[j] = rows[j]
             /\ j \in counted' <=> j \in counted
        /\ pc'[k] # "lost"
    BY <1>1 DEF Thread, Acquire, Build, Apply, ApplyExtra, Hold, RevertExtra,
         RevertInjector, WriteLabel, Count, Release, Note, TypeOK, Goto, Undo
  <2>3. \A j \in Fault : S(j)' = S(j) /\ T(j)' = T(j)
    BY <2>1 DEF S, T
  <2>4. Accounted'
    <3> SUFFICES ASSUME NEW r \in impaired' PROVE \E j \in Fault : Accounts(j, r)'
      BY DEF Accounted
    <3>1. CASE r \notin impaired
      BY <1>1, <3>1, ThreadAccounts
    <3>2. CASE r \in impaired
      <4>1. PICK j \in Fault : Accounts(j, r)
        BY <3>2 DEF LabelInv, Accounted
      <4>2. CASE j = k
        BY <1>1, <4>1, <4>2, ThreadAccounts
      <4>3. CASE j # k
        BY <2>1, <2>2, <2>3, <4>1, <4>3 DEF Accounts, Touched
      <4> QED
        BY <4>2, <4>3
    <3> QED
      BY <3>1, <3>2
  <2>5. RowsAreKept'
    <3>1. RowKept(k)'
      BY <1>1, ThreadRows DEF LabelInv, RowsAreKept
    <3>2. ASSUME NEW j \in Fault \ {k} PROVE RowKept(j)'
      BY <2>1, <2>2 DEF LabelInv, RowsAreKept, RowKept
    <3> QED
      BY <3>1, <3>2 DEF RowsAreKept
  <2>6. ThreadsEnd'
    BY <2>1, <2>2 DEF LabelInv, ThreadsEnd
  <2> QED
    BY <2>4, <2>5, <2>6 DEF LabelInv
<1>2. ASSUME NEW k \in Fault, NEW s \in Scenario, NEW t \in Target, Pick(k, s, t)
      PROVE  LabelInv'
  <2>1. /\ pc[k] = "none" /\ pc'[k] = "picked" /\ main = "loop" /\ main' = "loop"
        /\ impaired' = impaired /\ error' = error /\ rows' = rows
        /\ counted' = counted
        /\ \A j \in Fault \ {k} : pc'[j] = pc[j] /\ S(j)' = S(j) /\ T(j)' = T(j)
    BY <1>2 DEF Pick, S, T, TypeOK
  <2>2. \A r : ~Accounts(k, r)
    BY <2>1 DEF Accounts
  <2>3. \A j \in Fault \ {k} : \A r : Accounts(j, r) => Accounts(j, r)'
    BY <2>1 DEF Accounts, Touched
  <2>4. Accounted'
    BY <2>1, <2>2, <2>3 DEF LabelInv, Accounted
  <2>5. RowsAreKept' /\ ThreadsEnd'
    BY <2>1 DEF LabelInv, RowsAreKept, RowKept, ThreadsEnd
  <2> QED
    BY <2>4, <2>5 DEF LabelInv
<1>3. ASSUME NEW k \in Fault, Spawn(k) PROVE LabelInv'
  <2>1. /\ pc[k] = "picked" /\ pc'[k] = "start" /\ main' = main
        /\ impaired' = impaired /\ error' = error /\ rows' = rows
        /\ counted' = counted /\ job' = job
        /\ \A j \in Fault \ {k} : pc'[j] = pc[j]
    BY <1>3 DEF Spawn, TypeOK
  <2>2. main # "ended"
    BY <2>1 DEF LabelInv, ThreadsEnd, Ended
  <2>3. \A j \in Fault : \A r : Accounts(j, r) => Accounts(j, r)'
    <3>1. \A j \in Fault : S(j)' = S(j) /\ T(j)' = T(j)
      BY <2>1 DEF S, T
    <3> QED
      BY <2>1, <3>1 DEF Accounts, Touched
  <2>4. Accounted'
    BY <2>1, <2>3 DEF LabelInv, Accounted
  <2>5. RowsAreKept' /\ ThreadsEnd'
    BY <2>1, <2>2 DEF LabelInv, RowsAreKept, RowKept, ThreadsEnd
  <2> QED
    BY <2>4, <2>5 DEF LabelInv
<1>4. CASE LeaveLoop \/ Join \/ UNCHANGED vars \/ (Interrupt /\ main' # "killed")
  <2>1. /\ impaired' = impaired /\ error' = error /\ rows' = rows
        /\ counted' = counted /\ job' = job /\ pc' = pc
        /\ main = "killed" => main' = "killed"
        /\ main' = "ended" /\ main # "ended" => Join
    BY <1>4 DEF LeaveLoop, Join, Interrupt, vars, threadVars
  <2>2. \A j \in Fault : \A r : Accounts(j, r) => Accounts(j, r)'
    <3>1. \A j \in Fault : S(j)' = S(j) /\ T(j)' = T(j)
      BY <2>1 DEF S, T
    <3> QED
      BY <2>1, <3>1 DEF Accounts, Touched
  <2>3. Accounted'
    BY <2>1, <2>2 DEF LabelInv, Accounted
  <2>4. RowsAreKept'
    BY <2>1 DEF LabelInv, RowsAreKept, RowKept
  <2>5. ThreadsEnd'
    BY <2>1 DEF LabelInv, ThreadsEnd, Join
  <2> QED
    BY <2>3, <2>4, <2>5 DEF LabelInv
<1>5. CASE Interrupt /\ main' = "killed"
  <2>1. /\ impaired' = impaired /\ error' = error /\ rows' = rows
        /\ counted' = counted /\ job' = job
        /\ \A j \in Fault : \/ pc'[j] = pc[j]
                            \/ pc'[j] = "lost" /\ pc[j] \notin Ended \cup {"none"}
    BY <1>5 DEF Interrupt, TypeOK
  <2>2. \A j \in Fault : \A r : Accounts(j, r) => Accounts(j, r)'
    <3>1. \A j \in Fault :
             /\ S(j)' = S(j) /\ T(j)' = T(j)
             /\ Footprint[S(j)][T(j)] \subseteq Touched(S(j), T(j))
      BY <2>1 DEF S, T, Touched
    <3> QED
      BY <2>1, <3>1 DEF Accounts, Touched
  <2>3. Accounted'
    BY <2>1, <2>2 DEF LabelInv, Accounted
  <2>4. RowsAreKept'
    BY <2>1 DEF LabelInv, RowsAreKept, RowKept
  <2>5. ThreadsEnd'
    BY <1>5 DEF ThreadsEnd
  <2> QED
    BY <2>3, <2>4, <2>5 DEF LabelInv
<1>6. ASSUME NEW d \in Daemon, Respawn(d) PROVE LabelInv'
  <2>1. UNCHANGED <<main, job, pc, error, rows, counted>>
        /\ impaired' \subseteq impaired
    BY <1>6 DEF Respawn, Respawned, mainVars
  <2>2. \A j \in Fault : \A r : Accounts(j, r) => Accounts(j, r)'
    BY <2>1 DEF Accounts, Touched, S, T
  <2>3. Accounted'
    BY <2>1, <2>2 DEF LabelInv, Accounted
  <2>4. RowsAreKept' /\ ThreadsEnd'
    BY <2>1 DEF LabelInv, RowsAreKept, RowKept, ThreadsEnd
  <2> QED
    BY <2>3, <2>4 DEF LabelInv
<1> QED
  BY <1>1, <1>2, <1>3, <1>4, <1>5, <1>6 DEF Next

(* If no command is refused in silence, whatever is impaired after a       *)
(* campaign was left by a fault whose label, if it could be written, says  *)
(* that its revert failed, and the summary counts the labels written; or,  *)
(* after a kill, by the fault of a lost thread.                            *)
THEOREM LeftoversHaveLabels ==
  ASSUME "refused" \notin CanFail
  PROVE  Spec => []LeftoversAreLabelled
<1>1. Init => LabelInv
  BY DEF Init, LabelInv, Accounted, RowsAreKept, RowKept, ThreadsEnd
<1>2. TypeOK /\ LabelInv /\ [Next]_vars => LabelInv'
  BY LabelStep
<1>3. TypeOK /\ KeyInv /\ LabelInv => LeftoversAreLabelled
  <2> SUFFICES ASSUME TypeOK, KeyInv, LabelInv PROVE LeftoversAreLabelled
    OBVIOUS
  <2>1. ASSUME main \in {"ended", "killed"}, NEW r \in impaired
        PROVE  \E k \in Fault :
                 /\ r \in Touched(S(k), T(k))
                 /\ \/ main = "killed" /\ pc[k] = "lost"
                    \/ /\ pc[k] = "done"
                       /\ "revert_failed" \in error[k]
                       /\ rows[k] \in {None, error[k]}
    <3>1. PICK k \in Fault : Accounts(k, r)
      BY DEF LabelInv, Accounted
    <3>2. pc[k] \in Ended \cup {"none"} /\ (pc[k] = "lost" => main = "killed")
      BY <2>1 DEF KeyInv, LabelInv, ThreadsEnd
    <3>3. rows[k] \in {None, error[k]}
      BY DEF LabelInv, RowsAreKept, RowKept
    <3>4. \/ pc[k] = "lost" /\ r \in Touched(S(k), T(k))
          \/ /\ pc[k] = "done" /\ r \in Touched(S(k), T(k))
             /\ "revert_failed" \in error[k]
      BY <3>1, <3>2 DEF Accounts, Ended
    <3> QED BY <3>2, <3>3, <3>4
  <2>2. ASSUME main = "ended"
        PROVE  counted = {k \in Fault : rows[k] # None}
    <3>1. \A k \in Fault : pc[k] \in {"skipped", "done", "none"}
      BY <2>2 DEF LabelInv, ThreadsEnd, Ended
    <3>2. \A k \in Fault : k \in counted <=> rows[k] # None
      BY <3>1 DEF LabelInv, RowsAreKept, RowKept
    <3> QED BY <3>2 DEF TypeOK
  <2> QED
    BY <2>1, <2>2 DEF LeftoversAreLabelled
<1> QED
  BY <1>1, <1>2, <1>3, KeyInvHolds, PTL DEF Spec

-----------------------------------------------------------------------------
(* Part 2: the core scenarios on the core that the generator builds.       *)

LEMMA NatMin ==
  ASSUME NEW V \in SUBSET Nat, V # {}
  PROVE  \E x \in V : \A y \in V : x <= y
<1> DEFINE R == OpToRel(<, Nat)
<1>1. IsWellFoundedOn(R, Nat)
  BY NatLessThanWellFounded
<1> HIDE DEF R
<1>2. PICK x \in V : \A y \in V : <<y, x>> \notin R
  BY <1>1, WFMin
<1>3. \A y \in V : ~ (y < x)
  BY <1>2 DEF R, OpToRel
<1> QED
  BY <1>3

-----------------------------------------------------------------------------
(* The links of a core, by their ranks.                                    *)

LEMMA KnobSizes ==
  ASSUME NEW b \in Knobs
  PROVE  /\ b.pops \in Nat /\ b.perPop \in Nat /\ b.pes \in Nat /\ b.redundancy \in Nat
         /\ b.perPop >= 3 /\ b.pops * b.perPop \in Nat /\ b.pops * b.perPop < 100
         /\ b.pes < 1000 /\ b.redundancy < 10
         /\ Len(b.chords) \in Nat /\ b.pops + Len(b.chords) < 1000
         /\ b.rr \subseteq 1..b.pes
<1>1. b.pops \in Nat /\ b.perPop \in Nat /\ b.pes \in Nat /\ b.redundancy \in Nat
  BY SizesAssumption
<1>2. /\ b.perPop >= 3 /\ b.pops * b.perPop < 100
      /\ b.pes < 1000 /\ b.redundancy < 10 /\ b.pops + Len(b.chords) < 1000
  BY SizesAssumption
<1>3. Len(b.chords) \in Nat
  <2> DEFINE Q == Pops(b) \X Pops(b)
  <2>1. b.chords \in Seq(Q)
    BY NamesAssumption
  <2> HIDE DEF Q
  <2> QED
    BY <2>1
<1>5. b.rr \subseteq 1..b.pes
  BY NamesAssumption
<1>4. b.pops * b.perPop \in Nat
  <2>1. PICK x, y \in Nat : x = b.pops /\ y = b.perPop
    BY <1>1
  <2>2. x * y \in Nat
    OBVIOUS
  <2> QED
    BY <2>1, <2>2
<1> QED
  BY <1>1, <1>2, <1>3, <1>4, <1>5, ZenonT(60)

(* The routers of a POP, among the core's.                                 *)
LEMMA PopIndices ==
  ASSUME NEW b \in Knobs, NEW pop \in Pops(b)
  PROVE  /\ (pop - 1) * b.perPop \in Nat
         /\ (pop - 1) * b.perPop + b.perPop = pop * b.perPop
         /\ pop * b.perPop <= b.pops * b.perPop
<1>1. PICK q, n \in Nat : q = b.perPop /\ n = b.pops
  BY KnobSizes
<1>2. PICK m \in Nat : pop = m + 1 /\ m + 1 <= n
  <2>1. pop - 1 \in Nat /\ pop = (pop - 1) + 1 /\ pop <= n
    BY <1>1 DEF Pops
  <2> QED
    BY <2>1
<1>3. PICK d \in Nat : n = m + 1 + d
  <2>1. n - (m + 1) \in Nat
    BY <1>2
  <2> QED
    BY <2>1
<1>4. m * q \in Nat /\ d * q \in Nat
  OBVIOUS
<1>5. (m + 1) * q = m * q + q /\ (m + 1 + d) * q = (m + 1) * q + d * q
  OBVIOUS
<1> QED
  BY <1>1, <1>2, <1>3, <1>4, <1>5

LEMMA PopRoutersAre ==
  ASSUME NEW b \in Knobs, NEW pop \in Pops(b), NEW r \in PopRouters(b, pop)
  PROVE  \E i \in 1..(b.pops * b.perPop) :
           /\ i < 100 /\ r = <<"p", i>>
           /\ (pop - 1) * b.perPop + 1 <= i /\ i <= pop * b.perPop
<1>1. PICK i \in ((pop - 1) * b.perPop + 1)..(pop * b.perPop) : r = <<"p", i>>
  BY DEF PopRouters, P
<1>2. PICK s, t, u \in Nat : /\ s = (pop - 1) * b.perPop /\ t = pop * b.perPop
                            /\ u = b.pops * b.perPop /\ t <= u /\ u < 100
  <2>1. pop * b.perPop \in Nat
    BY PopIndices, KnobSizes
  <2> QED
    BY <2>1, PopIndices, KnobSizes
<1>3. i \in 1..u /\ i < 100 /\ s + 1 <= i /\ i <= t
  BY <1>1, <1>2
<1> QED
  BY <1>1, <1>2, <1>3

LEMMA MeshRanks ==
  ASSUME NEW b \in Knobs, NEW l \in MeshLinks(b)
  PROVE  l.rank \in Nat /\ l.rank < 10000 /\ l.cost = CostIntra
<1>1. PICK pop \in Pops(b) : \E x, y \in PopRouters(b, pop) :
        l = [ends |-> {x, y}, cost |-> CostIntra, srlg |-> NoSrlg, joins |-> {},
             area |-> IF {x, y} = Borders(b, pop) THEN 0 ELSE pop,
             rank |-> x[2] * 100 + y[2]]
  BY DEF MeshLinks
<1>6. PICK x, y \in PopRouters(b, pop) :
        l.rank = x[2] * 100 + y[2] /\ l.cost = CostIntra
  BY <1>1
<1>2. PICK i \in 1..(b.pops * b.perPop) : i < 100 /\ x = <<"p", i>>
  BY PopRoutersAre
<1>3. PICK j \in 1..(b.pops * b.perPop) : j < 100 /\ y = <<"p", j>>
  BY PopRoutersAre
<1>4. i \in Nat /\ j \in Nat
  BY KnobSizes
<1>5. l.rank = i * 100 + j /\ l.cost = CostIntra
  BY <1>6, <1>2, <1>3
<1> QED
  BY <1>2, <1>3, <1>4, <1>5

LEMMA BackboneRanks ==
  ASSUME NEW b \in Knobs, NEW l \in BackboneLinks(b)
  PROVE  l.rank \in Nat /\ l.rank >= 10000 /\ l.rank < 20000 /\ l.cost = CostInter
<1>1. PICK n \in Adjacencies(b), r \in 0..(b.redundancy - 1) :
        l.rank = 10000 + 10 * n + r /\ l.cost = CostInter
  BY DEF BackboneLinks
<1>2. n \in Nat /\ n < 1000 /\ r \in Nat /\ r < 10
  BY KnobSizes DEF Adjacencies
<1> QED
  BY <1>1, <1>2

LEMMA PeRanks ==
  ASSUME NEW b \in Knobs, NEW l \in PeLinks(b)
  PROVE  l.rank \in Nat /\ l.rank >= 20000 /\ l.rank < 30000 /\ l.cost = CostIntra
<1>1. PICK i \in 1..b.pes, h \in {0, 1} :
        l.rank = 20000 + 10 * i + h /\ l.cost = CostIntra
  BY DEF PeLinks
<1>2. i \in Nat /\ i < 1000
  BY KnobSizes
<1> QED
  BY <1>1, <1>2

(* Inter-POP links, and only they, have the ranks and the cost of one.     *)
LEMMA CoreRanks ==
  ASSUME NEW b \in Knobs, NEW l \in CoreLinks(b)
  PROVE  /\ l.rank \in Nat /\ l.rank < 30000
         /\ l \in BackboneLinks(b) <=> (10000 <= l.rank /\ l.rank < 20000)
         /\ l.cost = IF l \in BackboneLinks(b) THEN CostInter ELSE CostIntra
<1>1. CASE l \in MeshLinks(b)
  <2>1. l.rank \in Nat /\ l.rank < 10000 /\ l.cost = CostIntra
    BY <1>1, MeshRanks
  <2>2. l \notin BackboneLinks(b)
    BY <2>1, BackboneRanks
  <2> QED
    BY <2>1, <2>2
<1>2. CASE l \in BackboneLinks(b)
  BY <1>2, BackboneRanks
<1>3. CASE l \in PeLinks(b)
  <2>1. l.rank \in Nat /\ l.rank >= 20000 /\ l.rank < 30000 /\ l.cost = CostIntra
    BY <1>3, PeRanks
  <2>2. l \notin BackboneLinks(b)
    BY <2>1, BackboneRanks
  <2> QED
    BY <2>1, <2>2
<1> QED
  BY <1>1, <1>2, <1>3 DEF CoreLinks

LEMMA IfacesAre ==
  ASSUME NEW links, NEW i
  PROVE  i \in Ifaces(links) <=> \E l \in links : \E r \in l.ends : i = <<r, l.rank>>
BY DEF Ifaces

-----------------------------------------------------------------------------
(* First and last interfaces.                                              *)

LEMMA FirstIn ==
  ASSUME NEW Q, Q # {}, \A i \in Q : i[2] \in Nat
  PROVE  FirstIface(Q) \in Q
<1> DEFINE V == {i[2] : i \in Q}
<1>1. V \in SUBSET Nat /\ V # {}
  OBVIOUS
<1>2. PICK x \in V : \A y \in V : x <= y
  <2> HIDE DEF V
  <2> QED
    BY <1>1, NatMin
<1>3. \E i \in Q : \A j \in Q : i[2] <= j[2]
  BY <1>2
<1> QED
  BY <1>3 DEF FirstIface, RankOf

LEMMA LastIn ==
  ASSUME NEW Q, Q # {}, NEW n \in Nat, \A i \in Q : i[2] \in Nat /\ i[2] <= n
  PROVE  LastIface(Q) \in Q /\ \A i \in Q : LastIface(Q)[2] >= i[2]
<1> DEFINE V == {n - i[2] : i \in Q}
<1>1. V \in SUBSET Nat /\ V # {}
  <2>1. ASSUME NEW i \in Q PROVE n - i[2] \in Nat
    OBVIOUS
  <2> QED
    BY <2>1
<1>2. PICK x \in V : \A y \in V : x <= y
  <2> HIDE DEF V
  <2> QED
    BY <1>1, NatMin
<1>3. PICK i \in Q : x = n - i[2]
  OBVIOUS
<1>4. ASSUME NEW j \in Q PROVE i[2] >= j[2]
  <2>1. n - i[2] <= n - j[2]
    BY <1>2, <1>3
  <2> QED
    BY <2>1
<1> QED
  BY <1>4 DEF LastIface, RankOf

-----------------------------------------------------------------------------
(* Every P of a core has a link of the mesh of its POP.                    *)

LEMMA PopOfIndex ==
  ASSUME NEW b \in Knobs, NEW i \in 1..(b.pops * b.perPop)
  PROVE  \E pop \in Pops(b) : (pop - 1) * b.perPop + 1 <= i /\ i <= pop * b.perPop
<1>1. PICK q, n \in Nat : q = b.perPop /\ n = b.pops /\ n * q \in Nat
  BY KnobSizes
<1>2. i \in Nat /\ 1 <= i /\ i <= n * q
  BY <1>1
<1> DEFINE V == {m \in Nat : i <= m * q}
<1>3. n \in V
  BY <1>1, <1>2
<1>4. PICK m \in V : \A x \in V : m <= x
  <2>1. V \in SUBSET Nat /\ V # {}
    BY <1>3
  <2> HIDE DEF V
  <2> QED
    BY <2>1, NatMin
<1>5. m \in Nat /\ i <= m * q /\ m <= n
  BY <1>3, <1>4
<1>6. m # 0
  BY <1>2, <1>5
<1>7. PICK d \in Nat : m = d + 1
  <2>1. m - 1 \in Nat /\ m = (m - 1) + 1
    BY <1>5, <1>6
  <2> QED
    BY <2>1
<1>8. ~ (i <= d * q)
  <2>1. d \notin V
    BY <1>4, <1>7
  <2> QED
    BY <2>1
<1>9. d * q + 1 <= i
  <2>1. d * q \in Nat
    BY <1>1, <1>7
  <2> QED
    BY <1>2, <1>8, <2>1
<1>10. m \in Pops(b)
  BY <1>1, <1>5, <1>6 DEF Pops
<1>11. m - 1 = d
  BY <1>7
<1> QED
  BY <1>1, <1>5, <1>9, <1>10, <1>11

LEMMA MeshLinkOf ==
  ASSUME NEW b \in Knobs, NEW p \in Ps(b)
  PROVE  \E l \in MeshLinks(b) : p \in l.ends
<1>1. PICK i \in 1..(b.pops * b.perPop) : p = <<"p", i>>
  BY DEF Ps, P
<1>2. PICK pop \in Pops(b) : (pop - 1) * b.perPop + 1 <= i /\ i <= pop * b.perPop
  BY PopOfIndex
<1>3. PICK s, t, q \in Nat : /\ s = (pop - 1) * b.perPop /\ t = pop * b.perPop
                            /\ q = b.perPop /\ s + q = t /\ q >= 3
  <2>1. /\ (pop - 1) * b.perPop \in Nat /\ b.perPop \in Nat /\ b.perPop >= 3
        /\ (pop - 1) * b.perPop + b.perPop = pop * b.perPop
    BY PopIndices, KnobSizes
  <2>2. pop * b.perPop \in Nat
    BY <2>1
  <2> QED
    BY <2>1, <2>2
<1>4. i \in (s + 1)..t
  BY <1>2, <1>3, KnobSizes
<1>5. PICK j \in (s + 1)..t : j # i
  <2>1. s + 1 \in (s + 1)..t /\ s + 2 \in (s + 1)..t
    BY <1>3
  <2> QED
    BY <2>1
<1> DEFINE link(x, y) ==
      [ends |-> {x, y}, cost |-> CostIntra, srlg |-> NoSrlg, joins |-> {},
       area |-> IF {x, y} = Borders(b, pop) THEN 0 ELSE pop,
       rank |-> x[2] * 100 + y[2]]
<1>6. <<"p", i>> \in PopRouters(b, pop) /\ <<"p", j>> \in PopRouters(b, pop)
  BY <1>3, <1>4, <1>5 DEF PopRouters, P
<1>7. ASSUME NEW x \in PopRouters(b, pop), NEW y \in PopRouters(b, pop), x[2] < y[2]
      PROVE  link(x, y) \in MeshLinks(b)
  <2> DEFINE Q == {pq \in PopRouters(b, pop) \X PopRouters(b, pop) : pq[1][2] < pq[2][2]}
  <2>1. PICK ab \in Q : ab[1] = x /\ ab[2] = y
    <3>1. <<x, y>> \in Q
      BY <1>7
    <3> QED
      BY <3>1
  <2> HIDE DEF Q
  <2>2. link(x, y) = link(ab[1], ab[2])
    BY <2>1
  <2> HIDE DEF link
  <2>3. link(x, y) \in {link(cd[1], cd[2]) : cd \in Q}
    BY <2>1, <2>2
  <2> DEFINE all(z) ==
        {[ends |-> {cd[1], cd[2]}, cost |-> CostIntra, srlg |-> NoSrlg, joins |-> {},
          area |-> IF {cd[1], cd[2]} = Borders(b, z) THEN 0 ELSE z,
          rank |-> cd[1][2] * 100 + cd[2][2]] :
           cd \in {pq \in PopRouters(b, z) \X PopRouters(b, z) : pq[1][2] < pq[2][2]}}
  <2>4. {link(cd[1], cd[2]) : cd \in Q} = all(pop)
    BY DEF Q, link
  <2>5. MeshLinks(b) = UNION {all(z) : z \in Pops(b)}
    BY DEF MeshLinks
  <2> HIDE DEF all
  <2> QED
    BY <2>3, <2>4, <2>5
<1>8. CASE i < j
  <2>1. link(<<"p", i>>, <<"p", j>>) \in MeshLinks(b)
    BY <1>6, <1>7, <1>8
  <2> QED
    BY <2>1, <1>1
<1>9. CASE j < i
  <2>1. link(<<"p", j>>, <<"p", i>>) \in MeshLinks(b)
    BY <1>6, <1>7, <1>9
  <2> QED
    BY <2>1, <1>1
<1> QED
  BY <1>4, <1>5, <1>8, <1>9

-----------------------------------------------------------------------------
(* What the scenarios read of topology-meta.json.                          *)

LEMMA MetaIs ==
  ASSUME meta = TopoMeta(knobs)
  PROVE  /\ meta.abrs = Abrs(knobs)
         /\ meta.inter_pop_links = BackboneLinks(knobs)
         /\ meta.p_core_ifaces =
              [p \in Ps(knobs) |-> {i \in Ifaces(CoreLinks(knobs)) : i[1] = p}]
         /\ meta.p_inter_ifaces =
              [p \in Ps(knobs) |-> {i \in Ifaces(BackboneLinks(knobs)) : i[1] = p}]
         /\ meta.link_of =
              [i \in Ifaces(CoreLinks(knobs)) |->
                 CHOOSE l \in CoreLinks(knobs) : i[1] \in l.ends /\ l.rank = i[2]]
BY Zenon DEF TopoMeta

LEMMA MetaSets ==
  ASSUME meta = TopoMeta(knobs)
  PROVE  /\ \A g \in DOMAIN meta.srlgs : meta.srlgs[g] \subseteq Ifaces(CoreLinks(knobs))
         /\ \A pop \in Pops(knobs) : meta.pop_inter_links[pop] \subseteq Ifaces(CoreLinks(knobs))
<1> DEFINE inter == BackboneLinks(knobs)
<1>1. /\ meta.srlgs = [g \in {l.srlg : l \in inter} |-> Ifaces({l \in inter : l.srlg = g})]
      /\ meta.pop_inter_links =
           [pop \in Pops(knobs) |-> {i \in Ifaces({l \in inter : pop \in l.joins}) :
                                  i[1] \in Borders(knobs, pop)}]
  BY Zenon DEF TopoMeta
<1>2. inter \subseteq CoreLinks(knobs)
  BY DEF CoreLinks
<1>3. ASSUME NEW Q \in SUBSET CoreLinks(knobs) PROVE Ifaces(Q) \subseteq Ifaces(CoreLinks(knobs))
  BY IfacesAre
<1> HIDE DEF inter
<1>4. ASSUME NEW g \in DOMAIN meta.srlgs
      PROVE  meta.srlgs[g] \subseteq Ifaces(CoreLinks(knobs))
  <2>1. meta.srlgs[g] = Ifaces({l \in inter : l.srlg = g})
    BY <1>1, <1>4
  <2>2. {l \in inter : l.srlg = g} \in SUBSET CoreLinks(knobs)
    BY <1>2
  <2> QED
    BY <2>1, <2>2, <1>3
<1>5. ASSUME NEW pop \in Pops(knobs)
      PROVE  meta.pop_inter_links[pop] \subseteq Ifaces(CoreLinks(knobs))
  <2>1. meta.pop_inter_links[pop] \subseteq Ifaces({l \in inter : pop \in l.joins})
    BY <1>1
  <2>2. {l \in inter : pop \in l.joins} \in SUBSET CoreLinks(knobs)
    BY <1>2
  <2> QED
    BY <2>1, <2>2, <1>3
<1> QED
  BY <1>4, <1>5

(* An interface has the rank and the P of its link.                        *)
LEMMA IfaceRank ==
  ASSUME knobs \in Knobs, NEW i \in Ifaces(CoreLinks(knobs))
  PROVE  /\ i = <<i[1], i[2]>>
         /\ i[2] \in Nat /\ i[2] < 30000
         /\ \E l \in CoreLinks(knobs) : i[1] \in l.ends /\ l.rank = i[2]
<1>1. PICK l \in CoreLinks(knobs) : \E r \in l.ends : i = <<r, l.rank>>
  BY IfacesAre
<1> QED
  BY <1>1, CoreRanks

LEMMA CostOfLink ==
  ASSUME knobs \in Knobs, meta = TopoMeta(knobs), NEW i \in Ifaces(CoreLinks(knobs))
  PROVE  /\ LinkOf(i).cost = IF 10000 <= i[2] /\ i[2] < 20000 THEN CostInter ELSE CostIntra
         /\ LinkOf(i) \in CoreLinks(knobs)
<1>1. LinkOf(i) = CHOOSE l \in CoreLinks(knobs) : i[1] \in l.ends /\ l.rank = i[2]
  BY MetaIs DEF LinkOf
<1>2. LinkOf(i) \in CoreLinks(knobs) /\ LinkOf(i).rank = i[2]
  BY <1>1, IfaceRank
<1> QED
  BY <1>2, CoreRanks

(* Core interfaces of a P are its own, and it has some.                    *)
LEMMA OwnIfaces ==
  ASSUME knobs \in Knobs, meta = TopoMeta(knobs), NEW p \in Ps(knobs)
  PROVE  /\ meta.p_core_ifaces[p] \subseteq Ifaces(CoreLinks(knobs))
         /\ meta.p_core_ifaces[p] # {}
         /\ InterIfaces(p) \subseteq meta.p_core_ifaces[p]
         /\ \A i \in meta.p_core_ifaces[p] : /\ i[1] = p /\ i[2] \in Nat /\ i[2] < 30000
                                             /\ i \in InterIfaces(p)
                                                <=> 10000 <= i[2] /\ i[2] < 20000
<1>1. meta.p_core_ifaces[p] = {i \in Ifaces(CoreLinks(knobs)) : i[1] = p}
  BY MetaIs
<1>2. InterIfaces(p) = {i \in Ifaces(BackboneLinks(knobs)) : i[1] = p}
  BY MetaIs DEF InterIfaces
<1>3. meta.p_core_ifaces[p] # {}
  <2>1. PICK l \in MeshLinks(knobs) : p \in l.ends
    BY MeshLinkOf
  <2>2. <<p, l.rank>> \in Ifaces(CoreLinks(knobs))
    BY <2>1, IfacesAre DEF CoreLinks
  <2> QED
    BY <2>2, <1>1
<1>4. Ifaces(BackboneLinks(knobs)) \subseteq Ifaces(CoreLinks(knobs))
  BY IfacesAre DEF CoreLinks
<1>5. ASSUME NEW i \in Ifaces(CoreLinks(knobs)), i[1] = p
      PROVE  i \in InterIfaces(p) <=> 10000 <= i[2] /\ i[2] < 20000
  <2>1. ASSUME i \in InterIfaces(p) PROVE 10000 <= i[2] /\ i[2] < 20000
    <3>1. PICK l \in BackboneLinks(knobs) : \E r \in l.ends : i = <<r, l.rank>>
      BY <2>1, <1>2, IfacesAre
    <3> QED
      BY <3>1, BackboneRanks
  <2>2. ASSUME 10000 <= i[2], i[2] < 20000 PROVE i \in InterIfaces(p)
    <3>1. PICK l \in CoreLinks(knobs) : i[1] \in l.ends /\ l.rank = i[2] /\ i = <<i[1], i[2]>>
      BY IfaceRank
    <3>2. l \in BackboneLinks(knobs)
      BY <3>1, <2>2, CoreRanks
    <3>3. i \in Ifaces(BackboneLinks(knobs))
      BY <3>1, <3>2, IfacesAre
    <3> QED
      BY <3>3, <1>2, <1>5
  <2> QED
    BY <2>1, <2>2
<1> QED
  BY <1>1, <1>2, <1>3, <1>4, <1>5, IfaceRank

(* The interface a scenario takes on a P is one of the P's.                *)
LEMMA ChosenIface ==
  ASSUME knobs \in Knobs, meta = TopoMeta(knobs), NEW p \in Ps(knobs)
  PROVE  /\ BackboneIface(p) \in meta.p_core_ifaces[p]
         /\ UnderlayIface(p) \in meta.p_core_ifaces[p]
         /\ BackboneIface(p) \in InterIfaces(p) <=> InterIfaces(p) # {}
<1>1. LastIface(meta.p_core_ifaces[p]) \in meta.p_core_ifaces[p]
  <2> DEFINE own == meta.p_core_ifaces[p]
  <2>1. own # {} /\ \A i \in own : i[2] \in Nat /\ i[2] <= 30000
    BY OwnIfaces
  <2> HIDE DEF own
  <2>2. LastIface(own) \in own
    BY <2>1, LastIn
  <2> QED
    BY <2>2 DEF own
<1>2. ASSUME InterIfaces(p) # {}
      PROVE  FirstIface(InterIfaces(p)) \in InterIfaces(p)
  <2>1. \A i \in InterIfaces(p) : i[2] \in Nat
    BY OwnIfaces
  <2> QED
    BY <2>1, <1>2, FirstIn
<1> QED
  BY <1>1, <1>2, OwnIfaces DEF BackboneIface, UnderlayIface

(* The cost path_asymmetry puts back is the generated one.                 *)
LEMMA CostPutBack ==
  ASSUME CostIntra = 10, CostInter = 100, knobs \in Knobs, meta = TopoMeta(knobs), NEW p \in Ps(knobs)
  PROVE  LinkOf(BackboneIface(p)).cost = OrigCost(p)
<1>1. BackboneIface(p) \in Ifaces(CoreLinks(knobs))
  BY ChosenIface, OwnIfaces
<1> QED
  BY <1>1, ChosenIface, OwnIfaces, CostOfLink DEF OrigCost

LEMMA AbrsArePs ==
  ASSUME NEW b \in Knobs
  PROVE  Abrs(b) \subseteq Ps(b)
<1>1. ASSUME NEW pop \in Pops(b), NEW n \in {1, 2} PROVE Border(b, pop, n) \in Ps(b)
  <2>1. PICK s, t, u, q \in Nat :
          /\ s = (pop - 1) * b.perPop /\ t = pop * b.perPop /\ u = b.pops * b.perPop
          /\ q = b.perPop /\ s + q = t /\ q >= 3 /\ t <= u
    <3>1. /\ (pop - 1) * b.perPop \in Nat /\ b.perPop \in Nat /\ b.perPop >= 3
          /\ (pop - 1) * b.perPop + b.perPop = pop * b.perPop
          /\ b.pops * b.perPop \in Nat /\ pop * b.perPop <= b.pops * b.perPop
      BY PopIndices, KnobSizes
    <3>2. pop * b.perPop \in Nat
      BY <3>1
    <3> QED
      BY <3>1, <3>2
  <2>2. s + n \in 1..u
    BY <2>1
  <2>3. Border(b, pop, n) = P(s + n) /\ Ps(b) = {P(i) : i \in 1..u}
    BY <2>1 DEF Border, Ps
  <2> QED
    BY <2>2, <2>3
<1> QED
  BY <1>1 DEF Abrs, Borders

(* The P a fault on an interface is named after.                           *)
LEMMA TargetsArePs ==
  ASSUME knobs \in Knobs, meta = TopoMeta(knobs), NEW f \in CampaignFaults \cup NamedFaults
  PROVE  /\ f = <<f[1], f[2]>>
         /\ f[1] \in {"mpls_underlay_failure", "ospf_area_flap", "path_asymmetry",
                      "p_node_failure"} => f[2] \in Ps(knobs)
         /\ f[1] = "mpls_underlay_failure" => f[2] \notin Abrs(knobs)
         /\ f[1] = "ospf_area_flap" => f[2] \in Abrs(knobs)
         /\ f[1] = "srlg_cut" => f[2] \in DOMAIN meta.srlgs
         /\ f[1] = "pop_isolation" => f[2][2] \in Pops(knobs)
         /\ f[1] = "rr_failure" => f[2] \in {Pe(i) : i \in knobs.rr}
<1>1. meta.abrs = Abrs(knobs) /\ Abrs(knobs) \subseteq Ps(knobs)
  BY MetaIs, AbrsArePs
<1> QED
  BY <1>1 DEF CampaignFaults, NamedFaults, OnAbr

LEMMA LinksAreIfaces ==
  ASSUME knobs \in Knobs, meta = TopoMeta(knobs), NEW f \in CampaignFaults \cup NamedFaults
  PROVE  LinksOf(f) \subseteq Ifaces(CoreLinks(knobs))
<1>1. PartitionIfaces(f[2][2]) \subseteq Ifaces(CoreLinks(knobs))
  <2>1. PICK cut \in SUBSET meta.inter_pop_links : PartitionIfaces(f[2][2]) = Ifaces(cut)
    BY DEF PartitionIfaces
  <2>2. cut \subseteq CoreLinks(knobs)
    BY MetaIs DEF CoreLinks
  <2> QED
    BY <2>1, <2>2, IfacesAre
<1>2. CASE f[1] = "p_node_failure"
  BY <1>2, TargetsArePs, OwnIfaces DEF LinksOf
<1>3. CASE f[1] = "srlg_cut"
  BY <1>3, TargetsArePs, MetaSets DEF LinksOf
<1>4. CASE f[1] = "mpls_underlay_failure"
  BY <1>4, TargetsArePs, ChosenIface, OwnIfaces DEF LinksOf
<1>5. CASE f[1] = "pop_isolation"
  BY <1>5, TargetsArePs, MetaSets DEF LinksOf
<1>6. CASE f[1] = "core_partition"
  BY <1>6, <1>1 DEF LinksOf
<1>7. CASE f[1] = "ospf_area_flap"
  BY <1>7, TargetsArePs, ChosenIface, OwnIfaces DEF LinksOf
<1> QED
  BY <1>2, <1>3, <1>4, <1>5, <1>6, <1>7 DEF LinksOf

(* Of two faults on single interfaces, no two take the same one.           *)
LEMMA SinglesApart ==
  ASSUME knobs \in Knobs, meta = TopoMeta(knobs),
         NEW f \in CampaignFaults, NEW g \in CampaignFaults, f # g,
         LinksOf(f) \cap LinksOf(g) # {}
  PROVE  {f[1], g[1]} \cap {"p_node_failure", "srlg_cut"} # {}
<1> SUFFICES ASSUME f[1] \notin {"p_node_failure", "srlg_cut"},
                    g[1] \notin {"p_node_failure", "srlg_cut"}
             PROVE  FALSE
  OBVIOUS
<1>1. ASSUME NEW h \in CampaignFaults, h[1] \notin {"p_node_failure", "srlg_cut"},
             LinksOf(h) # {}
      PROVE  \/ h[1] = "mpls_underlay_failure" /\ LinksOf(h) = {UnderlayIface(h[2])}
             \/ h[1] = "ospf_area_flap" /\ LinksOf(h) = {BackboneIface(h[2])}
  <2>1. h[1] \notin {"pop_isolation", "core_partition"}
    BY DEF CampaignFaults, OnAbr
  <2> QED
    BY <1>1, <2>1 DEF LinksOf
<1>2. ASSUME NEW h \in CampaignFaults, h[1] \notin {"p_node_failure", "srlg_cut"},
             NEW i \in LinksOf(h)
      PROVE  i[1] = h[2] /\ h[1] \in {"mpls_underlay_failure", "ospf_area_flap"}
  BY <1>2, <1>1, TargetsArePs, ChosenIface, OwnIfaces
<1>3. f[2] = g[2]
  BY <1>2
<1>4. f[1] # g[1]
  BY <1>3, TargetsArePs
<1> QED
  BY <1>2, <1>3, <1>4, TargetsArePs

-----------------------------------------------------------------------------
(* Every fault's disturbance is that of a fault that runs.                 *)

HeldDown == UNION {LinksOf(f) : f \in running}
HeldCosts == {Shifted(f) : f \in {g \in running : g[1] = "path_asymmetry"}}
HeldDead == {f[2] : f \in {g \in running : g[1] = "rr_failure"}}

Drawn ==
  /\ knobs \in Knobs
  /\ meta = TopoMeta(knobs)
  /\ running \subseteq CampaignFaults \cup NamedFaults
  /\ IsFiniteSet(running) /\ Cardinality(running) <= MaxRunning
  /\ running # {} => knobs \in Faulted
  /\ pulsing \subseteq running /\ disturbed \subseteq running
  /\ \A g \in pulsing : g[1] = "ospf_area_flap"

Disturbing == down \subseteq HeldDown /\ killed \subseteq HeldDead

(* What a fault took down stays down while it runs undisturbed.            *)
Standing ==
  \A g \in running \ disturbed : g[1] # "ospf_area_flap" => LinksOf(g) \subseteq down

LinksInv == Drawn /\ Disturbing /\ Standing

Recosted == cost = [i \in DOMAIN cost |-> cost[i]] /\ DOMAIN cost \subseteq HeldCosts

CoreInv == LinksInv /\ Recosted

LEMMA CoreInit1 == CoreInit => CoreInv
<1> SUFFICES ASSUME CoreInit PROVE CoreInv
  OBVIOUS
<1>1. IsFiniteSet({}) /\ Cardinality({}) = 0
  BY FS_EmptySet
<1>2. Drawn
  BY <1>1, BoundsAssumption DEF CoreInit, Drawn
<1>3. cost = [i \in DOMAIN cost |-> cost[i]] /\ DOMAIN cost = {}
  BY DEF CoreInit
<1>4. Disturbing /\ Standing
  BY DEF CoreInit, Disturbing, Standing
<1>5. Recosted
  BY <1>3 DEF Recosted
<1> QED
  BY <1>2, <1>4, <1>5 DEF CoreInv, LinksInv

(* What the scenarios compute depends on the lab alone.                    *)
LEMMA LabUnchanged ==
  ASSUME knobs' = knobs, meta' = meta
  PROVE  /\ CampaignFaults' = CampaignFaults /\ NamedFaults' = NamedFaults
         /\ \A f : LinksOf(f)' = LinksOf(f) /\ Shifted(f)' = Shifted(f)
<1>1. CampaignFaults' = CampaignFaults /\ NamedFaults' = NamedFaults
  BY DEF CampaignFaults, NamedFaults
<1>2. ASSUME NEW f PROVE LinksOf(f)' = LinksOf(f) /\ Shifted(f)' = Shifted(f)
  BY DEF LinksOf, Shifted, BackboneIface, UnderlayIface, InterIfaces, PartitionIfaces, Half
<1> QED
  BY <1>1, <1>2

LEMMA StartKeepsLinks ==
  ASSUME LinksInv, knobs \in Faulted, NEW f \in CampaignFaults \cup NamedFaults, Start(f)
  PROVE  LinksInv'
<1> USE DEF LinksInv
<1>0. /\ knobs' = knobs /\ meta' = meta /\ running' = running \cup {f}
      /\ disturbed = {} /\ disturbed' = disturbed /\ down' = down \cup LinksOf(f)
      /\ f \notin running /\ Cardinality(running) < MaxRunning
  BY DEF Start
<1>1. /\ CampaignFaults' = CampaignFaults /\ NamedFaults' = NamedFaults
      /\ \A g : LinksOf(g)' = LinksOf(g)
  BY <1>0, LabUnchanged
<1>2. IsFiniteSet(running \cup {f}) /\ Cardinality(running \cup {f}) = Cardinality(running) + 1
  BY <1>0, FS_AddElement DEF Drawn
<1>3. Cardinality(running) \in Nat
  BY FS_CardinalityType DEF Drawn
<1>4. pulsing' \subseteq running' /\ \A g \in pulsing' : g[1] = "ospf_area_flap"
  BY <1>0 DEF Start, Drawn
<1>5. Drawn'
  BY <1>0, <1>1, <1>2, <1>3, <1>4, BoundsAssumption DEF Drawn
<1>6. down' \subseteq HeldDown'
  BY <1>0, <1>1 DEF HeldDown, Disturbing
<1>7. killed' \subseteq HeldDead'
  <2>1. killed' = IF f[1] = "rr_failure" THEN killed \cup {f[2]} ELSE killed
    BY DEF Start
  <2> QED
    BY <2>1, <1>0 DEF HeldDead, Disturbing
<1>8. Standing'
  BY <1>0, <1>1 DEF Standing
<1> QED
  BY <1>5, <1>6, <1>7, <1>8 DEF Disturbing

(* Whose links the end of a flap or a revert brings up is disturbed.       *)
LEMMA BringUpKeeps ==
  ASSUME LinksInv, NEW f \in running, BringUp(f), knobs' = knobs, meta' = meta,
         running' \subseteq running, f \in running' => f[1] = "ospf_area_flap"
  PROVE  /\ Standing' /\ disturbed' \subseteq running'
         /\ running' = running \/ running' = running \ {f} => down' \subseteq HeldDown'
<1>1. /\ down' = down \ LinksOf(f)
      /\ disturbed' =
           (disturbed \cup {g \in running \ {f} : g \notin pulsing
                                                  /\ LinksOf(g) \cap LinksOf(f) # {}})
           \cap running'
  BY DEF BringUp
<1>2. \A g : LinksOf(g)' = LinksOf(g)
  BY LabUnchanged
<1>3. ASSUME NEW g \in running', g \notin disturbed', g[1] # "ospf_area_flap"
      PROVE  LinksOf(g) \subseteq down'
  <2>1. g \in running /\ g # f /\ g \notin disturbed
    BY <1>1, <1>3
  <2>2. g \notin pulsing
    BY <1>3 DEF LinksInv, Drawn
  <2>3. LinksOf(g) \cap LinksOf(f) = {}
    BY <1>1, <1>3, <2>1, <2>2
  <2>4. LinksOf(g) \subseteq down
    BY <1>3, <2>1 DEF LinksInv, Standing
  <2> QED
    BY <1>1, <2>3, <2>4
<1>4. Standing'
  BY <1>2, <1>3 DEF Standing
<1>5. ASSUME running' = running \/ running' = running \ {f}
      PROVE  down' \subseteq HeldDown'
  BY <1>1, <1>2, <1>5 DEF HeldDown, LinksInv, Disturbing
<1> QED
  BY <1>1, <1>4, <1>5

LEMMA FlapReturnsKeepsLinks ==
  ASSUME LinksInv, NEW f \in running, FlapReturns(f)
  PROVE  LinksInv'
<1> USE DEF LinksInv
<1>0. /\ knobs' = knobs /\ meta' = meta /\ running' = running /\ killed' = killed
      /\ pulsing' = pulsing \ {f} /\ f \in pulsing /\ BringUp(f)
  BY DEF FlapReturns
<1>1. CampaignFaults' = CampaignFaults /\ NamedFaults' = NamedFaults
  BY <1>0, LabUnchanged
<1>2. f[1] = "ospf_area_flap"
  BY <1>0 DEF Drawn
<1>3. Standing' /\ disturbed' \subseteq running' /\ down' \subseteq HeldDown'
  BY <1>0, <1>2, BringUpKeeps
<1>4. Drawn'
  BY <1>0, <1>1, <1>3 DEF Drawn
<1>5. HeldDead' = HeldDead
  BY <1>0 DEF HeldDead
<1>6. Disturbing'
  BY <1>0, <1>3, <1>5 DEF Disturbing
<1> QED
  BY <1>3, <1>4, <1>6

LEMMA StopKeepsLinks ==
  ASSUME LinksInv, NEW f \in running, Stop(f)
  PROVE  LinksInv'
<1> USE DEF LinksInv
<1>0. /\ knobs' = knobs /\ meta' = meta /\ running' = running \ {f} /\ pulsing' = pulsing
      /\ f \notin pulsing /\ BringUp(f)
  BY DEF Stop, Settled
<1>1. CampaignFaults' = CampaignFaults /\ NamedFaults' = NamedFaults
  BY <1>0, LabUnchanged
<1>2. IsFiniteSet(running \ {f}) /\ Cardinality(running \ {f}) = Cardinality(running) - 1
  BY <1>0, FS_RemoveElement DEF Drawn
<1>3. Cardinality(running) \in Nat
  BY FS_CardinalityType DEF Drawn
<1>4. Standing' /\ disturbed' \subseteq running' /\ down' \subseteq HeldDown'
  BY <1>0, BringUpKeeps
<1>5. Drawn'
  BY <1>0, <1>1, <1>2, <1>3, <1>4, BoundsAssumption DEF Drawn
<1>6. killed' \subseteq HeldDead'
  <2>1. killed' = IF f[1] = "rr_failure" THEN killed \ {f[2]} ELSE killed
    BY DEF Stop
  <2> QED
    BY <2>1, <1>0 DEF HeldDead, Disturbing
<1> QED
  BY <1>4, <1>5, <1>6 DEF Disturbing

LEMMA LinksStep ==
  ASSUME LinksInv, [CoreNext]_coreVars
  PROVE  LinksInv'
<1>1. CASE knobs \in Faulted /\ \E f \in CampaignFaults \cup NamedFaults : Start(f)
  BY <1>1, StartKeepsLinks
<1>2. CASE \E f \in running : FlapReturns(f)
  BY <1>2, FlapReturnsKeepsLinks
<1>3. CASE \E f \in running : Stop(f)
  BY <1>3, StopKeepsLinks
<1>4. CASE UNCHANGED coreVars
  <2>1. /\ knobs' = knobs /\ meta' = meta /\ running' = running /\ pulsing' = pulsing /\ down' = down
        /\ killed' = killed /\ disturbed' = disturbed
    BY <1>4 DEF coreVars
  <2>2. /\ CampaignFaults' = CampaignFaults /\ NamedFaults' = NamedFaults
        /\ \A g : LinksOf(g)' = LinksOf(g)
    BY <2>1, LabUnchanged
  <2>3. HeldDown' = HeldDown /\ HeldDead' = HeldDead
    BY <2>1, <2>2 DEF HeldDown, HeldDead
  <2>4. Drawn'
    BY <2>1, <2>2 DEF LinksInv, Drawn
  <2>5. Disturbing' /\ Standing'
    BY <2>1, <2>2, <2>3 DEF LinksInv, Disturbing, Standing
  <2> QED
    BY <2>4, <2>5 DEF LinksInv
<1> QED
  BY <1>1, <1>2, <1>3, <1>4 DEF CoreNext

(* A revert of path_asymmetry puts the generated cost back.                *)
LEMMA CostsStep ==
  ASSUME CostIntra = 10, CostInter = 100, CoreInv, [CoreNext]_coreVars
  PROVE  Recosted'
<1> USE DEF CoreInv, LinksInv
<1>1. ASSUME NEW f \in CampaignFaults \cup NamedFaults, Start(f) PROVE Recosted'
  <2>0. knobs' = knobs /\ meta' = meta /\ running' = running \cup {f}
    BY <1>1 DEF Start
  <2>1. \A g : Shifted(g)' = Shifted(g)
    BY <2>0, LabUnchanged
  <2>2. CASE f[1] = "path_asymmetry"
    <3>1. cost' = [i \in DOMAIN cost \cup {Shifted(f)} |->
                     IF i = Shifted(f) THEN 2000 ELSE cost[i]]
      BY <1>1, <2>2 DEF Start
    <3>2. DOMAIN cost' = DOMAIN cost \cup {Shifted(f)} /\ cost' = [i \in DOMAIN cost' |-> cost'[i]]
      BY <3>1
    <3> QED
      BY <3>2, <2>0, <2>1, <2>2 DEF HeldCosts, Recosted
  <2>3. CASE f[1] # "path_asymmetry"
    <3>1. cost' = cost
      BY <1>1, <2>3 DEF Start
    <3> QED
      BY <3>1, <2>0, <2>1 DEF HeldCosts, Recosted
  <2> QED
    BY <2>2, <2>3
<1>2. ASSUME NEW f \in running, FlapReturns(f) PROVE Recosted'
  <2>0. knobs' = knobs /\ meta' = meta /\ running' = running /\ cost' = cost
    BY <1>2 DEF FlapReturns
  <2>1. \A g : Shifted(g)' = Shifted(g)
    BY <2>0, LabUnchanged
  <2> QED
    BY <2>0, <2>1 DEF HeldCosts, Recosted
<1>3. ASSUME NEW f \in running, Stop(f) PROVE Recosted'
  <2>0. knobs' = knobs /\ meta' = meta /\ running' = running \ {f}
    BY <1>3 DEF Stop
  <2>1. \A g : Shifted(g)' = Shifted(g)
    BY <2>0, LabUnchanged
  <2>2. CASE f[1] = "path_asymmetry"
    <3>1. LinkOf(Shifted(f)).cost = OrigCost(f[2])
      <4>1. f \in CampaignFaults \cup NamedFaults
        BY DEF Drawn
      <4>2. f[2] \in Ps(knobs)
        BY <4>1, <2>2, TargetsArePs DEF Drawn
      <4> QED
        BY <4>2, CostPutBack DEF Drawn, Shifted
    <3>2. cost' = [i \in DOMAIN cost \ {Shifted(f)} |-> cost[i]]
      BY <1>3, <2>2, <3>1 DEF Stop
    <3>3. DOMAIN cost' = DOMAIN cost \ {Shifted(f)} /\ cost' = [i \in DOMAIN cost' |-> cost'[i]]
      BY <3>2
    <3> QED
      BY <3>3, <2>0, <2>1 DEF HeldCosts, Recosted
  <2>3. CASE f[1] # "path_asymmetry"
    <3>1. cost' = cost
      BY <1>3, <2>3 DEF Stop
    <3> QED
      BY <3>1, <2>3, <2>0, <2>1 DEF HeldCosts, Recosted
  <2> QED
    BY <2>2, <2>3
<1>4. ASSUME UNCHANGED coreVars PROVE Recosted'
  <2>0. knobs' = knobs /\ meta' = meta /\ running' = running /\ cost' = cost
    BY <1>4 DEF coreVars
  <2>1. \A g : Shifted(g)' = Shifted(g)
    BY <2>0, LabUnchanged
  <2> QED
    BY <2>0, <2>1 DEF HeldCosts, Recosted
<1> QED
  BY <1>1, <1>2, <1>3, <1>4 DEF CoreNext

LEMMA UndoneWhenDone ==
  ASSUME CoreInv
  PROVE  RevertsUndoTheirOwn
<1> USE DEF CoreInv, LinksInv
<1>1. CoreTypeOK
  <2>1. down \cup DOMAIN cost \subseteq DOMAIN meta.link_of
    <3>1. DOMAIN meta.link_of = Ifaces(CoreLinks(knobs))
      BY MetaIs DEF Drawn
    <3>2. HeldDown \subseteq Ifaces(CoreLinks(knobs))
      BY LinksAreIfaces DEF HeldDown, Drawn
    <3>3. HeldCosts \subseteq Ifaces(CoreLinks(knobs))
      BY TargetsArePs, ChosenIface, OwnIfaces DEF HeldCosts, Shifted, Drawn
    <3> QED
      BY <3>1, <3>2, <3>3 DEF Disturbing, Recosted
  <2>2. killed \subseteq Pes(knobs)
    <3>1. HeldDead \subseteq {Pe(i) : i \in knobs.rr}
      BY TargetsArePs DEF HeldDead, Drawn
    <3>2. knobs.rr \subseteq 1..knobs.pes
      BY KnobSizes DEF Drawn
    <3> QED
      BY <3>1, <3>2 DEF Disturbing, Pes
  <2> QED
    BY <2>1, <2>2 DEF CoreTypeOK, Drawn
<1>2. CoreRestored
  <2> SUFFICES ASSUME running = {} PROVE down = {} /\ cost = <<>> /\ killed = {}
    BY DEF CoreRestored
  <2>1. HeldDown = {} /\ HeldCosts = {} /\ HeldDead = {}
    BY DEF HeldDown, HeldCosts, HeldDead
  <2>2. DOMAIN cost = {} /\ cost = [i \in {} |-> cost[i]]
    BY <2>1 DEF Recosted
  <2>3. cost = <<>>
    BY <2>2
  <2> QED
    BY <2>1, <2>3 DEF Disturbing
<1>3. OverlapNeedsWholeCut
  BY SinglesApart DEF OverlapNeedsWholeCut, Drawn
<1> QED
  BY <1>1, <1>2, <1>3 DEF RevertsUndoTheirOwn

(* Whatever core faults ran beside whatever, drawn or run by name, their   *)
(* reverts leave nothing down, re-costed or dead, and two that hold one    *)
(* link are not both single interfaces: in every lab whose OSPF costs are  *)
(* the two the orchestrator has written into path_asymmetry.               *)
THEOREM RevertsUndo ==
  ASSUME CostIntra = 10, CostInter = 100
  PROVE  CoreSpec => []RevertsUndoTheirOwn
<1>1. CoreInit => CoreInv
  BY CoreInit1
<1>2. CoreInv /\ [CoreNext]_coreVars => CoreInv'
  BY LinksStep, CostsStep DEF CoreInv
<1>3. CoreInv => RevertsUndoTheirOwn
  BY UndoneWhenDone
<1> QED
  BY <1>1, <1>2, <1>3, PTL DEF CoreSpec

-----------------------------------------------------------------------------
(* The tables others derive from the knobs.                                *)

LEMMA SitesAre ==
  ASSUME NEW b, NEW s
  PROVE  s \in Sites(b) <=>
           \/ s \in SitesOf("branch", b.branch) /\ s.type = "branch"
           \/ s \in SitesOf("hub", b.hub) /\ s.type = "hub"
           \/ s \in SitesOf("dc", b.dc) /\ s.type = "dc"
BY DEF Sites, SitesOf, Site

LEMMA TunnelsArePeerings ==
  ASSUME NEW b
  PROVE  /\ {<<t.site, t.hub>> : t \in Tunnels(b)}
              = {sh \in Sites(b) \X Sites(b) : sh[2] \in WgPeers(b, sh[1]) /\ ~IsHub(sh[1])}
         /\ \A t \in Tunnels(b) : t.hub_wg = WgHost(t.hub)
<1> DEFINE Spokes == SitesOf("branch", b.branch) \cup SitesOf("dc", b.dc)
           Hubs == SitesOf("hub", b.hub)
           tunnel(s, h) == [site |-> s, hub |-> h, hub_wg |-> h.idx]
<1>1. Tunnels(b) = {tunnel(s, h) : s \in Spokes, h \in Hubs}
  BY DEF Tunnels
<1>2. \A s \in Sites(b) : (s \in Spokes <=> ~IsHub(s)) /\ (s \in Hubs <=> IsHub(s))
  BY SitesAre DEF SitesOf, Site, IsHub
<1>3. Spokes \subseteq Sites(b) /\ Hubs \subseteq Sites(b)
  BY DEF Sites
<1>4. \A h \in Hubs : WgHost(h) = h.idx
  BY DEF SitesOf, Site, WgHost
<1> HIDE DEF Spokes, Hubs
<1>5. ASSUME NEW t \in Tunnels(b)
      PROVE  t.site \in Spokes /\ t.hub \in Hubs /\ t.hub_wg = t.hub.idx
  BY <1>1
<1>6. ASSUME NEW s \in Sites(b), NEW h \in Sites(b), ~IsHub(s)
      PROVE  h \in WgPeers(b, s) <=> IsHub(h)
  <2>1. ~ HubPair(b, s, h)
    BY <1>6 DEF HubPair
  <2> QED
    BY <1>6, <2>1 DEF WgPeers, IsHub
<1>7. ASSUME NEW s \in Spokes, NEW h \in Hubs
      PROVE  <<s, h>> \in {<<t.site, t.hub>> : t \in Tunnels(b)}
  <2>1. tunnel(s, h) \in Tunnels(b) /\ tunnel(s, h).site = s /\ tunnel(s, h).hub = h
    BY <1>1
  <2> QED
    BY <2>1
<1> QED
  BY <1>2, <1>3, <1>4, <1>5, <1>6, <1>7

LEMMA PeeringsAreMutual ==
  ASSUME NEW b, NEW s \in Sites(b), NEW t \in Sites(b)
  PROVE  t \in WgPeers(b, s) <=> s \in WgPeers(b, t)
<1>1. {s.idx, t.idx} = {t.idx, s.idx}
  OBVIOUS
<1>2. HubPair(b, s, t) <=> HubPair(b, t, s)
  BY <1>1, Zenon DEF HubPair
<1> QED
  BY <1>2, Zenon DEF WgPeers

LEMMA FacingInPop ==
  ASSUME NEW b \in Knobs, NEW pop \in Int, NEW n \in Int
  PROVE  Facing(b, pop, n) \in PopRouters(b, pop)
<1>1. PICK q \in Nat : q = b.perPop /\ q >= 3
  BY KnobSizes
<1>2. PICK m \in Nat : m = q - 2 /\ m >= 1
  BY <1>1
<1>3. n % m \in 0..(m - 1)
  BY <1>2
<1>4. PICK s, t \in Int : s = (pop - 1) * q /\ t = pop * q /\ s + q = t
  OBVIOUS
<1>5. s + 3 + (n % m) \in (s + 1)..t
  BY <1>1, <1>2, <1>3, <1>4
<1> QED
  BY <1>1, <1>2, <1>4, <1>5 DEF Facing, PopRouters

LEMMA SessionsInGraph ==
  ASSUME NEW b \in Knobs, NEW i \in 1..b.pes, NEW j \in IbgpPeers(b, i)
  PROVE  {i, j} \in GraphIbgp(b)
<1>1. j \in (1..b.pes) \ {i}
  BY DEF IbgpPeers
<1> QED
  BY <1>1 DEF GraphIbgp

LEMMA EdgeSizes ==
  ASSUME NEW b \in Knobs
  PROVE  b.branch \in Nat /\ b.hub \in Nat /\ b.dc \in Nat
BY SizesAssumption

LEMMA SitesOfAre ==
  ASSUME NEW type, NEW n \in Nat
  PROVE  IsFiniteSet(SitesOf(type, n)) /\ Cardinality(SitesOf(type, n)) = n
<1> DEFINE f == [i \in 1..n |-> Site(type, i)]
           Q == SitesOf(type, n)
<1>1. IsFiniteSet(1..n) /\ Cardinality(1..n) = n
  BY FS_Interval
<1>2. \A i, j \in 1..n : Site(type, i) = Site(type, j) => i = j
  BY DEF Site
<1>3. f \in Bijection(1..n, Q)
  <2>1. Q = {Site(type, i) : i \in 1..n}
    BY DEF SitesOf
  <2> HIDE DEF Q
  <2>2. f \in [1..n -> Q] /\ \A t \in Q : \E i \in 1..n : f[i] = t
    BY <2>1
  <2>3. \A i, j \in 1..n : f[i] = f[j] => i = j
    <3>1. \A i \in 1..n : f[i] = Site(type, i)
      OBVIOUS
    <3> HIDE DEF f
    <3> QED
      BY <3>1, <1>2
  <2> HIDE DEF f
  <2>4. f \in Injection(1..n, Q)
    BY <2>2, <2>3 DEF Injection, IsInjective
  <2>5. f \in Surjection(1..n, Q)
    BY <2>2 DEF Surjection
  <2> QED
    BY <2>4, <2>5 DEF Bijection
<1> HIDE DEF f, Q
<1>4. IsFiniteSet(Q) /\ Cardinality(Q) = n
  BY <1>1, <1>3, FS_Bijection DEF ExistsBijection
<1> QED
  BY <1>4 DEF Q

(* The sites' numbers: branches, then hubs, then data centres.             *)
LEMMA LinIs ==
  ASSUME NEW b \in Knobs, NEW s \in Sites(b)
  PROVE  /\ s = Site(s.type, s.idx) /\ s.idx \in Nat /\ s.idx >= 1
         /\ s.type \in {"branch", "hub", "dc"}
         /\ s.type = "branch" => s.idx <= b.branch /\ Lin(b, s) = s.idx - 1
         /\ s.type = "hub" => s.idx <= b.hub /\ Lin(b, s) = s.idx - 1 + b.branch
         /\ s.type = "dc" => s.idx <= b.dc /\ Lin(b, s) = s.idx - 1 + (b.branch + b.hub)
<1>1. /\ s = Site(s.type, s.idx) /\ s.type \in {"branch", "hub", "dc"}
      /\ s.idx \in 1..(IF s.type = "branch" THEN b.branch
                       ELSE IF s.type = "hub" THEN b.hub ELSE b.dc)
  BY DEF Sites, SitesOf, Site
<1>2. b.branch \in Nat /\ b.hub \in Nat /\ b.dc \in Nat
  BY EdgeSizes
<1>3. s.idx \in Nat /\ s.idx >= 1
  BY <1>1, <1>2
<1>4. CASE s.type = "branch"
  BY <1>1, <1>2, <1>3, <1>4 DEF Lin
<1>5. CASE s.type = "hub"
  BY <1>1, <1>2, <1>3, <1>5 DEF Lin
<1>6. CASE s.type = "dc"
  BY <1>1, <1>2, <1>3, <1>6 DEF Lin
<1> QED
  BY <1>1, <1>3, <1>4, <1>5, <1>6

LEMMA LinBounds ==
  ASSUME NEW b \in Knobs, NEW s \in Sites(b)
  PROVE  Lin(b, s) \in Nat /\ Lin(b, s) < b.branch + b.hub + b.dc
BY LinIs, EdgeSizes

LEMMA LinInjective ==
  ASSUME NEW b \in Knobs, NEW s \in Sites(b), NEW t \in Sites(b), Lin(b, s) = Lin(b, t)
  PROVE  s = t
<1>1. s.type = t.type /\ s.idx = t.idx
  BY LinIs, EdgeSizes
<1> QED
  BY <1>1, LinIs

-----------------------------------------------------------------------------
(* The addresses.                                                          *)

LEMMA EdgeAddressesAre ==
  ASSUME NEW b \in Knobs, NEW a \in EdgeAddresses(b)
  PROVE  \/ \E s \in Sites(b) : \E v \in Vrfs(s) :
              \/ a = <<"pe_side", v, Lin(b, s) * 4 + 1, s>>
              \/ a = <<"ce_side", v, Lin(b, s) * 4 + 2, s>>
              \/ a = <<"lan", 0, LanOctet(b, s, v), <<s, v>>>>
         \/ \E s \in Sites(b) : a = <<"wg", 0, WgHost(s), s>>
<1> DEFINE of(s, v) == {<<"pe_side", v, Lin(b, s) * 4 + 1, s>>,
                        <<"ce_side", v, Lin(b, s) * 4 + 2, s>>,
                        <<"lan", 0, LanOctet(b, s, v), <<s, v>>>>}
           site(s) == UNION {of(s, v) : v \in Vrfs(s)}
           lan == UNION {site(s) : s \in Sites(b)}
           wg == {<<"wg", 0, WgHost(s), s>> : s \in Sites(b)}
<1>1. EdgeAddresses(b) = lan \cup wg
  BY Zenon DEF EdgeAddresses
<1>2. CASE a \in lan
  <2>1. PICK s \in Sites(b) : a \in site(s)
    <3> HIDE DEF site
    <3> QED
      BY <1>2
  <2>2. PICK v \in Vrfs(s) : a \in of(s, v)
    <3> HIDE DEF of
    <3> QED
      BY <2>1
  <2> QED
    BY <2>2, Zenon
<1>3. CASE a \in wg
  BY <1>3
<1> HIDE DEF lan, wg
<1> QED
  BY <1>1, <1>2, <1>3

(* Octets of a lab that fits are octets of hosts.                          *)
LEMMA OctetsFit ==
  ASSUME NEW b \in Knobs, Fits(b), NEW a \in EdgeAddresses(b)
  PROVE  a[3] \in (IF a[1] = "lan" THEN 0..255 ELSE 1..254)
<1>1. ASSUME NEW s \in Sites(b)
      PROVE  /\ Lin(b, s) \in Nat /\ Lin(b, s) <= 63
             /\ WgHost(s) \in 1..254
             /\ \A v \in Vrfs(s) : LanOctet(b, s, v) \in 0..255
  <2>1. Lin(b, s) \in Nat
    BY LinBounds
  <2>2. Lin(b, s) * 4 + 2 < 256 /\ \A v \in Vrfs(s) : LanOctet(b, s, v) < 256
    BY DEF Fits
  <2>3. Lin(b, s) <= 63
    BY <2>1, <2>2
  <2>4. s.idx \in Nat /\ s.idx >= 1 /\ s.idx <= 64
    BY <2>1, <2>3, LinIs, EdgeSizes
  <2>5. WgHost(s) \in 1..254
    BY <2>4, LinIs DEF WgHost
  <2>6. \A v \in Vrfs(s) : LanOctet(b, s, v) \in 0..255
    BY <2>1, <2>2 DEF LanOctet, Vrfs
  <2> QED
    BY <2>1, <2>3, <2>5, <2>6
<1>2. CASE \E s \in Sites(b) : \E v \in Vrfs(s) : a = <<"pe_side", v, Lin(b, s) * 4 + 1, s>>
  <2>1. PICK s \in Sites(b) : a[1] = "pe_side" /\ a[3] = Lin(b, s) * 4 + 1
    BY <1>2
  <2> QED
    BY <2>1, <1>1
<1>3. CASE \E s \in Sites(b) : \E v \in Vrfs(s) : a = <<"ce_side", v, Lin(b, s) * 4 + 2, s>>
  <2>1. PICK s \in Sites(b) : a[1] = "ce_side" /\ a[3] = Lin(b, s) * 4 + 2
    BY <1>3
  <2> QED
    BY <2>1, <1>1
<1>4. CASE \E s \in Sites(b) : \E v \in Vrfs(s) : a = <<"lan", 0, LanOctet(b, s, v), <<s, v>>>>
  <2>1. PICK s \in Sites(b) : \E v \in Vrfs(s) : a[1] = "lan" /\ a[3] = LanOctet(b, s, v)
    BY <1>4
  <2> QED
    BY <2>1, <1>1
<1>5. CASE \E s \in Sites(b) : a = <<"wg", 0, WgHost(s), s>>
  <2>1. PICK s \in Sites(b) : a[1] = "wg" /\ a[3] = WgHost(s)
    BY <1>5
  <2> QED
    BY <2>1, <1>1
<1> QED
  BY <1>2, <1>3, <1>4, <1>5, EdgeAddressesAre

Roomy(b) == b.branch + b.hub + b.dc <= 64 /\ b.hub <= 10

LEMMA RoomyFits ==
  ASSUME NEW b \in Knobs, Roomy(b)
  PROVE  Fits(b)
<1>1. ASSUME NEW s \in Sites(b)
      PROVE  Lin(b, s) * 4 + 2 < 256 /\ \A v \in Vrfs(s) : LanOctet(b, s, v) < 256
  <2>1. Lin(b, s) \in Nat /\ Lin(b, s) <= 63
    BY LinBounds, EdgeSizes DEF Roomy
  <2> QED
    BY <2>1 DEF LanOctet, Vrfs
<1> QED
  BY <1>1 DEF Fits

LEMMA WgHostInjective ==
  ASSUME NEW b \in Knobs, Roomy(b), NEW s \in Sites(b), NEW t \in Sites(b),
         WgHost(s) = WgHost(t)
  PROVE  s = t
<1>1. ASSUME NEW u \in Sites(b)
      PROVE  /\ u = Site(u.type, u.idx) /\ u.idx \in Nat
             /\ \/ u.type = "hub" /\ u.idx <= 10 /\ u.idx >= 1 /\ WgHost(u) = u.idx
                \/ u.type = "branch" /\ u.idx <= 64 /\ u.idx >= 1 /\ WgHost(u) = 10 + u.idx
                \/ u.type = "dc" /\ u.idx >= 1 /\ WgHost(u) = 100 + u.idx
  BY LinIs, EdgeSizes DEF Roomy, WgHost
<1>2. s.type = t.type /\ s.idx = t.idx
  BY <1>1
<1> QED
  BY <1>1, <1>2

(* The block and the octet tell an address from every other.               *)
LEMMA EdgeApart ==
  ASSUME NEW b \in Knobs, Roomy(b), NEW a \in EdgeAddresses(b), NEW c \in EdgeAddresses(b),
         a[1] = c[1], a[2] = c[2], a[3] = c[3]
  PROVE  a = c
<1>1. CASE a[1] = "pe_side"
  <2>1. ASSUME NEW x \in EdgeAddresses(b), x[1] = "pe_side"
        PROVE  \E s \in Sites(b) : x = <<"pe_side", x[2], Lin(b, s) * 4 + 1, s>>
    BY <2>1, EdgeAddressesAre
  <2>2. PICK s \in Sites(b) : a = <<"pe_side", a[2], Lin(b, s) * 4 + 1, s>>
    BY <1>1, <2>1
  <2>3. PICK t \in Sites(b) : c = <<"pe_side", c[2], Lin(b, t) * 4 + 1, t>>
    BY <1>1, <2>1
  <2>4. Lin(b, s) = Lin(b, t)
    BY <2>2, <2>3, LinBounds
  <2> QED
    BY <2>2, <2>3, <2>4, LinInjective
<1>2. CASE a[1] = "ce_side"
  <2>1. ASSUME NEW x \in EdgeAddresses(b), x[1] = "ce_side"
        PROVE  \E s \in Sites(b) : x = <<"ce_side", x[2], Lin(b, s) * 4 + 2, s>>
    BY <2>1, EdgeAddressesAre
  <2>2. PICK s \in Sites(b) : a = <<"ce_side", a[2], Lin(b, s) * 4 + 2, s>>
    BY <1>2, <2>1
  <2>3. PICK t \in Sites(b) : c = <<"ce_side", c[2], Lin(b, t) * 4 + 2, t>>
    BY <1>2, <2>1
  <2>4. Lin(b, s) = Lin(b, t)
    BY <2>2, <2>3, LinBounds
  <2> QED
    BY <2>2, <2>3, <2>4, LinInjective
<1>3. CASE a[1] = "lan"
  <2>1. ASSUME NEW x \in EdgeAddresses(b), x[1] = "lan"
        PROVE  \E s \in Sites(b) : \E v \in {0, 1, 2} :
                 x = <<"lan", 0, Lin(b, s) * 4 + v, <<s, v>>>>
    BY <2>1, EdgeAddressesAre DEF LanOctet, Vrfs
  <2>2. PICK s \in Sites(b), v \in {0, 1, 2} : a = <<"lan", 0, Lin(b, s) * 4 + v, <<s, v>>>>
    BY <1>3, <2>1
  <2>3. PICK t \in Sites(b), w \in {0, 1, 2} : c = <<"lan", 0, Lin(b, t) * 4 + w, <<t, w>>>>
    BY <1>3, <2>1
  <2>4. Lin(b, s) * 4 + v = Lin(b, t) * 4 + w
    BY <2>2, <2>3
  <2>5. Lin(b, s) = Lin(b, t) /\ v = w
    <3>1. PICK m, n \in Nat : m = Lin(b, s) /\ n = Lin(b, t)
      BY LinBounds
    <3>2. m * 4 + v = n * 4 + w
      BY <2>4, <3>1
    <3>3. m = n /\ v = w
      BY <3>2
    <3> QED
      BY <3>1, <3>3
  <2> QED
    BY <2>2, <2>3, <2>5, LinInjective
<1>4. CASE a[1] = "wg"
  <2>1. ASSUME NEW x \in EdgeAddresses(b), x[1] = "wg"
        PROVE  \E s \in Sites(b) : x = <<"wg", 0, WgHost(s), s>>
    BY <2>1, EdgeAddressesAre
  <2>2. PICK s \in Sites(b) : a = <<"wg", 0, WgHost(s), s>>
    BY <1>4, <2>1
  <2>3. PICK t \in Sites(b) : c = <<"wg", 0, WgHost(t), t>>
    BY <1>4, <2>1
  <2>4. WgHost(s) = WgHost(t)
    BY <2>2, <2>3
  <2> QED
    BY <2>2, <2>3, <2>4, WgHostInjective
<1>5. a[1] \in {"pe_side", "ce_side", "lan", "wg"}
  BY EdgeAddressesAre
<1> QED
  BY <1>1, <1>2, <1>3, <1>4, <1>5

LEMMA SitesFinite ==
  ASSUME NEW b \in Knobs
  PROVE  IsFiniteSet(Sites(b))
<1>1. /\ IsFiniteSet(SitesOf("branch", b.branch)) /\ IsFiniteSet(SitesOf("hub", b.hub))
      /\ IsFiniteSet(SitesOf("dc", b.dc))
  BY EdgeSizes, SitesOfAre
<1> QED
  BY <1>1, FS_Union DEF Sites

LEMMA EdgeFinite ==
  ASSUME NEW b \in Knobs
  PROVE  IsFiniteSet(EdgeAddresses(b))
<1> DEFINE Kinds == {"pe_side", "ce_side", "lan", "wg"}
           Keys3 == (Sites(b) \X {0, 1, 2}) \X Kinds
           f == [x \in Keys3 |->
                   IF x[2] = "pe_side"
                   THEN <<"pe_side", x[1][2], Lin(b, x[1][1]) * 4 + 1, x[1][1]>>
                   ELSE IF x[2] = "ce_side"
                   THEN <<"ce_side", x[1][2], Lin(b, x[1][1]) * 4 + 2, x[1][1]>>
                   ELSE IF x[2] = "lan"
                   THEN <<"lan", 0, LanOctet(b, x[1][1], x[1][2]), <<x[1][1], x[1][2]>>>>
                   ELSE <<"wg", 0, WgHost(x[1][1]), x[1][1]>>]
           V == {f[x] : x \in Keys3}
<1>1. IsFiniteSet(Keys3)
  <2>1. IsFiniteSet({0, 1, 2}) /\ IsFiniteSet(Kinds)
    <3>1. IsFiniteSet({0}) /\ IsFiniteSet({1}) /\ IsFiniteSet({2})
      BY FS_Singleton
    <3>2. IsFiniteSet({0} \cup {1} \cup {2})
      BY <3>1, FS_Union
    <3>3. {0} \cup {1} \cup {2} = {0, 1, 2}
      OBVIOUS
    <3>4. /\ IsFiniteSet({"pe_side"}) /\ IsFiniteSet({"ce_side"}) /\ IsFiniteSet({"lan"})
          /\ IsFiniteSet({"wg"})
      BY FS_Singleton
    <3>5. IsFiniteSet({"pe_side"} \cup {"ce_side"} \cup {"lan"} \cup {"wg"})
      BY <3>4, FS_Union
    <3>6. {"pe_side"} \cup {"ce_side"} \cup {"lan"} \cup {"wg"} = Kinds
      OBVIOUS
    <3> QED
      BY <3>2, <3>3, <3>5, <3>6
  <2> HIDE DEF Kinds
  <2>2. IsFiniteSet(Sites(b) \X {0, 1, 2})
    BY <2>1, SitesFinite, FS_Product
  <2> QED
    BY <2>1, <2>2, FS_Product
<1>2. f \in Surjection(Keys3, V)
  <2> HIDE DEF Keys3
  <2>1. f \in [Keys3 -> V]
    OBVIOUS
  <2>2. \A t \in V : \E x \in Keys3 : f[x] = t
    OBVIOUS
  <2> HIDE DEF f, V
  <2> QED
    BY <2>1, <2>2 DEF Surjection
<1>3. IsFiniteSet(V)
  <2> HIDE DEF V, f, Keys3
  <2> QED
    BY <1>1, <1>2, FS_Surjection
<1>4. ASSUME NEW s \in Sites(b), NEW v \in {0, 1, 2}
      PROVE  /\ <<"pe_side", v, Lin(b, s) * 4 + 1, s>> \in V
             /\ <<"ce_side", v, Lin(b, s) * 4 + 2, s>> \in V
             /\ <<"lan", 0, LanOctet(b, s, v), <<s, v>>>> \in V
             /\ <<"wg", 0, WgHost(s), s>> \in V
  <2> DEFINE key(n) == <<<<s, v>>, n>>
  <2>1. \A n \in Kinds : key(n) \in Keys3
    OBVIOUS
  <2>2. ASSUME NEW n \in Kinds PROVE f[key(n)] \in V
    <3> HIDE DEF Keys3, f, key
    <3> QED
      BY <2>1
  <2>3. /\ f[key("pe_side")] = <<"pe_side", v, Lin(b, s) * 4 + 1, s>>
        /\ f[key("ce_side")] = <<"ce_side", v, Lin(b, s) * 4 + 2, s>>
        /\ f[key("lan")] = <<"lan", 0, LanOctet(b, s, v), <<s, v>>>>
        /\ f[key("wg")] = <<"wg", 0, WgHost(s), s>>
    <3>1. /\ key("pe_side") \in Keys3 /\ key("ce_side") \in Keys3
          /\ key("lan") \in Keys3 /\ key("wg") \in Keys3
      BY <2>1
    <3> HIDE DEF Keys3
    <3> QED
      BY <3>1
  <2> HIDE DEF key, f, V
  <2> QED
    BY <2>2, <2>3
<1>5. EdgeAddresses(b) \subseteq V
  <2> HIDE DEF V, f, Keys3
  <2>1. \A s \in Sites(b) : Vrfs(s) \subseteq {0, 1, 2} /\ 0 \in {0, 1, 2}
    BY DEF Vrfs
  <2>2. ASSUME NEW a \in EdgeAddresses(b) PROVE a \in V
    <3>1. CASE \E s \in Sites(b) : a = <<"wg", 0, WgHost(s), s>>
      BY <3>1, <2>1, <1>4
    <3>2. CASE \E s \in Sites(b) : \E v \in Vrfs(s) :
                 \/ a = <<"pe_side", v, Lin(b, s) * 4 + 1, s>>
                 \/ a = <<"ce_side", v, Lin(b, s) * 4 + 2, s>>
                 \/ a = <<"lan", 0, LanOctet(b, s, v), <<s, v>>>>
      <4>1. PICK s \in Sites(b), v \in {0, 1, 2} :
                 \/ a = <<"pe_side", v, Lin(b, s) * 4 + 1, s>>
                 \/ a = <<"ce_side", v, Lin(b, s) * 4 + 2, s>>
                 \/ a = <<"lan", 0, LanOctet(b, s, v), <<s, v>>>>
        BY <3>2, <2>1
      <4> QED
        BY <4>1, <1>4
    <3> QED
      BY <3>1, <3>2, EdgeAddressesAre
  <2> QED
    BY <2>2
<1> HIDE DEF V
<1> QED
  BY <1>3, <1>5, FS_Subset

LEMMA IbgpCounts ==
  ASSUME NEW b \in Knobs, NEW i \in 1..b.pes
  PROVE  Cardinality(IbgpPeers(b, i)) = ExpectedIbgp(b, i)
<1>1. b.pes \in Nat /\ b.rr \subseteq 1..b.pes
  BY KnobSizes
<1>2. CASE b.rr # {} /\ i \notin b.rr
  <2>1. b.rr \cap 1..b.pes = b.rr
    BY <1>1
  <2> QED
    BY <1>2, <2>1 DEF IbgpPeers, ExpectedIbgp
<1>3. CASE ~ (b.rr # {} /\ i \notin b.rr)
  <2>1. IsFiniteSet(1..b.pes) /\ Cardinality(1..b.pes) = b.pes
    <3>1. PICK n \in Nat : n = b.pes
      BY <1>1
    <3>2. IsFiniteSet(1..n) /\ Cardinality(1..n) = IF 1 > n THEN 0 ELSE n - 1 + 1
      BY FS_Interval
    <3>3. Cardinality(1..n) = n
      BY <3>2
    <3> QED
      BY <3>1, <3>2, <3>3
  <2>2. Cardinality((1..b.pes) \ {i}) = b.pes - 1
    <3> DEFINE Q == 1..b.pes
    <3> HIDE DEF Q
    <3>1. IsFiniteSet(Q) /\ Cardinality(Q) = b.pes /\ i \in Q
      BY <2>1 DEF Q
    <3>2. Cardinality(Q \ {i}) = b.pes - 1
      BY <3>1, FS_RemoveElement
    <3> QED
      BY <3>2 DEF Q
  <2> QED
    BY <1>3, <2>2 DEF IbgpPeers, ExpectedIbgp
<1> QED
  BY <1>2, <1>3

(* The hub a hub is paired with.                                           *)
LEMMA PairedHub ==
  ASSUME NEW b \in Knobs, NEW s \in Sites(b), IsHub(s)
  PROVE  {t \in Sites(b) : HubPair(b, s, t)}
           = IF b.hubhub /\ (s.idx < b.hub \/ s.idx % 2 = 0)
             THEN {Site("hub", IF s.idx % 2 = 1 THEN s.idx + 1 ELSE s.idx - 1)} ELSE {}
<1> DEFINE o == IF s.idx % 2 = 1 THEN s.idx + 1 ELSE s.idx - 1
<1>1. s.idx \in Nat /\ 1 <= s.idx /\ s.idx <= b.hub /\ b.hub \in Nat /\ s = Site("hub", s.idx)
  BY LinIs, EdgeSizes DEF IsHub
<1>2. s.idx % 2 \in {0, 1}
  BY <1>1
<1>3. ASSUME NEW t \in Sites(b)
      PROVE  HubPair(b, s, t) <=> /\ b.hubhub /\ IsHub(t) /\ t.idx = o
                                  /\ s.idx < b.hub \/ s.idx % 2 = 0
  <2>1. t.idx \in Nat /\ t.idx >= 1 /\ (IsHub(t) => t.idx <= b.hub)
    BY LinIs DEF IsHub
  <2>2. PICK x, y, h \in Nat : x = s.idx /\ y = t.idx /\ h = b.hub
    BY <1>1, <2>1
  <2>3. {x, y} \in {{i, i + 1} : i \in {n \in 1..(h - 1) : n % 2 = 1}}
          <=> \E n \in 1..(h - 1) : n % 2 = 1 /\ {x, y} = {n, n + 1}
    OBVIOUS
  <2>4. ASSUME NEW n \in Nat
        PROVE  {x, y} = {n, n + 1} <=> (x = n /\ y = n + 1) \/ (y = n /\ x = n + 1)
    OBVIOUS
  <2>5. ASSUME y <= h
        PROVE  (\E n \in 1..(h - 1) : n % 2 = 1 /\ {x, y} = {n, n + 1})
                 <=> /\ y = IF x % 2 = 1 THEN x + 1 ELSE x - 1
                     /\ x < h \/ x % 2 = 0
    <3>1. ASSUME NEW n \in 1..(h - 1), n % 2 = 1, {x, y} = {n, n + 1}
          PROVE  /\ y = IF x % 2 = 1 THEN x + 1 ELSE x - 1
                 /\ x < h \/ x % 2 = 0
      <4>1. n \in Nat /\ n < h
        OBVIOUS
      <4>2. (x = n /\ y = n + 1) \/ (y = n /\ x = n + 1)
        BY <3>1, <4>1, <2>4
      <4>3. (n + 1) % 2 = 0
        BY <3>1, <4>1
      <4> QED
        BY <3>1, <4>1, <4>2, <4>3
    <3>2. ASSUME y = (IF x % 2 = 1 THEN x + 1 ELSE x - 1), x < h \/ x % 2 = 0
          PROVE  \E n \in 1..(h - 1) : n % 2 = 1 /\ {x, y} = {n, n + 1}
      <4>1. x >= 1 /\ x <= h
        BY <1>1, <2>2
      <4>2. CASE x % 2 = 1
        <5>1. x < h /\ y = x + 1 /\ x \in 1..(h - 1)
          BY <3>2, <4>1, <4>2
        <5> QED
          BY <4>2, <5>1
      <4>3. CASE x % 2 # 1
        <5>1. y = x - 1 /\ x % 2 = 0
          BY <3>2, <4>3
        <5>2. x >= 2 /\ y % 2 = 1 /\ x = y + 1 /\ y \in 1..(h - 1)
          BY <4>1, <5>1
        <5> QED
          BY <5>2
      <4> QED
        BY <4>2, <4>3
    <3> QED
      BY <3>1, <3>2
  <2>6. IsHub(t) => y <= h
    BY <2>1, <2>2
  <2> QED
    BY <2>2, <2>3, <2>5, <2>6 DEF HubPair
<1>4. CASE b.hubhub /\ (s.idx < b.hub \/ s.idx % 2 = 0)
  <2>1. o \in 1..b.hub
    BY <1>1, <1>2, <1>4
  <2>2. Site("hub", o) \in Sites(b)
    BY <2>1 DEF Sites, SitesOf
  <2>3. IsHub(Site("hub", o)) /\ Site("hub", o).idx = o
    BY DEF IsHub, Site
  <2>4. \A t \in Sites(b) : IsHub(t) /\ t.idx = o <=> t = Site("hub", o)
    BY <2>3, LinIs DEF IsHub
  <2> HIDE DEF o
  <2>5. {t \in Sites(b) : HubPair(b, s, t)} = {Site("hub", o)}
    BY <1>3, <1>4, <2>2, <2>4
  <2> QED
    BY <2>5, <1>4 DEF o
<1>5. CASE ~ (b.hubhub /\ (s.idx < b.hub \/ s.idx % 2 = 0))
  BY <1>3, <1>5
<1> QED
  BY <1>4, <1>5

LEMMA WgCounts ==
  ASSUME NEW b \in Knobs, NEW s \in Sites(b)
  PROVE  Cardinality(WgPeers(b, s)) = ExpectedWg(b, s)
<1> DEFINE B == SitesOf("branch", b.branch)
           H == SitesOf("hub", b.hub)
           D == SitesOf("dc", b.dc)
<1>1. /\ b.branch \in Nat /\ b.hub \in Nat /\ b.dc \in Nat
      /\ IsFiniteSet(B) /\ Cardinality(B) = b.branch
      /\ IsFiniteSet(H) /\ Cardinality(H) = b.hub
      /\ IsFiniteSet(D) /\ Cardinality(D) = b.dc
  BY EdgeSizes, SitesOfAre
<1>2. /\ Sites(b) = B \cup H \cup D
      /\ \A t \in B \cup D : ~ IsHub(t)
      /\ \A t \in H : IsHub(t)
      /\ B \cap D = {}
  <2>1. /\ \A t \in B : t.type = "branch"
        /\ \A t \in H : t.type = "hub"
        /\ \A t \in D : t.type = "dc"
    BY DEF SitesOf, Site
  <2>2. Sites(b) = B \cup H \cup D
    BY DEF Sites
  <2> HIDE DEF B, H, D
  <2> QED
    BY <2>1, <2>2 DEF IsHub
<1> HIDE DEF B, H, D
<1>3. CASE ~ IsHub(s)
  <2>1. \A t \in Sites(b) : ~ HubPair(b, s, t)
    BY <1>3 DEF HubPair
  <2>2. WgPeers(b, s) = H
    BY <1>2, <1>3, <2>1 DEF WgPeers, IsHub
  <2> QED
    BY <1>1, <1>3, <2>2 DEF ExpectedWg
<1>4. CASE IsHub(s)
  <2> DEFINE pair == {t \in Sites(b) : HubPair(b, s, t)}
  <2>1. pair \subseteq H
    <3>1. \A t \in pair : t \in Sites(b) /\ IsHub(t)
      BY DEF HubPair
    <3> HIDE DEF pair
    <3> QED
      BY <3>1, <1>2
  <2>2. WgPeers(b, s) = (B \cup D) \cup pair
    <3>1. \A t \in Sites(b) : t \in WgPeers(b, s) <=> ~ IsHub(t) \/ t \in pair
      BY <1>4 DEF WgPeers, IsHub
    <3>2. WgPeers(b, s) \subseteq Sites(b) /\ pair \subseteq Sites(b)
      BY DEF WgPeers
    <3> HIDE DEF pair
    <3> QED
      BY <3>1, <3>2, <1>2
  <2>3. /\ IsFiniteSet(pair)
        /\ Cardinality(pair) =
             IF b.hubhub /\ (s.idx < b.hub \/ s.idx % 2 = 0) THEN 1 ELSE 0
    <3>1. \A x : IsFiniteSet({x}) /\ Cardinality({x}) = 1
      BY FS_Singleton
    <3>2. IsFiniteSet({}) /\ Cardinality({}) = 0
      BY FS_EmptySet
    <3> QED
      BY <1>4, <3>1, <3>2, PairedHub
  <2> HIDE DEF pair
  <2>4. IsFiniteSet(B \cup D) /\ Cardinality(B \cup D) = b.branch + b.dc
    <3>1. Cardinality(B \cap D) = 0
      BY <1>2, FS_EmptySet
    <3>2. Cardinality(B \cup D) = b.branch + b.dc - 0 /\ IsFiniteSet(B \cup D)
      BY <1>1, <3>1, FS_Union
    <3> QED
      BY <1>1, <3>2
  <2>5. (B \cup D) \cap pair = {}
    BY <1>2, <2>1
  <2>6. Cardinality((B \cup D) \cap pair) = 0
    BY <2>5, FS_EmptySet
  <2>7. Cardinality(WgPeers(b, s)) = b.branch + b.dc + Cardinality(pair) - 0
    BY <2>2, <2>3, <2>4, <2>6, FS_Union
  <2> QED
    BY <1>1, <1>4, <2>3, <2>7 DEF ExpectedWg
<1> QED
  BY <1>3, <1>4

-----------------------------------------------------------------------------
(* The ends of the links: built and replayed are the same.                 *)

LEMMA EndsOfLink ==
  ASSUME NEW at, NEW x, NEW y, x # y
  PROVE  UNION {BothEnds(at, ab[1], ab[2]) :
                  ab \in {pq \in {x, y} \X {x, y} : pq[1] # pq[2]}} = BothEnds(at, x, y)
<1> DEFINE Q == {pq \in {x, y} \X {x, y} : pq[1] # pq[2]}
<1>1. Q = {<<x, y>>, <<y, x>>}
  OBVIOUS
<1> HIDE DEF Q
<1>2. {BothEnds(at, ab[1], ab[2]) : ab \in Q} = {BothEnds(at, x, y), BothEnds(at, y, x)}
  BY <1>1
<1>3. BothEnds(at, x, y) = BothEnds(at, y, x)
  BY DEF BothEnds
<1>4. UNION {BothEnds(at, ab[1], ab[2]) : ab \in Q} = BothEnds(at, x, y)
  BY <1>2, <1>3
<1> QED
  BY <1>4 DEF Q

LinkEnds(links) ==
  UNION {UNION {BothEnds(l.rank, ab[1], ab[2]) :
                  ab \in {pq \in l.ends \X l.ends : pq[1] # pq[2]}} : l \in links}

LEMMA LinkEndsAre ==
  ASSUME NEW links, NEW e
  PROVE  e \in LinkEnds(links) <=>
           \E l \in links : e \in UNION {BothEnds(l.rank, ab[1], ab[2]) :
                                     ab \in {pq \in l.ends \X l.ends : pq[1] # pq[2]}}
<1> DEFINE of(l) == UNION {BothEnds(l.rank, ab[1], ab[2]) :
                             ab \in {pq \in l.ends \X l.ends : pq[1] # pq[2]}}
<1>1. LinkEnds(links) = UNION {of(l) : l \in links}
  BY Zenon DEF LinkEnds
<1> HIDE DEF of
<1>2. e \in LinkEnds(links) <=> \E l \in links : e \in of(l)
  BY <1>1
<1> QED
  BY <1>2 DEF of

(* Links given by their ends, and rounds of a loop that has the same.      *)
LEMMA SameEnds ==
  ASSUME NEW links, NEW l \in links, NEW x, NEW y, x # y, l.ends = {x, y}
  PROVE  BothEnds(l.rank, x, y) \subseteq LinkEnds(links)
<1>1. UNION {BothEnds(l.rank, ab[1], ab[2]) :
               ab \in {pq \in l.ends \X l.ends : pq[1] # pq[2]}} = BothEnds(l.rank, x, y)
  BY EndsOfLink
<1> QED
  BY <1>1, LinkEndsAre

LEMMA EndsAre ==
  ASSUME NEW links, NEW e \in LinkEnds(links),
         \A l \in links : \E x, y : x # y /\ l.ends = {x, y}
  PROVE  \E l \in links : \E x, y : l.ends = {x, y} /\ x # y /\ e \in BothEnds(l.rank, x, y)
<1>1. PICK l \in links : e \in UNION {BothEnds(l.rank, ab[1], ab[2]) :
                                   ab \in {pq \in l.ends \X l.ends : pq[1] # pq[2]}}
  BY LinkEndsAre
<1>2. PICK x, y : x # y /\ l.ends = {x, y}
  OBVIOUS
<1>3. e \in BothEnds(l.rank, x, y)
  BY <1>1, <1>2, EndsOfLink
<1> QED
  BY <1>2, <1>3

LEMMA MeshLinksAre ==
  ASSUME NEW b \in Knobs, NEW l
  PROVE  l \in MeshLinks(b) <=>
           \E pop \in Pops(b) : \E x, y \in PopRouters(b, pop) :
             /\ x[2] < y[2]
             /\ l = [ends |-> {x, y}, cost |-> CostIntra, srlg |-> NoSrlg, joins |-> {},
                     area |-> IF {x, y} = Borders(b, pop) THEN 0 ELSE pop,
                     rank |-> x[2] * 100 + y[2]]
<1> DEFINE link(pop, x, y) ==
      [ends |-> {x, y}, cost |-> CostIntra, srlg |-> NoSrlg, joins |-> {},
       area |-> IF {x, y} = Borders(b, pop) THEN 0 ELSE pop,
       rank |-> x[2] * 100 + y[2]]
           Q(pop) == {pq \in PopRouters(b, pop) \X PopRouters(b, pop) : pq[1][2] < pq[2][2]}
<1>1. MeshLinks(b) = UNION {{link(pop, ab[1], ab[2]) : ab \in Q(pop)} : pop \in Pops(b)}
  BY Zenon DEF MeshLinks
<1>2. ASSUME NEW pop
      PROVE  l \in {link(pop, ab[1], ab[2]) : ab \in Q(pop)} <=>
               \E x, y \in PopRouters(b, pop) : x[2] < y[2] /\ l = link(pop, x, y)
  <2> HIDE DEF link
  <2>1. ASSUME NEW x \in PopRouters(b, pop), NEW y \in PopRouters(b, pop), x[2] < y[2]
        PROVE  \E ab \in Q(pop) : ab[1] = x /\ ab[2] = y
    <3>1. <<x, y>> \in Q(pop)
      BY <2>1
    <3> QED
      BY <3>1
  <2>2. \A ab \in Q(pop) : /\ ab[1] \in PopRouters(b, pop) /\ ab[2] \in PopRouters(b, pop)
                           /\ ab[1][2] < ab[2][2]
    OBVIOUS
  <2> HIDE DEF Q
  <2> QED
    BY <2>1, <2>2
<1> HIDE DEF link, Q
<1>3. l \in MeshLinks(b) <=>
        \E pop \in Pops(b) : \E x, y \in PopRouters(b, pop) : x[2] < y[2] /\ l = link(pop, x, y)
  BY <1>1, <1>2
<1> QED
  BY <1>3 DEF link

(* The routers of a POP, by their place in it.                             *)
LEMMA PopRouterIs ==
  ASSUME NEW b \in Knobs, NEW pop \in Pops(b), NEW x
  PROVE  x \in PopRouters(b, pop) <=>
           \E i \in 1..b.perPop : x = P((pop - 1) * b.perPop + i)
<1>1. PICK s, t, q \in Nat : /\ s = (pop - 1) * b.perPop /\ t = pop * b.perPop
                            /\ q = b.perPop /\ s + q = t
  <2>1. /\ (pop - 1) * b.perPop \in Nat /\ b.perPop \in Nat
        /\ (pop - 1) * b.perPop + b.perPop = pop * b.perPop
    BY PopIndices, KnobSizes
  <2>2. pop * b.perPop \in Nat
    BY <2>1
  <2> QED
    BY <2>1, <2>2
<1>2. \A i \in 1..q : s + i \in (s + 1)..t
  BY <1>1
<1>3. \A n \in (s + 1)..t : n - s \in 1..q /\ s + (n - s) = n
  BY <1>1
<1>4. PopRouters(b, pop) = {P(n) : n \in (s + 1)..t}
  BY <1>1 DEF PopRouters
<1> HIDE DEF P
<1>5. x \in {P(n) : n \in (s + 1)..t} <=> \E i \in 1..q : x = P(s + i)
  BY <1>2, <1>3 DEF P
<1> QED
  BY <1>1, <1>4, <1>5

LEMMA MeshReplayed ==
  ASSUME NEW b \in Knobs
  PROVE  LinkEnds(MeshLinks(b)) = ReplayedMesh(b)
<1> DEFINE p(pop, i) == (pop - 1) * b.perPop + i
           round(pop, i, j) == BothEnds(100 * p(pop, i) + p(pop, j), P(p(pop, i)), P(p(pop, j)))
<1>0. ASSUME NEW pop \in Pops(b)
      PROVE  (pop - 1) * b.perPop \in Nat /\ b.perPop \in Nat
  BY PopIndices, KnobSizes
<1>1. ASSUME NEW e
      PROVE  e \in ReplayedMesh(b) <=>
               \E pop \in Pops(b) : \E i \in 1..b.perPop : \E j \in (i + 1)..b.perPop :
                 e \in round(pop, i, j)
  <2> DEFINE inner(pop, i) == UNION {round(pop, i, j) : j \in (i + 1)..b.perPop}
  <2>1. ReplayedMesh(b) = UNION {inner(pop, i) : pop \in Pops(b), i \in 1..b.perPop}
    BY DEF ReplayedMesh
  <2> HIDE DEF round, p
  <2>2. \A pop, i : e \in inner(pop, i) <=> \E j \in (i + 1)..b.perPop : e \in round(pop, i, j)
    OBVIOUS
  <2> HIDE DEF inner
  <2> QED
    BY <2>1, <2>2
<1>2. ASSUME NEW l \in MeshLinks(b)
      PROVE  \E pop \in Pops(b) : \E i \in 1..b.perPop : \E j \in (i + 1)..b.perPop :
               /\ l.ends = {P(p(pop, i)), P(p(pop, j))}
               /\ P(p(pop, i)) # P(p(pop, j))
               /\ l.rank = 100 * p(pop, i) + p(pop, j)
  <2>1. PICK pop \in Pops(b) : \E x, y \in PopRouters(b, pop) :
          x[2] < y[2] /\ l.ends = {x, y} /\ l.rank = x[2] * 100 + y[2]
    BY MeshLinksAre
  <2>2. PICK x, y \in PopRouters(b, pop) :
          x[2] < y[2] /\ l.ends = {x, y} /\ l.rank = x[2] * 100 + y[2]
    BY <2>1
  <2>3. PICK i, j \in 1..b.perPop : x = P(p(pop, i)) /\ y = P(p(pop, j))
    BY PopRouterIs
  <2>4. x[2] = p(pop, i) /\ y[2] = p(pop, j)
    BY <2>3 DEF P
  <2>5. PICK s, q \in Nat : s = (pop - 1) * b.perPop /\ q = b.perPop
    BY <1>0
  <2>6. i \in Nat /\ j \in Nat /\ p(pop, i) = s + i /\ p(pop, j) = s + j
    BY <2>5
  <2>7. i < j
    BY <2>2, <2>4, <2>6
  <2>8. j \in (i + 1)..b.perPop
    BY <2>7, <2>6, <2>5
  <2>9. l.rank = 100 * p(pop, i) + p(pop, j)
    BY <2>2, <2>4, <2>6
  <2>10. x # y
    BY <2>2, <2>4, <2>6
  <2> HIDE DEF p
  <2> QED
    BY <2>2, <2>3, <2>8, <2>9, <2>10
<1>3. ASSUME NEW pop \in Pops(b), NEW i \in 1..b.perPop, NEW j \in (i + 1)..b.perPop
      PROVE  \E l \in MeshLinks(b) : /\ l.ends = {P(p(pop, i)), P(p(pop, j))}
                                     /\ P(p(pop, i)) # P(p(pop, j))
                                     /\ l.rank = 100 * p(pop, i) + p(pop, j)
  <2>1. PICK s, q \in Nat : s = (pop - 1) * b.perPop /\ q = b.perPop
    BY <1>0
  <2>2. i \in Nat /\ j \in Nat /\ i < j /\ j \in 1..b.perPop
    BY <2>1
  <2>3. p(pop, i) = s + i /\ p(pop, j) = s + j
    BY <2>1
  <2>4. P(p(pop, i)) \in PopRouters(b, pop) /\ P(p(pop, j)) \in PopRouters(b, pop)
    BY <2>2, PopRouterIs
  <2>5. P(p(pop, i))[2] = s + i /\ P(p(pop, j))[2] = s + j
    BY <2>3 DEF P
  <2> DEFINE x == P(p(pop, i))
             y == P(p(pop, j))
             l == [ends |-> {x, y}, cost |-> CostIntra, srlg |-> NoSrlg, joins |-> {},
                   area |-> IF {x, y} = Borders(b, pop) THEN 0 ELSE pop,
                   rank |-> x[2] * 100 + y[2]]
  <2>6. x[2] < y[2]
    BY <2>2, <2>5
  <2>7. l \in MeshLinks(b)
    <3> HIDE DEF x, y
    <3>1. x \in PopRouters(b, pop) /\ y \in PopRouters(b, pop)
      BY <2>4 DEF x, y
    <3> QED
      BY <3>1, <2>6, MeshLinksAre
  <2>8. l.ends = {x, y} /\ l.rank = 100 * p(pop, i) + p(pop, j)
    BY <2>2, <2>3, <2>5
  <2>9. x # y
    BY <2>2, <2>5
  <2> QED
    BY <2>7, <2>8, <2>9
<1> HIDE DEF p
<1>4. \A l \in MeshLinks(b) : \E x, y : x # y /\ l.ends = {x, y}
  BY <1>2
<1>5. ASSUME NEW e \in LinkEnds(MeshLinks(b))
      PROVE  e \in ReplayedMesh(b)
  <2>1. PICK l \in MeshLinks(b) : e \in UNION {BothEnds(l.rank, ab[1], ab[2]) :
                                    ab \in {pq \in l.ends \X l.ends : pq[1] # pq[2]}}
    BY LinkEndsAre
  <2>2. PICK pop \in Pops(b), i \in 1..b.perPop : \E j \in (i + 1)..b.perPop :
          /\ l.ends = {P(p(pop, i)), P(p(pop, j))}
          /\ P(p(pop, i)) # P(p(pop, j))
          /\ l.rank = 100 * p(pop, i) + p(pop, j)
    BY <1>2
  <2>3. PICK j \in (i + 1)..b.perPop :
          /\ l.ends = {P(p(pop, i)), P(p(pop, j))}
          /\ P(p(pop, i)) # P(p(pop, j))
          /\ l.rank = 100 * p(pop, i) + p(pop, j)
    BY <2>2
  <2>4. e \in round(pop, i, j)
    BY <2>1, <2>3, EndsOfLink
  <2> QED
    BY <2>4, <1>1
<1>6. ASSUME NEW e \in ReplayedMesh(b)
      PROVE  e \in LinkEnds(MeshLinks(b))
  <2>1. PICK pop \in Pops(b), i \in 1..b.perPop : \E j \in (i + 1)..b.perPop :
          e \in round(pop, i, j)
    BY <1>1
  <2>2. PICK j \in (i + 1)..b.perPop : e \in round(pop, i, j)
    BY <2>1
  <2>3. PICK l \in MeshLinks(b) : /\ l.ends = {P(p(pop, i)), P(p(pop, j))}
                                  /\ P(p(pop, i)) # P(p(pop, j))
                                  /\ l.rank = 100 * p(pop, i) + p(pop, j)
    BY <1>3
  <2> QED
    BY <2>2, <2>3, SameEnds
<1> QED
  BY <1>5, <1>6

(* An adjacency joins two POPs.                                            *)
LEMMA AdjacencyJoins ==
  ASSUME NEW b \in Knobs, NEW n \in Adjacencies(b)
  PROVE  \E x, y \in Pops(b) : x < y /\ Adjacency(b, n) = {x, y}
<1>1. PICK m, c \in Nat : m = b.pops /\ c = Len(b.chords)
  BY KnobSizes
<1>2. n \in Nat /\ n >= 1 /\ n <= m + c
  BY <1>1 DEF Adjacencies
<1>3. \E x, y \in Pops(b) : x # y /\ Adjacency(b, n) = {x, y}
  <2>1. CASE n <= m
    <3>1. m # 1
      BY <1>1, NamesAssumption
    <3>2. n % m \in 0..(m - 1) /\ (n < m => n % m = n) /\ (n = m => n % m = 0)
      BY <1>2, <2>1
    <3>3. (n % m) + 1 \in 1..m /\ n \in 1..m /\ (n % m) + 1 # n
      BY <1>2, <2>1, <3>1, <3>2
    <3>4. Adjacency(b, n) = {n, (n % m) + 1}
      BY <1>1, <2>1 DEF Adjacency
    <3> QED
      BY <1>1, <3>3, <3>4 DEF Pops
  <2>2. CASE n > m
    <3>1. PICK i \in 1..c : i = n - m
      BY <1>2, <2>2
    <3>2. i \in DOMAIN b.chords
      <4> DEFINE Q == Pops(b) \X Pops(b)
      <4>1. b.chords \in Seq(Q)
        BY NamesAssumption
      <4> HIDE DEF Q
      <4> QED
        BY <1>1, <3>1, <4>1
    <3>3. b.chords[i] \in Pops(b) \X Pops(b)
      <4> DEFINE Q == Pops(b) \X Pops(b)
      <4>1. b.chords \in Seq(Q)
        BY NamesAssumption
      <4> HIDE DEF Q
      <4>2. b.chords[i] \in Q
        BY <3>2, <4>1
      <4> QED
        BY <4>2 DEF Q
    <3>4. b.chords[i][1] # b.chords[i][2]
      BY <3>2, NamesAssumption
    <3>5. Adjacency(b, n) = {b.chords[i][1], b.chords[i][2]}
      BY <1>1, <1>2, <2>2, <3>1 DEF Adjacency
    <3> QED
      BY <3>3, <3>4, <3>5
  <2> QED
    BY <1>1, <1>2, <2>1, <2>2
<1>4. PICK x, y \in Pops(b) : x # y /\ Adjacency(b, n) = {x, y}
  BY <1>3
<1>5. x \in Nat /\ y \in Nat /\ {x, y} = {y, x}
  BY <1>1 DEF Pops
<1> QED
  BY <1>4, <1>5

LEMMA LeastOfPair ==
  ASSUME NEW x \in Nat, NEW y \in Nat, x < y
  PROVE  Least({x, y}) = x /\ Greatest({x, y}) = y
BY DEF Least, Greatest

LEMMA BordersApart ==
  ASSUME NEW b \in Knobs, NEW x \in Pops(b), NEW y \in Pops(b), x < y, NEW c \in Nat
  PROVE  P((x - 1) * b.perPop + c) # P((y - 1) * b.perPop + c)
<1>1. PICK q, m \in Nat : q = b.perPop /\ q >= 3 /\ m = b.pops
  BY KnobSizes
<1>2. x \in Nat /\ y \in Nat /\ x >= 1
  BY <1>1 DEF Pops
<1>3. PICK u, d \in Nat : x - 1 = u /\ y - 1 = u + d /\ d >= 1
  <2>1. x - 1 \in Nat /\ y - x \in Nat /\ y - x >= 1 /\ y - 1 = (x - 1) + (y - x)
    BY <1>2
  <2> QED
    BY <2>1
<1>4. (u + d) * q = u * q + d * q
  OBVIOUS
<1>5. d * q >= q
  <2>1. PICK e \in Nat : d = e + 1
    <3>1. d - 1 \in Nat /\ d = (d - 1) + 1
      BY <1>3
    <3> QED
      BY <3>1
  <2>2. (e + 1) * q = e * q + q /\ e * q >= 0
    BY <2>1
  <2> QED
    BY <2>1, <2>2
<1>6. u * q \in Nat /\ d * q \in Nat
  OBVIOUS
<1>7. (x - 1) * q + c # (y - 1) * q + c
  BY <1>1, <1>3, <1>4, <1>5, <1>6
<1> QED
  BY <1>1, <1>7 DEF P

LEMMA ConcatIs ==
  ASSUME NEW V, NEW s \in Seq(V), NEW t \in Seq(V), NEW m \in Nat, NEW c \in Nat,
         Len(s) = m, Len(t) = c
  PROVE  /\ s \o t \in Seq(V) /\ Len(s \o t) = m + c
         /\ DOMAIN (s \o t) = 1..(m + c)
         /\ \A n \in 1..(m + c) : (s \o t)[n] = IF n <= m THEN s[n] ELSE t[n - m]
<1>1. s \o t \in Seq(V) /\ Len(s \o t) = m + c /\ DOMAIN (s \o t) = 1..(m + c)
  OBVIOUS
<1>2. \A n \in 1..(m + c) : (s \o t)[n] = IF n <= m THEN s[n] ELSE t[n - m]
  OBVIOUS
<1> QED
  BY <1>1, <1>2

Joined(b) == [n \in 1..b.pops |-> <<n, (n % b.pops) + 1>>] \o b.chords

LEMMA JoinedIs ==
  ASSUME NEW b \in Knobs
  PROVE  /\ DOMAIN Joined(b) = Adjacencies(b)
         /\ \A n \in Adjacencies(b) : {Joined(b)[n][1], Joined(b)[n][2]} = Adjacency(b, n)
<1> DEFINE ring == [n \in 1..b.pops |-> <<n, (n % b.pops) + 1>>]
           V == {ring[n] : n \in 1..b.pops} \cup (Pops(b) \X Pops(b))
<1>1. PICK m, c \in Nat : m = b.pops /\ c = Len(b.chords)
  BY KnobSizes
<1>2. ring \in Seq(V) /\ Len(ring) = m
  <2>1. ring \in [1..m -> V]
    BY <1>1
  <2> HIDE DEF ring, V
  <2> QED
    BY <2>1
<1>3. b.chords \in Seq(V)
  <2> DEFINE Q == Pops(b) \X Pops(b)
  <2>1. b.chords \in Seq(Q)
    BY NamesAssumption
  <2>2. Q \subseteq V
    OBVIOUS
  <2> HIDE DEF Q, V, ring
  <2> QED
    BY <2>1, <2>2
<1>4. \A n \in 1..b.pops : ring[n] = <<n, (n % b.pops) + 1>>
  OBVIOUS
<1>5. Joined(b) = ring \o b.chords
  BY DEF Joined
<1> HIDE DEF ring, V
<1>6. /\ DOMAIN Joined(b) = 1..(m + c)
      /\ \A n \in 1..(m + c) : Joined(b)[n] = IF n <= m THEN ring[n] ELSE b.chords[n - m]
  <2>1. Len(b.chords) = c
    BY <1>1
  <2> QED
    BY <1>2, <1>3, <1>5, <2>1, ConcatIs, SMTT(30)
<1>7. Adjacencies(b) = 1..(m + c)
  BY <1>1 DEF Adjacencies
<1>8. ASSUME NEW n \in 1..(m + c)
      PROVE  {Joined(b)[n][1], Joined(b)[n][2]} = Adjacency(b, n)
  <2>1. n \in Nat
    BY <1>1
  <2>2. CASE n <= m
    <3>1. Joined(b)[n] = ring[n]
      BY <1>6, <2>2
    <3>2. ring[n] = <<n, (n % b.pops) + 1>>
      BY <1>1, <1>4, <2>1, <2>2
    <3> QED
      BY <1>1, <2>2, <3>1, <3>2, SMTT(30) DEF Adjacency
  <2>3. CASE ~ (n <= m)
    <3>1. Joined(b)[n] = b.chords[n - m]
      BY <1>6, <2>3
    <3>2. Adjacency(b, n) = {b.chords[n - m][1], b.chords[n - m][2]}
      BY <1>1, <2>1, <2>3, SMTT(30) DEF Adjacency
    <3> QED
      BY <3>1, <3>2
  <2> QED
    BY <2>2, <2>3
<1> QED
  BY <1>6, <1>7, <1>8

LEMMA BackboneReplayed ==
  ASSUME NEW b \in Knobs
  PROVE  LinkEnds(BackboneLinks(b)) = ReplayedBackbone(b)
<1> DEFINE R == 0..(b.redundancy - 1)
           at(n, r) == 10000 + 10 * n + r
           first(n) == Least({Joined(b)[n][1], Joined(b)[n][2]})
           last(n) == Greatest({Joined(b)[n][1], Joined(b)[n][2]})
           end(pop, r) == P((pop - 1) * b.perPop + (r % 2) + 1)
           round(n, r) == BothEnds(at(n, r), end(first(n), r), end(last(n), r))
<1>1. ASSUME NEW e
      PROVE  e \in ReplayedBackbone(b) <=>
               \E n \in Adjacencies(b) : \E r \in R : e \in round(n, r)
  <2>1. ReplayedBackbone(b) = UNION {round(n, r) : n \in DOMAIN Joined(b), r \in R}
    BY DEF ReplayedBackbone, Joined
  <2>2. DOMAIN Joined(b) = Adjacencies(b)
    BY JoinedIs
  <2> HIDE DEF round, R
  <2> QED
    BY <2>1, <2>2
<1>2. ASSUME NEW n \in Adjacencies(b), NEW r \in R
      PROVE  /\ end(first(n), r) # end(last(n), r)
             /\ {Border(b, pop, (r % 2) + 1) : pop \in Adjacency(b, n)}
                  = {end(first(n), r), end(last(n), r)}
  <2>1. PICK x, y \in Pops(b) : x < y /\ Adjacency(b, n) = {x, y}
    BY AdjacencyJoins
  <2>2. x \in Nat /\ y \in Nat
    BY KnobSizes DEF Pops
  <2>3. first(n) = x /\ last(n) = y
    BY <2>1, <2>2, JoinedIs, LeastOfPair
  <2>4. r \in Nat /\ (r % 2) + 1 \in Nat
    BY KnobSizes
  <2>5. ASSUME NEW pop \in Pops(b)
        PROVE  end(pop, r) = P((pop - 1) * b.perPop + ((r % 2) + 1))
    <3>1. PICK s \in Nat : s = (pop - 1) * b.perPop
      BY PopIndices
    <3>2. s + (r % 2) + 1 = s + ((r % 2) + 1)
      BY <2>4, <3>1
    <3> QED
      BY <3>1, <3>2
  <2>6. end(x, r) # end(y, r)
    BY <2>1, <2>4, <2>5, BordersApart
  <2>7. \A pop \in {x, y} : Border(b, pop, (r % 2) + 1) = end(pop, r)
    BY <2>5 DEF Border
  <2> HIDE DEF end, first, last
  <2> QED
    BY <2>1, <2>3, <2>6, <2>7
<1>3. ASSUME NEW l \in BackboneLinks(b)
      PROVE  \E n \in Adjacencies(b) : \E r \in R :
               /\ l.ends = {end(first(n), r), end(last(n), r)}
               /\ end(first(n), r) # end(last(n), r)
               /\ l.rank = at(n, r)
  <2>1. PICK n \in Adjacencies(b), r \in R :
          /\ l.ends = {Border(b, pop, (r % 2) + 1) : pop \in Adjacency(b, n)}
          /\ l.rank = at(n, r)
    BY DEF BackboneLinks
  <2> HIDE DEF end, first, last, at, R
  <2> QED
    BY <2>1, <1>2
<1>4. ASSUME NEW n \in Adjacencies(b), NEW r \in R
      PROVE  \E l \in BackboneLinks(b) :
               /\ l.ends = {end(first(n), r), end(last(n), r)}
               /\ end(first(n), r) # end(last(n), r)
               /\ l.rank = at(n, r)
  <2> DEFINE l == [ends |-> {Border(b, pop, (r % 2) + 1) : pop \in Adjacency(b, n)},
                   cost |-> CostInter, area |-> 0,
                   srlg |-> SrlgOf(Adjacency(b, n)), joins |-> Adjacency(b, n),
                   rank |-> at(n, r)]
  <2>1. l \in BackboneLinks(b)
    <3> DEFINE link(m, s) == [ends |-> {Border(b, pop, (s % 2) + 1) : pop \in Adjacency(b, m)},
                              cost |-> CostInter, area |-> 0,
                              srlg |-> SrlgOf(Adjacency(b, m)), joins |-> Adjacency(b, m),
                              rank |-> 10000 + 10 * m + s]
    <3>1. BackboneLinks(b) = {link(m, s) : m \in Adjacencies(b), s \in 0..(b.redundancy - 1)}
      BY DEF BackboneLinks
    <3>2. l = link(n, r)
      OBVIOUS
    <3> HIDE DEF link, l
    <3> QED
      BY <3>1, <3>2
  <2>2. /\ l.ends = {Border(b, pop, (r % 2) + 1) : pop \in Adjacency(b, n)}
        /\ l.rank = at(n, r)
    OBVIOUS
  <2> HIDE DEF l, end, first, last, at, R
  <2> QED
    BY <2>1, <2>2, <1>2
<1> HIDE DEF end, first, last, at, R
<1>5. ASSUME NEW e \in LinkEnds(BackboneLinks(b))
      PROVE  e \in ReplayedBackbone(b)
  <2>1. PICK l \in BackboneLinks(b) : e \in UNION {BothEnds(l.rank, ab[1], ab[2]) :
                                    ab \in {pq \in l.ends \X l.ends : pq[1] # pq[2]}}
    BY LinkEndsAre
  <2>2. PICK n \in Adjacencies(b), r \in R :
               /\ l.ends = {end(first(n), r), end(last(n), r)}
               /\ end(first(n), r) # end(last(n), r)
               /\ l.rank = at(n, r)
    BY <1>3
  <2>3. e \in round(n, r)
    BY <2>1, <2>2, EndsOfLink
  <2> QED
    BY <2>3, <1>1
<1>6. ASSUME NEW e \in ReplayedBackbone(b)
      PROVE  e \in LinkEnds(BackboneLinks(b))
  <2>1. PICK n \in Adjacencies(b), r \in R : e \in round(n, r)
    BY <1>1
  <2>2. PICK l \in BackboneLinks(b) :
               /\ l.ends = {end(first(n), r), end(last(n), r)}
               /\ end(first(n), r) # end(last(n), r)
               /\ l.rank = at(n, r)
    BY <1>4
  <2> QED
    BY <2>1, <2>2, SameEnds
<1> QED
  BY <1>5, <1>6

LEMMA PesReplayed ==
  ASSUME NEW b \in Knobs
  PROVE  LinkEnds(PeLinks(b)) = ReplayedPes(b)
<1> DEFINE pop(i) == ((i - 1) * b.pops) \div b.pes + 1
           facing == [i \in 1..b.pes |->
                        [n \in 1..(b.perPop - 2) |-> P((pop(i) - 1) * b.perPop + 2 + n)]]
           up(i, n) == facing[i][(n % Len(facing[i])) + 1]
           round(i) == BothEnds(20000 + 10 * i, Pe(i), up(i, i - 1))
                       \cup (IF b.dual /\ Len(facing[i]) > 1
                             THEN BothEnds(20001 + 10 * i, Pe(i), up(i, i)) ELSE {})
           H == IF b.dual /\ b.perPop > 3 THEN {0, 1} ELSE {0}
           to(i, h) == Facing(b, PePop(b, i), i - 1 + h)
           at(i, h) == 20000 + 10 * i + h
           end(i, h) == BothEnds(at(i, h), Pe(i), to(i, h))
<1>1. ReplayedPes(b) = UNION {round(i) : i \in 1..b.pes}
  BY DEF ReplayedPes
<1>2. ASSUME NEW i \in 1..b.pes, NEW n \in Nat
      PROVE  /\ Len(facing[i]) = b.perPop - 2
             /\ up(i, n) = Facing(b, PePop(b, i), n)
  <2>1. PICK q, m \in Nat : q = b.perPop /\ q >= 3 /\ m = q - 2
    <3>1. b.perPop - 2 \in Nat
      BY KnobSizes
    <3> QED
      BY <3>1, KnobSizes
  <2> DEFINE mine == [j \in 1..m |-> P((pop(i) - 1) * q + 2 + j)]
  <2>2. facing[i] = mine
    BY <2>1
  <2>3. Len(mine) = m
    <3>1. mine \in [1..m -> {mine[j] : j \in 1..m}]
      OBVIOUS
    <3>2. DOMAIN mine = 1..m
      OBVIOUS
    <3> HIDE DEF mine
    <3> QED
      BY <3>1, <3>2, <2>1
  <2>4. n % m \in 0..(m - 1) /\ (n % m) + 1 \in 1..m
    BY <2>1
  <2>5. mine[(n % m) + 1] = P((pop(i) - 1) * q + 2 + ((n % m) + 1))
    BY <2>4
  <2>6. pop(i) = PePop(b, i) /\ PePop(b, i) \in Int
    <3>1. PICK w, z \in Nat : w = b.pes /\ z = b.pops
      BY KnobSizes
    <3>2. i \in Nat /\ w >= 1 /\ (i - 1) * z \in Int
      BY <3>1
    <3>3. ((i - 1) * z) \div w \in Int
      BY <3>1, <3>2
    <3> QED
      BY <3>1, <3>3 DEF PePop
  <2>7. PICK s \in Int : s = (PePop(b, i) - 1) * q
    BY <2>1, <2>6
  <2>8. s + 2 + ((n % m) + 1) = s + 3 + (n % m)
    BY <2>4, <2>7
  <2>9. up(i, n) = mine[(n % m) + 1]
    BY <2>2, <2>3
  <2> HIDE DEF pop, facing, mine, up
  <2> QED
    BY <2>1, <2>2, <2>3, <2>5, <2>6, <2>7, <2>8, <2>9 DEF Facing
<1>3. ASSUME NEW i \in 1..b.pes
      PROVE  round(i) = UNION {end(i, h) : h \in H}
  <2>1. i \in Nat /\ i - 1 \in Nat /\ i - 1 + 0 = i - 1 /\ i - 1 + 1 = i
    BY KnobSizes
  <2>2. end(i, 0) = BothEnds(20000 + 10 * i, Pe(i), up(i, i - 1))
    <3>1. 20000 + 10 * i + 0 = 20000 + 10 * i
      BY <2>1
    <3> HIDE DEF facing, up
    <3> QED
      BY <2>1, <3>1, <1>2
  <2>3. end(i, 1) = BothEnds(20001 + 10 * i, Pe(i), up(i, i))
    <3>1. 20000 + 10 * i + 1 = 20001 + 10 * i
      BY <2>1
    <3> HIDE DEF facing, up
    <3> QED
      BY <2>1, <3>1, <1>2
  <2>4. Len(facing[i]) > 1 <=> b.perPop > 3
    <3> HIDE DEF facing, up
    <3> QED
      BY <1>2, KnobSizes
  <2>5. CASE b.dual /\ b.perPop > 3
    <3>1. round(i) = end(i, 0) \cup end(i, 1)
      <4> HIDE DEF end, facing, up
      <4> QED
        BY <2>2, <2>3, <2>4, <2>5
    <3>2. H = {0, 1}
      BY <2>5
    <3> HIDE DEF end, round, H
    <3> QED
      BY <3>1, <3>2
  <2>6. CASE ~ (b.dual /\ b.perPop > 3)
    <3>1. round(i) = end(i, 0)
      <4> HIDE DEF end, facing, up
      <4> QED
        BY <2>2, <2>4, <2>6
    <3>2. H = {0}
      BY <2>6
    <3> HIDE DEF end, round, H
    <3> QED
      BY <3>1, <3>2
  <2> HIDE DEF end, round, H
  <2> QED
    BY <2>5, <2>6
<1> HIDE DEF round, H
<1>4. ASSUME NEW l \in PeLinks(b)
      PROVE  \E i \in 1..b.pes : \E h \in H :
               /\ l.ends = {Pe(i), to(i, h)}
               /\ l.rank = at(i, h)
  BY DEF PeLinks, H
<1>5. ASSUME NEW i \in 1..b.pes, NEW h \in H
      PROVE  \E l \in PeLinks(b) :
               /\ l.ends = {Pe(i), to(i, h)}
               /\ l.rank = at(i, h)
  <2> DEFINE l == [ends |-> {Pe(i), Facing(b, PePop(b, i), i - 1 + h)},
                   cost |-> CostIntra, srlg |-> NoSrlg, joins |-> {}, area |-> PePop(b, i),
                   rank |-> 20000 + 10 * i + h]
  <2>1. l \in PeLinks(b)
    <3> DEFINE link(j, g) == [ends |-> {Pe(j), Facing(b, PePop(b, j), j - 1 + g)},
                              cost |-> CostIntra, srlg |-> NoSrlg, joins |-> {},
                              area |-> PePop(b, j), rank |-> 20000 + 10 * j + g]
    <3>1. PeLinks(b) = {link(j, g) : j \in 1..b.pes, g \in H}
      BY DEF PeLinks, H
    <3>2. l = link(i, h)
      OBVIOUS
    <3> HIDE DEF link, l
    <3> QED
      BY <3>1, <3>2
  <2> QED
    BY <2>1
<1>6. \A i, h : Pe(i) # to(i, h)
  BY DEF Pe, Facing, P
<1> HIDE DEF to, at
<1>7. ASSUME NEW e \in LinkEnds(PeLinks(b))
      PROVE  e \in ReplayedPes(b)
  <2>1. PICK l \in PeLinks(b) : e \in UNION {BothEnds(l.rank, ab[1], ab[2]) :
                                    ab \in {pq \in l.ends \X l.ends : pq[1] # pq[2]}}
    BY LinkEndsAre
  <2>2. PICK i \in 1..b.pes, h \in H :
               /\ l.ends = {Pe(i), to(i, h)}
               /\ l.rank = at(i, h)
    BY <1>4
  <2>3. e \in end(i, h)
    BY <2>1, <2>2, <1>6, EndsOfLink
  <2> HIDE DEF end
  <2> QED
    BY <2>3, <1>1, <1>3
<1>8. ASSUME NEW e \in ReplayedPes(b)
      PROVE  e \in LinkEnds(PeLinks(b))
  <2>1. PICK i \in 1..b.pes, h \in H : e \in end(i, h)
    <3> HIDE DEF end
    <3> QED
      BY <1>1, <1>3
  <2>2. PICK l \in PeLinks(b) :
               /\ l.ends = {Pe(i), to(i, h)}
               /\ l.rank = at(i, h)
    BY <1>5
  <2>3. BothEnds(l.rank, Pe(i), to(i, h)) \subseteq LinkEnds(PeLinks(b))
    BY <2>2, <1>6, SameEnds
  <2> QED
    BY <2>1, <2>2, <2>3
<1> QED
  BY <1>7, <1>8

LEMMA CountedUp ==
  ASSUME NEW n \in Nat, NEW type, NEW V, \A i \in 1..n : Site(type, i) \in V
  PROVE  LET f == [i \in 1..n |-> Site(type, i)]
         IN  f \in Seq(V) /\ Len(f) = n /\ \A i \in 1..n : f[i] = Site(type, i)
<1> DEFINE f == [i \in 1..n |-> Site(type, i)]
<1>1. f \in [1..n -> V] /\ \A i \in 1..n : f[i] = Site(type, i)
  OBVIOUS
<1> HIDE DEF f
<1>2. f \in Seq(V) /\ Len(f) = n
  BY <1>1
<1> QED
  BY <1>1, <1>2 DEF f

(* The n-th site is the one numbered n - 1.                                *)
LEMMA OrderIsLin ==
  ASSUME NEW b \in Knobs
  PROVE  /\ DOMAIN SitesInOrder(b) = 1..(b.branch + b.hub + b.dc)
         /\ \A n \in DOMAIN SitesInOrder(b) :
              SitesInOrder(b)[n] \in Sites(b) /\ Lin(b, SitesInOrder(b)[n]) = n - 1
         /\ \A s \in Sites(b) : \E n \in DOMAIN SitesInOrder(b) : SitesInOrder(b)[n] = s
<1> DEFINE f == [i \in 1..b.branch |-> Site("branch", i)]
           g == [i \in 1..b.hub |-> Site("hub", i)]
           h == [i \in 1..b.dc |-> Site("dc", i)]
           V == Sites(b)
<1>1. PICK m, p, q \in Nat : m = b.branch /\ p = b.hub /\ q = b.dc
  BY EdgeSizes
<1>2. /\ \A i \in 1..m : Site("branch", i) \in V
      /\ \A i \in 1..p : Site("hub", i) \in V
      /\ \A i \in 1..q : Site("dc", i) \in V
  BY <1>1 DEF Sites, SitesOf
<1>3. f \in Seq(V) /\ Len(f) = m /\ \A i \in 1..m : f[i] = Site("branch", i)
  <2> HIDE DEF V
  <2> QED
    BY <1>1, <1>2, CountedUp
<1>4. g \in Seq(V) /\ Len(g) = p /\ \A i \in 1..p : g[i] = Site("hub", i)
  <2> HIDE DEF V
  <2> QED
    BY <1>1, <1>2, CountedUp
<1>5. h \in Seq(V) /\ Len(h) = q /\ \A i \in 1..q : h[i] = Site("dc", i)
  <2> HIDE DEF V
  <2> QED
    BY <1>1, <1>2, CountedUp
<1>6. SitesInOrder(b) = f \o g \o h
  BY DEF SitesInOrder
<1> HIDE DEF f, g, h, V
<1>7. /\ f \o g \in Seq(V) /\ Len(f \o g) = m + p
      /\ \A n \in 1..(m + p) : (f \o g)[n] = IF n <= m THEN f[n] ELSE g[n - m]
  BY <1>3, <1>4, ConcatIs, SMTT(30)
<1>8. /\ DOMAIN SitesInOrder(b) = 1..(m + p + q)
      /\ \A n \in 1..(m + p + q) :
           SitesInOrder(b)[n] = IF n <= m + p THEN (f \o g)[n] ELSE h[n - (m + p)]
  <2> DEFINE W == f \o g
  <2>1. W \in Seq(V) /\ Len(W) = m + p /\ m + p \in Nat
    BY <1>7
  <2> HIDE DEF W
  <2>2. /\ DOMAIN (W \o h) = 1..(m + p + q)
        /\ \A n \in 1..(m + p + q) :
             (W \o h)[n] = IF n <= m + p THEN W[n] ELSE h[n - (m + p)]
    BY <1>5, <2>1, ConcatIs, SMTT(30)
  <2> QED
    BY <2>2, <1>6 DEF W
<1>9. ASSUME NEW n \in 1..(m + p + q)
      PROVE  \/ n <= m /\ SitesInOrder(b)[n] = Site("branch", n)
             \/ n > m /\ n - m \in 1..p /\ SitesInOrder(b)[n] = Site("hub", n - m)
             \/ n > m + p /\ n - (m + p) \in 1..q /\ SitesInOrder(b)[n] = Site("dc", n - (m + p))
  <2>1. n \in Nat
    OBVIOUS
  <2>2. CASE n <= m
    BY <2>1, <2>2, <1>3, <1>7, <1>8
  <2>3. CASE n > m /\ n <= m + p
    <3>1. n - m \in 1..p
      BY <2>1, <2>3
    <3>2. n \in 1..(m + p) /\ ~ (n <= m)
      BY <2>1, <2>3
    <3>3. SitesInOrder(b)[n] = (f \o g)[n] /\ (f \o g)[n] = g[n - m]
      BY <3>2, <2>3, <1>7, <1>8
    <3> QED
      BY <2>3, <3>1, <3>3, <1>4
  <2>4. CASE n > m + p
    <3>1. n - (m + p) \in 1..q
      BY <2>1, <2>4
    <3>2. SitesInOrder(b)[n] = h[n - (m + p)]
      BY <2>1, <2>4, <1>8
    <3> QED
      BY <2>4, <3>1, <3>2, <1>5
  <2> QED
    BY <2>1, <2>2, <2>3, <2>4
<1>10. ASSUME NEW n \in 1..(m + p + q)
       PROVE  SitesInOrder(b)[n] \in Sites(b) /\ Lin(b, SitesInOrder(b)[n]) = n - 1
  <2>1. n \in Nat
    OBVIOUS
  <2>2. CASE n <= m /\ SitesInOrder(b)[n] = Site("branch", n)
    <3>1. n \in 1..m
      BY <2>1, <2>2
    <3>2. Lin(b, Site("branch", n)) = n - 1
      BY <2>1 DEF Lin, Site
    <3> QED
      BY <2>2, <3>1, <3>2, <1>2 DEF V
  <2>3. CASE n > m /\ n - m \in 1..p /\ SitesInOrder(b)[n] = Site("hub", n - m)
    <3>1. Lin(b, Site("hub", n - m)) = (n - m) - 1 + m
      BY <1>1 DEF Lin, Site
    <3>2. (n - m) - 1 + m = n - 1
      BY <2>1
    <3> QED
      BY <2>3, <3>1, <3>2, <1>2 DEF V
  <2>4. CASE n > m + p /\ n - (m + p) \in 1..q /\ SitesInOrder(b)[n] = Site("dc", n - (m + p))
    <3>1. Lin(b, Site("dc", n - (m + p))) = (n - (m + p)) - 1 + (m + p)
      BY <1>1 DEF Lin, Site
    <3>2. (n - (m + p)) - 1 + (m + p) = n - 1
      BY <2>1
    <3> QED
      BY <2>4, <3>1, <3>2, <1>2 DEF V
  <2> QED
    BY <1>9, <2>2, <2>3, <2>4
<1>11. ASSUME NEW s \in Sites(b)
       PROVE  \E n \in 1..(m + p + q) : SitesInOrder(b)[n] = s
  <2>1. PICK l \in Nat : l = Lin(b, s) /\ l < m + p + q
    BY LinBounds, <1>1
  <2>2. l + 1 \in 1..(m + p + q) /\ (l + 1) - 1 = l
    BY <2>1
  <2>3. SitesInOrder(b)[l + 1] = s
    BY <2>1, <2>2, <1>10, LinInjective
  <2> QED
    BY <2>2, <2>3
<1> QED
  BY <1>1, <1>8, <1>10, <1>11

LEMMA SitesReplayed ==
  ASSUME NEW b \in Knobs
  PROVE  SiteEnds(b) = ReplayedSites(b)
<1> DEFINE sites == SitesInOrder(b)
           pe(n) == Pe(((n - 1) % b.pes) + 1)
           made(s, v) == {<<30000 + 10 * Lin(b, s) + 2 * v, Ce(s), HomePe(b, s)>>,
                          <<30000 + 10 * Lin(b, s) + 2 * v, HomePe(b, s), Ce(s)>>,
                          <<30001 + 10 * Lin(b, s) + 2 * v, Ce(s), Lan(v)>>}
           round(n, v) == BothEnds(30000 + 10 * (n - 1) + 2 * v, pe(n), Ce(sites[n]))
                          \cup {<<30001 + 10 * (n - 1) + 2 * v, Ce(sites[n]), Lan(v)>>}
           of(s) == UNION {made(s, v) : v \in Vrfs(s)}
           in(n) == UNION {round(n, v) : v \in Vrfs(sites[n])}
<1>1. SiteEnds(b) = UNION {of(s) : s \in Sites(b)}
  BY DEF SiteEnds
<1>2. ReplayedSites(b) = UNION {in(n) : n \in DOMAIN sites}
  BY DEF ReplayedSites
<1>3. ASSUME NEW n \in DOMAIN sites PROVE in(n) = of(sites[n])
  <2>1. Lin(b, sites[n]) = n - 1
    BY OrderIsLin
  <2>2. HomePe(b, sites[n]) = pe(n)
    BY <2>1 DEF HomePe
  <2> HIDE DEF sites, pe
  <2>3. ASSUME NEW v PROVE round(n, v) = made(sites[n], v)
    BY <2>1, <2>2 DEF BothEnds
  <2> HIDE DEF round, made
  <2> QED
    BY <2>3
<1>4. /\ \A n \in DOMAIN sites : sites[n] \in Sites(b)
      /\ \A s \in Sites(b) : \E n \in DOMAIN sites : sites[n] = s
  BY OrderIsLin
<1> HIDE DEF sites, of, in
<1> QED
  BY <1>1, <1>2, <1>3, <1>4

LEMMA EndsReplayed ==
  ASSUME NEW b \in Knobs
  PROVE  Ends(b) = Replayed(b)
<1>1. Ends(b) = LinkEnds(CoreLinks(b)) \cup SiteEnds(b)
  BY Zenon DEF Ends, LinkEnds
<1>2. LinkEnds(CoreLinks(b)) = LinkEnds(MeshLinks(b)) \cup LinkEnds(BackboneLinks(b))
                                 \cup LinkEnds(PeLinks(b))
  BY LinkEndsAre DEF CoreLinks
<1> QED
  BY <1>1, <1>2, MeshReplayed, BackboneReplayed, PesReplayed, SitesReplayed DEF Replayed

LEMMA OverlaysAgree ==
  ASSUME NEW b \in Knobs
  PROVE  /\ ReplayedTunnels(b) = {<<t.site, t.hub>> : t \in Tunnels(b)}
         /\ LiveGraphTunnels(b) = {<<t.site, t.hub>> : t \in Tunnels(b)}
<1> DEFINE Spokes == SitesOf("branch", b.branch) \cup SitesOf("dc", b.dc)
           Hubs == SitesOf("hub", b.hub)
           tunnel(s, h) == [site |-> s, hub |-> h, hub_wg |-> h.idx]
<1>1. Tunnels(b) = {tunnel(s, h) : s \in Spokes, h \in Hubs}
  BY DEF Tunnels
<1>2. ASSUME NEW s \in Spokes, NEW h \in Hubs
      PROVE  tunnel(s, h) \in Tunnels(b) /\ tunnel(s, h).site = s /\ tunnel(s, h).hub = h
  BY <1>1
<1>3. \A t \in Tunnels(b) : t.site \in Spokes /\ t.hub \in Hubs
  BY <1>1
<1>4. \A s \in Sites(b) : s.type \in {"branch", "dc"} <=> s \in Spokes
  BY SitesAre DEF SitesOf, Site
<1>5. Spokes \subseteq Sites(b)
  BY DEF Sites
<1> HIDE DEF Spokes, tunnel
<1>6. ReplayedTunnels(b) = Spokes \X Hubs
  <2> HIDE DEF Hubs
  <2>1. ReplayedTunnels(b) = {sh \in Sites(b) \X Hubs : sh[1].type \in {"branch", "dc"}}
    BY DEF ReplayedTunnels, Hubs
  <2> QED
    BY <2>1, <1>4, <1>5
<1> HIDE DEF Hubs
<1>7. {<<t.site, t.hub>> : t \in Tunnels(b)} = Spokes \X Hubs
  BY <1>2, <1>3
<1>8. LiveGraphTunnels(b) = Spokes \X Hubs
  <2>1. LiveGraphTunnels(b) = {t.site : t \in Tunnels(b)} \X {t.hub : t \in Tunnels(b)}
    BY DEF LiveGraphTunnels
  <2> QED
    BY <2>1, <1>2, <1>3
<1> QED
  BY <1>6, <1>7, <1>8

-----------------------------------------------------------------------------
(* Part 3: what core faults leave reachable.                               *)

(* What Spread reaches.                                                    *)

Closed(links, Q) == \A l \in links : l.ends \cap Q # {} => l.ends \subseteq Q

LEMMA FloodedIs ==
  ASSUME NEW R, NEW links, \A l \in links : l.ends \subseteq R, NEW s \in SUBSET R
  PROVE  /\ s \subseteq Flooded(links, s) /\ Flooded(links, s) \subseteq R
         /\ Flooded(links, s) = s <=> Closed(links, s)
         /\ \A Q : Closed(links, Q) => (s \subseteq Q <=> Flooded(links, s) \subseteq Q)
<1>1. \A x : x \in Flooded(links, s) <=>
               x \in s \/ \E l \in links : l.ends \cap s # {} /\ x \in l.ends
  BY DEF Flooded
<1>2. s \subseteq Flooded(links, s) /\ Flooded(links, s) \subseteq R
  BY <1>1
<1>3. Flooded(links, s) = s => Closed(links, s)
  BY <1>1 DEF Closed
<1>4. Closed(links, s) => Flooded(links, s) = s
  BY <1>1, <1>2 DEF Closed
<1>5. ASSUME NEW Q, Closed(links, Q), s \subseteq Q PROVE Flooded(links, s) \subseteq Q
  <2> SUFFICES ASSUME NEW x \in Flooded(links, s), x \notin s PROVE x \in Q
    BY <1>5
  <2>1. PICK l \in links : l.ends \cap s # {} /\ x \in l.ends
    BY <1>1
  <2> QED
    BY <2>1, <1>5 DEF Closed
<1> QED
  BY <1>2, <1>3, <1>4, <1>5

IsSpread(g, R, links) ==
  g = [known \in SUBSET R |->
         IF Flooded(links, known) = known THEN known ELSE g[Flooded(links, known)]]

LEMMA SpreadExists ==
  ASSUME NEW R, NEW links, \A l \in links : l.ends \subseteq R
  PROVE  \E g : IsSpread(g, R, links)
<1> DEFINE least(s) == {x \in R : \A Q \in SUBSET R : s \subseteq Q /\ Closed(links, Q) => x \in Q}
<1>1. PICK w : w = [s \in SUBSET R |-> least(s)]
  OBVIOUS
<1>2. ASSUME NEW s \in SUBSET R
      PROVE  w[s] = IF Flooded(links, s) = s THEN s ELSE w[Flooded(links, s)]
  <2>1. /\ s \subseteq Flooded(links, s) /\ Flooded(links, s) \in SUBSET R
        /\ Flooded(links, s) = s <=> Closed(links, s)
        /\ \A Q : Closed(links, Q) => (s \subseteq Q <=> Flooded(links, s) \subseteq Q)
    <3> HIDE DEF least
    <3>1. /\ s \subseteq Flooded(links, s) /\ Flooded(links, s) \subseteq R
          /\ Flooded(links, s) = s <=> Closed(links, s)
          /\ \A Q : Closed(links, Q) => (s \subseteq Q <=> Flooded(links, s) \subseteq Q)
      BY FloodedIs, ZenonT(60)
    <3> QED
      BY <3>1
  <2>2. w[s] = least(s) /\ w[Flooded(links, s)] = least(Flooded(links, s))
    BY <1>1, <2>1
  <2>3. Closed(links, s) => least(s) = s
    OBVIOUS
  <2>4. least(s) = least(Flooded(links, s))
    BY <2>1
  <2> QED
    BY <2>1, <2>2, <2>3, <2>4
<1>3. w = [s \in SUBSET R |->
             IF Flooded(links, s) = s THEN s ELSE w[Flooded(links, s)]]
  <2> HIDE DEF least
  <2> QED
    BY <1>1, <1>2
<1> QED
  BY <1>3 DEF IsSpread

(* Spread is the least set that contains from and that no link leaves.     *)
LEMMA SpreadIs ==
  ASSUME IsFiniteSet(Routers(knobs)), NEW links,
         \A l \in links : l.ends \subseteq Routers(knobs),
         NEW from \in SUBSET Routers(knobs)
  PROVE  /\ from \subseteq Spread(links, from) /\ Spread(links, from) \subseteq Routers(knobs)
         /\ Closed(links, Spread(links, from))
         /\ \A Q : from \subseteq Q /\ Closed(links, Q) => Spread(links, from) \subseteq Q
<1>1. PICK R : R = Routers(knobs)
  OBVIOUS
<1>2. PICK g : IsSpread(g, R, links) /\ Spread(links, from) = g[from]
  <2> DEFINE f == CHOOSE g : IsSpread(g, R, links)
  <2>1. IsSpread(f, R, links)
    BY SpreadExists, <1>1
  <2>2. Spread(links, from) = f[from]
    BY <1>1 DEF Spread, IsSpread
  <2> QED
    BY <2>1, <2>2
<1>3. \A s \in SUBSET R :
        g[s] = IF Flooded(links, s) = s THEN s ELSE g[Flooded(links, s)]
  BY <1>2 DEF IsSpread
<1> DEFINE Good(s) == /\ s \subseteq g[s] /\ g[s] \subseteq R
                      /\ Closed(links, g[s])
                      /\ \A Q : s \subseteq Q /\ Closed(links, Q) => g[s] \subseteq Q
           V == {n \in Nat : \E s \in SUBSET R : ~Good(s) /\ n = Cardinality(R \ s)}
<1>4. V = {}
  <2> SUFFICES ASSUME V # {} PROVE FALSE
    OBVIOUS
  <2>1. PICK n \in V : \A m \in V : n <= m
    <3>1. V \in SUBSET Nat
      OBVIOUS
    <3> HIDE DEF V
    <3> QED
      BY <3>1, NatMin
  <2>2. PICK s \in SUBSET R : ~Good(s) /\ n = Cardinality(R \ s)
    OBVIOUS
  <2>9. n \in Nat
    OBVIOUS
  <2>11. \A m \in Nat, u \in SUBSET R : m = Cardinality(R \ u) /\ ~Good(u) => n <= m
    BY <2>1
  <2> HIDE DEF V
  <2>12. \A u : Good(u) <=> (/\ u \subseteq g[u] /\ g[u] \subseteq R
                            /\ Closed(links, g[u])
                            /\ \A Q : u \subseteq Q /\ Closed(links, Q) => g[u] \subseteq Q)
    OBVIOUS
  <2> HIDE DEF Good
  <2>3. PICK t : t = Flooded(links, s)
    OBVIOUS
  <2>4. /\ s \subseteq t /\ t \in SUBSET R
        /\ t = s <=> Closed(links, s)
        /\ \A Q : Closed(links, Q) => (s \subseteq Q <=> t \subseteq Q)
    <3>1. \A l \in links : l.ends \subseteq R
      BY <1>1
    <3> QED
      BY <3>1, <2>3, FloodedIs
  <2>5. t # s
    <3> SUFFICES ASSUME t = s PROVE FALSE
      OBVIOUS
    <3>1. g[s] = s
      BY <1>3, <2>3
    <3> QED
      BY <3>1, <2>2, <2>4, <2>12
  <2>6. g[s] = g[t]
    BY <1>3, <2>3, <2>5
  <2>7. IsFiniteSet(R \ s) /\ IsFiniteSet(R \ t)
    BY <1>1, FS_Difference
  <2>8. Cardinality(R \ t) \in Nat /\ Cardinality(R \ t) < Cardinality(R \ s)
    <3>1. R \ t \subseteq R \ s /\ R \ t # R \ s
      BY <2>4, <2>5
    <3>2. PICK W, U : W = R \ t /\ U = R \ s
      OBVIOUS
    <3>3. IsFiniteSet(U) /\ W \subseteq U /\ W # U
      BY <3>1, <3>2, <2>7
    <3>4. /\ Cardinality(W) <= Cardinality(U)
          /\ Cardinality(W) # Cardinality(U)
      BY <3>3, FS_Subset
    <3>5. Cardinality(W) \in Nat /\ Cardinality(U) \in Nat
      BY <3>2, <2>7, FS_CardinalityType
    <3>6. Cardinality(W) < Cardinality(U)
      BY <3>4, <3>5
    <3> QED
      BY <3>2, <3>5, <3>6
  <2>10. Good(t)
    <3>1. PICK m : m = Cardinality(R \ t)
      OBVIOUS
    <3>2. m \in Nat /\ ~ (n <= m)
      BY <3>1, <2>2, <2>8, <2>9
    <3> QED
      BY <3>1, <3>2, <2>4, <2>11
  <2> QED
    BY <2>2, <2>4, <2>6, <2>10, <2>12
<1>5. Cardinality(R \ from) \in Nat
  BY <1>1, FS_Difference, FS_CardinalityType
<1>6. Good(from)
  BY <1>1, <1>4, <1>5
<1> QED
  BY <1>1, <1>2, <1>6

-----------------------------------------------------------------------------
(* Where routers are.                                                      *)

LEMMA NatTimes == \A u, v \in Nat : u * v \in Nat
OBVIOUS

LEMMA DivMod ==
  ASSUME NEW n \in Int, NEW q \in Nat, q >= 1
  PROVE  \E d, r \in Int :
           d = n \div q /\ r = n % q /\ n = q * d + r /\ 0 <= r /\ r < q
<1>1. PICK d, r \in Int : d = n \div q /\ r = n % q
  OBVIOUS
<1>2. n = q * d + r /\ 0 <= r /\ r < q
  BY <1>1
<1> QED
  BY <1>1, <1>2

LEMMA DivUnique ==
  ASSUME NEW q \in Nat, q >= 1, NEW x \in Nat, NEW y \in 0..(q - 1)
  PROVE  (q * x + y) \div q = x
<1>1. PICK n \in Nat : n = q * x + y
  BY NatTimes
<1>2. PICK d, r \in Int :
        d = n \div q /\ r = n % q /\ n = q * d + r /\ 0 <= r /\ r < q
  BY DivMod
<1>3. n = q * d + r /\ 0 <= r /\ r < q
  BY <1>2
<1>4. q * d + r = q * x + y
  BY <1>1, <1>3
<1>5. CASE d < x
  <2>1. PICK e \in Nat : x = d + 1 + e
    <3>1. x - d - 1 \in Nat /\ x = d + 1 + (x - d - 1)
      BY <1>5
    <3> QED
      BY <3>1
  <2>2. q * x = q * d + q + q * e
    BY <2>1
  <2>3. q * e \in Nat
    BY NatTimes
  <2>4. PICK u, v, w \in Int : u = q * x /\ v = q * d /\ w = q * e
    OBVIOUS
  <2>5. v + r = u + y /\ u = v + q + w /\ w >= 0
    BY <1>4, <2>2, <2>3, <2>4
  <2> QED
    BY <2>5, <1>3
<1>6. CASE d > x
  <2>1. PICK e \in Nat : d = x + 1 + e
    <3>1. d - x - 1 \in Nat /\ d = x + 1 + (d - x - 1)
      BY <1>6
    <3> QED
      BY <3>1
  <2>2. q * d = q * x + q + q * e
    BY <2>1
  <2>3. q * e \in Nat
    BY NatTimes
  <2>4. PICK u, v, w \in Int : u = q * x /\ v = q * d /\ w = q * e
    OBVIOUS
  <2>5. v + r = u + y /\ v = u + q + w /\ w >= 0
    BY <1>4, <2>2, <2>3, <2>4
  <2> QED
    BY <2>5, <1>3
<1>7. CASE d = x
  BY <1>1, <1>2, <1>7
<1> QED
  BY <1>5, <1>6, <1>7

LEMMA Located ==
  ASSUME NEW b \in Knobs
  PROVE  /\ \A pop \in Pops(b) : \A r \in PopRouters(b, pop) : r \in Ps(b) /\ PopOf(b, r) = pop
         /\ \A r \in Ps(b) : PopOf(b, r) \in Pops(b) /\ r \in PopRouters(b, PopOf(b, r))
<1>1. PICK m, q \in Nat : m = b.pops /\ q = b.perPop /\ q >= 3
  BY KnobSizes
<1>2. ASSUME NEW pop \in Pops(b), NEW r \in PopRouters(b, pop)
      PROVE  r \in Ps(b) /\ PopOf(b, r) = pop
  <2>1. PICK i \in 1..(b.pops * b.perPop) :
          /\ i < 100 /\ r = <<"p", i>>
          /\ (pop - 1) * b.perPop + 1 <= i /\ i <= pop * b.perPop
    BY PopRoutersAre
  <2>2. pop \in Nat /\ pop >= 1
    BY <1>1 DEF Pops
  <2>3. PICK c \in Nat : c = (pop - 1) * q
    BY <1>1, <2>2, PopIndices
  <2>4. c + q = pop * q
    BY <1>1, <2>3, PopIndices
  <2>5. i - 1 = q * (pop - 1) + (i - 1 - c) /\ i - 1 - c \in 0..(q - 1)
    <3>1. c = q * (pop - 1)
      BY <2>2, <2>3, <1>1
    <3> QED
      BY <3>1, <1>1, <2>1, <2>3, <2>4
  <2>6. (i - 1) \div q = pop - 1
    <3>1. PICK x \in Nat : x = pop - 1
      BY <2>2
    <3>2. PICK y \in 0..(q - 1) : y = i - 1 - c
      BY <2>5
    <3>3. (q * x + y) \div q = x
      <4>1. q \in Nat /\ q >= 1 /\ x \in Nat /\ y \in 0..(q - 1)
        BY <1>1
      <4> QED
        BY <4>1, DivUnique
    <3>4. i - 1 = q * x + y
      BY <2>5, <3>1, <3>2
    <3> QED
      BY <3>1, <3>3, <3>4
  <2>7. r = P(i) /\ r \in Ps(b)
    BY <2>1 DEF P, Ps
  <2>8. PopOf(b, r) = (i - 1) \div q + 1
    BY <1>1, <2>1 DEF PopOf
  <2> QED
    BY <2>2, <2>6, <2>7, <2>8
<1>3. ASSUME NEW r \in Ps(b)
      PROVE  PopOf(b, r) \in Pops(b) /\ r \in PopRouters(b, PopOf(b, r))
  <2>1. PICK i \in 1..(b.pops * b.perPop) : r = P(i)
    BY DEF Ps
  <2>2. PICK pop \in Pops(b) : (pop - 1) * b.perPop + 1 <= i /\ i <= pop * b.perPop
    BY PopOfIndex
  <2>3. r \in PopRouters(b, pop)
    <3>1. (pop - 1) * b.perPop \in Nat /\ pop * b.perPop \in Nat /\ i \in Nat
      BY PopIndices, KnobSizes
    <3>2. i \in ((pop - 1) * b.perPop + 1)..(pop * b.perPop)
      BY <3>1, <2>2
    <3> QED
      BY <2>1, <3>2 DEF PopRouters
  <2> QED
    BY <2>3, <1>2
<1> QED
  BY <1>2, <1>3

(* The borders of a POP are its first two routers, two different ones; the *)
(* others are internal.                                                    *)
LEMMA BordersAre ==
  ASSUME NEW b \in Knobs, NEW pop \in Pops(b)
  PROVE  /\ Borders(b, pop) \subseteq PopRouters(b, pop)
         /\ Border(b, pop, 1) # Border(b, pop, 2)
         /\ Border(b, pop, 1)[2] < Border(b, pop, 2)[2]
         /\ \A x \in PopRouters(b, pop) \ Borders(b, pop) : Border(b, pop, 2)[2] < x[2]
         /\ \A x \in PopRouters(b, pop) : x \in Abrs(b) => x \in Borders(b, pop)
         /\ \A n \in Nat : PopRouters(b, pop) # {} /\ n \in 1..b.perPop =>
              Border(b, pop, n) \in PopRouters(b, pop)
<1>1. PICK c, q \in Nat : c = (pop - 1) * b.perPop /\ q = b.perPop /\ q >= 3
  BY KnobSizes, PopIndices
<1>2. \A n \in 1..q : Border(b, pop, n) = <<"p", c + n>> /\ Border(b, pop, n) \in PopRouters(b, pop)
  BY <1>1, PopRouterIs DEF Border, P
<1>3. Borders(b, pop) = {<<"p", c + 1>>, <<"p", c + 2>>}
  BY <1>1, <1>2 DEF Borders
<1>4. ASSUME NEW x \in PopRouters(b, pop) \ Borders(b, pop)
      PROVE  Border(b, pop, 2)[2] < x[2]
  <2>1. PICK i \in 1..q : x = <<"p", c + i>>
    BY <1>1, PopRouterIs DEF P
  <2>2. i > 2
    BY <1>1, <1>3, <2>1
  <2> QED
    BY <1>1, <1>2, <2>1, <2>2
<1>5. ASSUME NEW x \in PopRouters(b, pop), x \in Abrs(b) PROVE x \in Borders(b, pop)
  <2>1. PICK o \in Pops(b) : x \in Borders(b, o)
    BY <1>5 DEF Abrs
  <2>2. x \in PopRouters(b, o)
    <3>1. PICK n \in {1, 2} : x = Border(b, o, n)
      BY <2>1 DEF Borders
    <3>2. n \in 1..b.perPop
      BY KnobSizes
    <3> QED
      BY <3>1, <3>2, PopRouterIs DEF Border
  <2>3. o = pop
    BY <2>2, Located
  <2> QED
    BY <2>1, <2>3
<1> QED
  BY <1>1, <1>2, <1>3, <1>4, <1>5

(* A PE is homed to two different internal routers of its POP.             *)
LEMMA PeHomes ==
  ASSUME NEW b \in Knobs, b.pops >= 1, NEW i \in 1..b.pes
  PROVE  /\ PePop(b, i) \in Pops(b) /\ PopOf(b, Pe(i)) = PePop(b, i)
         /\ \A n \in Int : Facing(b, PePop(b, i), n)
                             \in PopRouters(b, PePop(b, i)) \ Borders(b, PePop(b, i))
         /\ b.perPop >= 4 => \A n \in Int :
              Facing(b, PePop(b, i), n) # Facing(b, PePop(b, i), n + 1)
<1>1. PICK m, q, e \in Nat : m = b.pops /\ q = b.perPop /\ e = b.pes /\ q >= 3 /\ m >= 1 /\ e >= 1
  BY KnobSizes
<1>2. PePop(b, i) \in Pops(b)
  <2>1. PICK x, c \in Nat : x = i - 1 /\ x < e /\ c = x * m
    BY <1>1, NatTimes
  <2>2. PICK d, r \in Int :
          d = c \div e /\ r = c % e /\ c = e * d + r /\ 0 <= r /\ r < e
    <3>1. c \in Int /\ e \in Nat /\ e >= 1
      BY <1>1
    <3> QED
      BY <3>1, DivMod
  <2>3. c < m * e
    <3>1. PICK y \in Nat : e = x + 1 + y
      <4>1. e - x - 1 \in Nat /\ e = x + 1 + (e - x - 1)
        BY <2>1
      <4> QED
        BY <4>1
    <3>2. m * e = c + m + m * y
      BY <2>1, <3>1
    <3>3. m * y \in Nat
      BY NatTimes
    <3> QED
      BY <3>2, <3>3, <1>1
  <2>4. d \in 0..(m - 1)
    <3>1. c = e * d + r /\ 0 <= r /\ r < e
      BY <2>2
    <3>2. d >= 0
      <4> SUFFICES ASSUME d < 0 PROVE FALSE
        OBVIOUS
      <4>1. PICK y \in Nat : d = -1 - y
        <5>1. -1 - d \in Nat /\ d = -1 - (-1 - d)
          OBVIOUS
        <5> QED
          BY <5>1
      <4>2. e * d = - e - e * y
        BY <4>1
      <4>3. e * y \in Nat
        BY NatTimes
      <4> QED
        BY <3>1, <4>2, <4>3, <1>1
    <3>3. d < m
      <4> SUFFICES ASSUME d >= m PROVE FALSE
        OBVIOUS
      <4>1. PICK y \in Nat : d = m + y
        <5>1. d - m \in Nat /\ d = m + (d - m)
          OBVIOUS
        <5> QED
          BY <5>1
      <4>2. e * d = m * e + e * y
        BY <4>1
      <4>3. e * y \in Nat
        BY NatTimes
      <4> QED
        BY <3>1, <4>2, <4>3, <2>3, <1>1
    <3> QED
      BY <3>2, <3>3
  <2>5. PePop(b, i) = d + 1
    BY <1>1, <2>1, <2>2 DEF PePop
  <2> QED
    BY <2>4, <2>5, <1>1 DEF Pops
<1>3. PopOf(b, Pe(i)) = PePop(b, i)
  BY DEF PopOf, Pe
<1>4. PICK pop \in Pops(b), c \in Nat : pop = PePop(b, i) /\ c = (pop - 1) * b.perPop
  BY <1>2, PopIndices
<1>5. \A n \in Int : Facing(b, pop, n) = <<"p", c + 3 + (n % (q - 2))>>
  BY <1>1, <1>4 DEF Facing, P
<1>6. Borders(b, pop) = {<<"p", c + 1>>, <<"p", c + 2>>}
  BY <1>1, <1>4 DEF Borders, Border, P
<1>7. ASSUME NEW n \in Int
      PROVE  Facing(b, pop, n) \in PopRouters(b, pop) \ Borders(b, pop)
  <2>1. n % (q - 2) \in Nat
    BY <1>1
  <2>2. pop \in Int
    BY <1>1 DEF Pops
  <2>3. Facing(b, pop, n) \in PopRouters(b, pop)
    BY <2>2, FacingInPop
  <2>4. PICK o \in Nat : o = n % (q - 2)
    BY <2>1
  <2>5. Facing(b, pop, n) = <<"p", c + 3 + o>>
    BY <2>4, <1>5
  <2>6. c + 3 + o # c + 1 /\ c + 3 + o # c + 2
    OBVIOUS
  <2>7. Facing(b, pop, n) \notin Borders(b, pop)
    BY <2>5, <2>6, <1>6
  <2> QED
    BY <2>3, <2>7
<1>8. ASSUME q >= 4, NEW n \in Int PROVE Facing(b, pop, n) # Facing(b, pop, n + 1)
  <2>1. n % (q - 2) # (n + 1) % (q - 2)
    <3>0. PICK w \in Int : w = q - 2 /\ w >= 2
      BY <1>1, <1>8
    <3>1. PICK d, r, d2, r2 \in Int :
            d = n \div w /\ r = n % w /\ d2 = (n + 1) \div w /\ r2 = (n + 1) % w
      BY <3>0
    <3>2. n = w * d + r /\ n + 1 = w * d2 + r2
      BY <3>0, <3>1
    <3> SUFFICES ASSUME r = r2 PROVE FALSE
      BY <3>0, <3>1
    <3>3. w * (d2 - d) = 1
      BY <3>2
    <3>4. PICK y \in Int : y = d2 - d /\ w * y = 1
      BY <3>3
    <3>5. CASE y >= 1
      <4>1. PICK z \in Nat : y = 1 + z
        <5>1. y - 1 \in Nat /\ y = 1 + (y - 1)
          BY <3>5
        <5> QED
          BY <5>1
      <4>2. w * y = w + w * z
        BY <4>1
      <4>3. w \in Nat
        BY <3>0, <3>1
      <4>4. w * z \in Nat
        BY <4>3, NatTimes
      <4> QED
        BY <3>0, <3>4, <4>2, <4>4
    <3>6. CASE y <= 0
      <4>1. PICK z \in Nat : y = - z
        <5>1. - y \in Nat /\ y = - (- y)
          BY <3>6
        <5> QED
          BY <5>1
      <4>2. w * y = - (w * z)
        BY <4>1
      <4>3. w \in Nat
        BY <3>0, <3>1
      <4>4. w * z \in Nat
        BY <4>3, NatTimes
      <4> QED
        BY <3>4, <4>2, <4>4
    <3> QED
      BY <3>5, <3>6
  <2>2. n % (q - 2) \in Nat /\ (n + 1) % (q - 2) \in Nat
    BY <1>1
  <2> QED
    BY <2>1, <2>2, <1>5
<1> QED
  BY <1>1, <1>2, <1>3, <1>4, <1>7, <1>8

-----------------------------------------------------------------------------
(* Which links there are.                                                  *)

LEMMA MeshJoins ==
  ASSUME NEW b \in Knobs, NEW pop \in Pops(b),
         NEW x \in PopRouters(b, pop), NEW y \in PopRouters(b, pop), x[2] < y[2]
  PROVE  \E l \in MeshLinks(b) :
           /\ l.ends = {x, y} /\ l.rank = x[2] * 100 + y[2]
           /\ l.area = IF {x, y} = Borders(b, pop) THEN 0 ELSE pop
<1>1. PICK l : l = [ends |-> {x, y}, cost |-> CostIntra, srlg |-> NoSrlg, joins |-> {},
                    area |-> IF {x, y} = Borders(b, pop) THEN 0 ELSE pop,
                    rank |-> x[2] * 100 + y[2]]
  OBVIOUS
<1>2. l \in MeshLinks(b)
  BY <1>1, MeshLinksAre
<1> QED
  BY <1>1, <1>2

Next1(b, n) == (n % b.pops) + 1

(* The r-th of the parallel links of an adjacency, and an uplink of a PE.  *)
Lane(b, n, r) ==
  [ends |-> {Border(b, pop, (r % 2) + 1) : pop \in Adjacency(b, n)},
   cost |-> CostInter, area |-> 0,
   srlg |-> SrlgOf(Adjacency(b, n)), joins |-> Adjacency(b, n),
   rank |-> 10000 + 10 * n + r]

Uplink(b, i, h) ==
  [ends |-> {Pe(i), Facing(b, PePop(b, i), i - 1 + h)},
   cost |-> CostIntra, srlg |-> NoSrlg, joins |-> {}, area |-> PePop(b, i),
   rank |-> 20000 + 10 * i + h]

Uplinks(b) == IF b.dual /\ b.perPop > 3 THEN {0, 1} ELSE {0}

LEMMA LaneIs ==
  ASSUME NEW b, NEW n, NEW r
  PROVE  LET l == Lane(b, n, r)
         IN  /\ l.ends = {Border(b, pop, (r % 2) + 1) : pop \in Adjacency(b, n)}
             /\ l.area = 0 /\ l.srlg = SrlgOf(Adjacency(b, n)) /\ l.joins = Adjacency(b, n)
             /\ l.rank = 10000 + 10 * n + r
BY DEF Lane

LEMMA UplinkIs ==
  ASSUME NEW b, NEW i, NEW h
  PROVE  LET l == Uplink(b, i, h)
         IN  /\ l.ends = {Pe(i), Facing(b, PePop(b, i), i - 1 + h)}
             /\ l.area = PePop(b, i) /\ l.rank = 20000 + 10 * i + h
BY DEF Uplink

LEMMA BackboneLinkIs ==
  ASSUME NEW b, NEW l
  PROVE  l \in BackboneLinks(b) <=>
           \E n \in Adjacencies(b), r \in 0..(b.redundancy - 1) : l = Lane(b, n, r)
BY DEF BackboneLinks, Lane

LEMMA PeLinkIs ==
  ASSUME NEW b, NEW l
  PROVE  l \in PeLinks(b) <=> \E i \in 1..b.pes, h \in Uplinks(b) : l = Uplink(b, i, h)
BY DEF PeLinks, Uplink, Uplinks

LEMMA RingJoins ==
  ASSUME NEW b \in Knobs, b.redundancy >= 2, b.pops >= 1, NEW n \in Pops(b), NEW h \in {1, 2}
  PROVE  \E l \in BackboneLinks(b) :
           /\ l.ends = {Border(b, n, h), Border(b, Next1(b, n), h)}
           /\ l.joins = {n, Next1(b, n)} /\ l.srlg = SrlgOf({n, Next1(b, n)})
           /\ l.area = 0
<1>1. PICK m, e, c \in Nat : m = b.pops /\ e = b.redundancy /\ c = Len(b.chords)
                             /\ e >= 2 /\ m >= 1
  BY KnobSizes
<1>2. n \in Adjacencies(b) /\ n <= m
  BY <1>1 DEF Pops, Adjacencies
<1>3. Adjacency(b, n) = {n, Next1(b, n)}
  BY <1>1, <1>2 DEF Adjacency, Next1
<1>4. PICK r \in {0, 1} : r = h - 1
  OBVIOUS
<1>5. r \in 0..(b.redundancy - 1) /\ (r % 2) + 1 = h
  BY <1>1, <1>4
<1>6. PICK l : l = Lane(b, n, r)
  OBVIOUS
<1>7. l \in BackboneLinks(b)
  BY <1>2, <1>5, <1>6, BackboneLinkIs
<1>8. {Border(b, pop, h) : pop \in {n, Next1(b, n)}} = {Border(b, n, h), Border(b, Next1(b, n), h)}
  OBVIOUS
<1>9. /\ l.ends = {Border(b, pop, (r % 2) + 1) : pop \in Adjacency(b, n)}
      /\ l.joins = Adjacency(b, n) /\ l.srlg = SrlgOf(Adjacency(b, n)) /\ l.area = 0
  BY <1>6, LaneIs
<1>10. l.ends = {Border(b, n, h), Border(b, Next1(b, n), h)}
  BY <1>3, <1>5, <1>8, <1>9
<1> QED
  BY <1>3, <1>7, <1>9, <1>10

(* A backbone link's rank is its own.                                      *)
LEMMA BackboneRankIs ==
  ASSUME NEW b \in Knobs, NEW l \in BackboneLinks(b), NEW m \in BackboneLinks(b),
         l.rank = m.rank
  PROVE  l = m
<1>1. PICK n \in Adjacencies(b), r \in 0..(b.redundancy - 1) : l = Lane(b, n, r)
  BY BackboneLinkIs
<1>2. PICK o \in Adjacencies(b), t \in 0..(b.redundancy - 1) : m = Lane(b, o, t)
  BY BackboneLinkIs
<1>3. /\ n \in Nat /\ o \in Nat /\ r \in Nat /\ t \in Nat /\ r < 10 /\ t < 10
  BY KnobSizes DEF Adjacencies
<1>4. 10000 + 10 * n + r = 10000 + 10 * o + t
  BY <1>1, <1>2, LaneIs
<1>5. n = o /\ r = t
  BY <1>3, <1>4
<1> QED
  BY <1>1, <1>2, <1>5

-----------------------------------------------------------------------------
(* What links tie together: every closed set has both or neither.          *)

Tied(links, x, y) == \A Q : Closed(links, Q) => (x \in Q <=> y \in Q)

LEMMA TiedIs ==
  ASSUME NEW links
  PROVE  /\ \A x : Tied(links, x, x)
         /\ \A x, y : Tied(links, x, y) => Tied(links, y, x)
         /\ \A x, y, z : Tied(links, x, y) /\ Tied(links, y, z) => Tied(links, x, z)
         /\ \A l \in links : \A x, y : l.ends = {x, y} => Tied(links, x, y)
<1>1. \A x : Tied(links, x, x)
  BY DEF Tied
<1>2. \A x, y : Tied(links, x, y) => Tied(links, y, x)
  BY DEF Tied
<1>3. \A x, y, z : Tied(links, x, y) /\ Tied(links, y, z) => Tied(links, x, z)
  BY DEF Tied
<1>4. ASSUME NEW l \in links, NEW x, NEW y, l.ends = {x, y} PROVE Tied(links, x, y)
  <2> SUFFICES ASSUME NEW Q, Closed(links, Q) PROVE x \in Q <=> y \in Q
    BY DEF Tied
  <2>1. l.ends \cap Q # {} => l.ends \subseteq Q
    BY DEF Closed
  <2> QED
    BY <2>1, <1>4
<1> QED
  BY <1>1, <1>2, <1>3, <1>4

(* Every link of a core joins two of its routers, and an area's link two   *)
(* of one POP.                                                             *)
LEMMA LinkJoins ==
  ASSUME NEW b \in Knobs, b.pops >= 1, NEW l \in CoreLinks(b)
  PROVE  /\ \E x, y \in Routers(b) :
              /\ l.ends = {x, y}
              /\ l \notin BackboneLinks(b) =>
                   PopOf(b, x) = PopOf(b, y) /\ PopOf(b, x) \in Pops(b)
         /\ l \in BackboneLinks(b) => l.area = 0
<1>1. CASE l \in MeshLinks(b)
  <2>1. PICK pop \in Pops(b) : \E x, y \in PopRouters(b, pop) :
          /\ x[2] < y[2]
          /\ l = [ends |-> {x, y}, cost |-> CostIntra, srlg |-> NoSrlg, joins |-> {},
                  area |-> IF {x, y} = Borders(b, pop) THEN 0 ELSE pop,
                  rank |-> x[2] * 100 + y[2]]
    BY <1>1, MeshLinksAre
  <2>2. PICK x, y \in PopRouters(b, pop) : l.ends = {x, y}
    BY <2>1
  <2>3. x \in Ps(b) /\ y \in Ps(b) /\ PopOf(b, x) = pop /\ PopOf(b, y) = pop
    BY <2>2, Located
  <2>4. l \notin BackboneLinks(b)
    BY <1>1, MeshRanks, BackboneRanks
  <2> QED
    BY <2>2, <2>3, <2>4 DEF Routers
<1>2. CASE l \in BackboneLinks(b)
  <2>1. PICK n \in Adjacencies(b), r \in 0..(b.redundancy - 1) : l = Lane(b, n, r)
    BY <1>2, BackboneLinkIs
  <2>2. PICK u, v \in Pops(b) : Adjacency(b, n) = {u, v}
    BY AdjacencyJoins
  <2>3. PICK h \in {1, 2} : h = (r % 2) + 1
    <3>1. r \in Nat
      BY KnobSizes
    <3>2. (r % 2) + 1 \in {1, 2}
      BY <3>1
    <3> QED
      BY <3>2
  <2>4. l.area = 0 /\ l.ends = {Border(b, pop, (r % 2) + 1) : pop \in Adjacency(b, n)}
    BY <2>1, LaneIs
  <2>5. l.ends = {Border(b, u, h), Border(b, v, h)}
    BY <2>2, <2>3, <2>4
  <2>6. \A pop \in Pops(b) : Border(b, pop, h) \in Abrs(b)
    BY DEF Abrs, Borders
  <2> QED
    BY <1>2, <2>4, <2>5, <2>6, AbrsArePs DEF Routers
<1>3. CASE l \in PeLinks(b)
  <2>1. PICK i \in 1..b.pes, h \in Uplinks(b) : l = Uplink(b, i, h)
    BY <1>3, PeLinkIs
  <2>2. PICK n \in Int : n = i - 1 + h
    <3>1. i - 1 + h \in Int
      BY KnobSizes DEF Uplinks
    <3> QED
      BY <3>1
  <2>3. l.ends = {Pe(i), Facing(b, PePop(b, i), n)}
    BY <2>1, <2>2, UplinkIs
  <2>4. /\ PePop(b, i) \in Pops(b) /\ PopOf(b, Pe(i)) = PePop(b, i)
        /\ Facing(b, PePop(b, i), n) \in PopRouters(b, PePop(b, i))
    BY PeHomes
  <2>5. Pe(i) \in Routers(b)
    BY DEF Routers, Pes
  <2>6. Facing(b, PePop(b, i), n) \in Routers(b) /\ PopOf(b, Facing(b, PePop(b, i), n)) = PePop(b, i)
    BY <2>4, Located DEF Routers
  <2>7. l \notin BackboneLinks(b)
    BY <1>3, PeRanks, BackboneRanks
  <2> QED
    BY <2>3, <2>4, <2>5, <2>6, <2>7
<1> QED
  BY <1>1, <1>2, <1>3 DEF CoreLinks

LEMMA RoutersFinite ==
  ASSUME NEW b \in Knobs
  PROVE  IsFiniteSet(Routers(b))
<1>1. ASSUME NEW n \in Nat, NEW kind PROVE IsFiniteSet({<<kind, i>> : i \in 1..n})
  <2>1. IsFiniteSet(1..n)
    BY FS_Interval
  <2>2. PICK V : V = {<<kind, i>> : i \in 1..n}
    OBVIOUS
  <2>3. PICK named : named = [i \in 1..n |-> <<kind, i>>]
    OBVIOUS
  <2>4. named \in [1..n -> V] /\ \A x \in V : \E i \in 1..n : named[i] = x
    BY <2>2, <2>3
  <2>5. named \in Surjection(1..n, V)
    BY <2>4 DEF Surjection
  <2>6. IsFiniteSet(V)
    <3>1. PICK D : D = 1..n
      OBVIOUS
    <3> QED
      BY <2>1, <2>5, <3>1, FS_Surjection
  <2> QED
    BY <2>2, <2>6
<1>2. IsFiniteSet(Ps(b))
  <2>1. PICK n \in Nat : n = b.pops * b.perPop
    BY KnobSizes
  <2>2. Ps(b) = {<<"p", i>> : i \in 1..n}
    BY <2>1 DEF Ps, P
  <2> QED
    BY <1>1, <2>2
<1>3. IsFiniteSet(Pes(b))
  <2>1. PICK n \in Nat : n = b.pes
    BY KnobSizes
  <2>2. Pes(b) = {<<"pe", i>> : i \in 1..n}
    BY <2>1 DEF Pes, Pe
  <2> QED
    BY <1>1, <2>2
<1> QED
  BY <1>2, <1>3, FS_Union DEF Routers

-----------------------------------------------------------------------------
(* One lab: the tables about it, for every record of knobs (Part 2), from  *)
(* where its routers are.                                                  *)

(* The POPs the graph has numbered when it comes to one, and that one.     *)
LEMMA SortedPlace ==
  ASSUME NEW b \in Knobs, NEW pop \in Pops(b)
  PROVE  GraphArea(b, pop) = pop <=> b.pops < 10 \/ pop = 1
<1>1. PICK n \in Nat : n = b.pops /\ n < 34 /\ n >= 1
  <2>1. PICK n, q \in Nat : n = b.pops /\ q = b.perPop /\ q >= 3 /\ n * q < 100
    BY KnobSizes
  <2>2. PICK y \in Nat : q = 3 + y
    <3>1. q - 3 \in Nat /\ q = 3 + (q - 3)
      BY <2>1
    <3> QED
      BY <3>1
  <2>3. n * q = 3 * n + n * y /\ n * y \in Nat
    BY <2>2, NatTimes
  <2>4. n >= 1
    BY <2>1 DEF Pops
  <2> QED
    BY <2>1, <2>3, <2>4
<1>2. pop \in Nat /\ 1 <= pop /\ pop <= n
  BY <1>1 DEF Pops
<1>3. PICK V : V = {q \in 1..n : q = pop \/ NamedBefore(q, pop)}
  OBVIOUS
<1>4. GraphArea(b, pop) = Cardinality(V)
  BY <1>1, <1>3 DEF GraphArea, Pops
<1>5. \A q \in 1..n : q \in V <=>
        \/ q = pop
        \/ /\ q < 10 /\ pop < 10 /\ q < pop
        \/ /\ q < 10 /\ pop >= 10 /\ q <= pop \div 10
        \/ /\ q >= 10 /\ pop < 10 /\ q \div 10 < pop
        \/ /\ q >= 10 /\ pop >= 10 /\ q < pop
  <2> SUFFICES ASSUME NEW q \in 1..n
               PROVE  q \in V <=>
                        \/ q = pop
                        \/ /\ q < 10 /\ pop < 10 /\ q < pop
                        \/ /\ q < 10 /\ pop >= 10 /\ q <= pop \div 10
                        \/ /\ q >= 10 /\ pop < 10 /\ q \div 10 < pop
                        \/ /\ q >= 10 /\ pop >= 10 /\ q < pop
    OBVIOUS
  <2>1. q \in V <=> q = pop \/ NamedBefore(q, pop)
    BY <1>3
  <2>2. q \in Nat /\ q < 34 /\ pop < 34
    BY <1>1, <1>2
  <2> QED
    BY <2>1, <2>2, <1>2 DEF NamedBefore
<1>6. \A m \in Nat : IsFiniteSet(1..m) /\ Cardinality(1..m) = m
  BY FS_Interval
<1>7. IsFiniteSet(V)
  <2>1. PICK U : U = 1..n
    OBVIOUS
  <2>2. V \subseteq U /\ IsFiniteSet(U)
    BY <1>3, <1>6, <2>1
  <2> QED
    BY <2>2, FS_Subset
<1>8. CASE n < 10
  <2>1. V = 1..pop
    <3>1. \A q \in 1..n : q \in V <=> q <= pop
      BY <1>2, <1>5, <1>8
    <3>2. V \subseteq 1..n /\ 1..pop \subseteq 1..n
      BY <1>1, <1>2, <1>3
    <3>3. \A q \in 1..n : q \in 1..pop <=> q <= pop
      BY <1>1, <1>2
    <3> QED
      BY <3>1, <3>2, <3>3
  <2> QED
    BY <2>1, <1>1, <1>2, <1>4, <1>6, <1>8
<1>9. CASE n >= 10 /\ pop = 1
  <2>1. \A q \in 1..n : q \in V <=> q = 1
    BY <1>1, <1>5, <1>9
  <2>2. V = 1..1
    <3>1. V \subseteq 1..n /\ 1..1 \subseteq 1..n
      BY <1>1, <1>3
    <3>2. \A q \in 1..n : q \in 1..1 <=> q = 1
      BY <1>1
    <3> QED
      BY <2>1, <3>1, <3>2
  <2> QED
    BY <2>2, <1>4, <1>6, <1>9
<1>10. CASE n >= 10 /\ pop # 1 /\ pop < 10
  <2>1. PICK U : U = 1..pop
    OBVIOUS
  <2>2. IsFiniteSet(U) /\ Cardinality(U) = pop /\ 10 \notin U
    BY <2>1, <1>2, <1>6, <1>10
  <2>3. IsFiniteSet(U \cup {10}) /\ Cardinality(U \cup {10}) = pop + 1
    BY <2>2, FS_AddElement
  <2>4. U \cup {10} \subseteq V
    <3>1. \A q \in U : q \in 1..n /\ q <= pop /\ q < 10
      BY <2>1, <1>1, <1>2, <1>10
    <3>2. U \subseteq V
      BY <3>1, <1>2, <1>5, <1>10
    <3>3. 10 \in 1..n /\ 10 \div 10 < pop
      BY <1>1, <1>2, <1>10
    <3>4. 10 \in V
      BY <3>3, <1>5, <1>10
    <3> QED
      BY <3>2, <3>4
  <2>5. Cardinality(U \cup {10}) <= Cardinality(V)
    BY <2>4, <1>7, FS_Subset
  <2>6. Cardinality(V) \in Nat
    BY <1>7, FS_CardinalityType
  <2> QED
    BY <2>3, <2>5, <2>6, <1>1, <1>2, <1>4, <1>10
<1>11. CASE n >= 10 /\ pop >= 10
  <2>1. PICK U : U = 1..pop
    OBVIOUS
  <2>2. IsFiniteSet(U) /\ Cardinality(U) = pop /\ 9 \in U
    BY <2>1, <1>2, <1>6, <1>11
  <2>3. IsFiniteSet(U \ {9}) /\ Cardinality(U \ {9}) = pop - 1
    <3>1. IsFiniteSet(U \ {9}) /\ Cardinality(U \ {9}) = Cardinality(U) - 1
      BY <2>2, FS_RemoveElement
    <3> QED
      BY <3>1, <2>2
  <2>4. V \subseteq U \ {9}
    <3>1. pop \div 10 < 9 /\ pop \div 10 <= pop
      BY <1>1, <1>2
    <3>2. \A q \in 1..n : q \in V => q <= pop /\ q # 9
      BY <3>1, <1>2, <1>5, <1>11
    <3>3. V \subseteq 1..n
      BY <1>3
    <3> QED
      BY <2>1, <3>2, <3>3, <1>2
  <2>5. Cardinality(V) <= Cardinality(U \ {9})
    BY <2>3, <2>4, FS_Subset
  <2>6. Cardinality(V) \in Nat
    BY <1>7, FS_CardinalityType
  <2> QED
    BY <2>3, <2>5, <2>6, <1>1, <1>2, <1>4, <1>11
<1> QED
  BY <1>1, <1>2, <1>8, <1>9, <1>10, <1>11

(* The Ps the graph joins a PE to.                                         *)
GraphHome(b, j) ==
  UNION {PopRouters(b, pop) : pop \in {q \in Pops(b) : GraphArea(b, q) = PePop(b, j)}}

PopPairs(b, pop) ==
  {{cd[1], cd[2]} : cd \in {pq \in PopRouters(b, pop) \X PopRouters(b, pop) : pq[1] # pq[2]}}

LEMMA GraphIs ==
  ASSUME NEW b \in Knobs, NEW e
  PROVE  e \in GraphAdjacent(b) <=>
           \/ \E pop \in Pops(b) : e \in PopPairs(b, pop)
           \/ \E j \in 1..b.pes : \E p \in GraphHome(b, j) : e = {Pe(j), p}
           \/ \E l \in BackboneLinks(b) : e = l.ends
<1> DEFINE homes(j) == {{Pe(j), p} : p \in GraphHome(b, j)}
           across == {l.ends : l \in BackboneLinks(b)}
<1>1. GraphAdjacent(b) = (UNION {PopPairs(b, pop) : pop \in Pops(b)})
                           \cup (UNION {homes(j) : j \in 1..b.pes}) \cup across
  BY Zenon DEF GraphAdjacent, GraphHome, PopPairs
<1>2. \A j : e \in homes(j) <=> \E p \in GraphHome(b, j) : e = {Pe(j), p}
  OBVIOUS
<1>3. e \in across <=> \E l \in BackboneLinks(b) : e = l.ends
  OBVIOUS
<1> HIDE DEF homes, across
<1> QED
  BY <1>1, <1>2, <1>3

LEMMA FabricInGraph ==
  ASSUME NEW b \in Knobs, NEW l \in MeshLinks(b) \cup BackboneLinks(b)
  PROVE  l.ends \in GraphAdjacent(b)
<1>1. CASE l \in MeshLinks(b)
  <2>1. PICK pop \in Pops(b) : \E x, y \in PopRouters(b, pop) : x[2] < y[2] /\ l.ends = {x, y}
    BY <1>1, MeshLinksAre
  <2>2. PICK x, y \in PopRouters(b, pop) : x[2] < y[2] /\ l.ends = {x, y}
    BY <2>1
  <2>3. x # y
    <3>1. PICK i \in 1..(b.pops * b.perPop) : x = <<"p", i>>
      BY PopRoutersAre
    <3>2. i \in Nat
      BY KnobSizes
    <3> QED
      BY <2>2, <3>1, <3>2
  <2>4. l.ends \in PopPairs(b, pop)
    <3>1. <<x, y>> \in {pq \in PopRouters(b, pop) \X PopRouters(b, pop) : pq[1] # pq[2]}
      BY <2>3
    <3>2. l.ends = {<<x, y>>[1], <<x, y>>[2]}
      BY <2>2
    <3> QED
      BY <3>1, <3>2, Zenon DEF PopPairs
  <2> QED
    BY <2>4, GraphIs
<1>2. CASE l \in BackboneLinks(b)
  BY <1>2, GraphIs
<1> QED
  BY <1>1, <1>2

LEMMA UplinkInGraph ==
  ASSUME NEW b \in Knobs, NEW l \in PeLinks(b)
  PROVE  l.ends \in GraphAdjacent(b) <=> b.pops < 10 \/ l.area = 1
<1>1. PICK i \in 1..b.pes, h \in Uplinks(b) : l = Uplink(b, i, h)
  BY PeLinkIs
<1>2. PICK pop, face : /\ pop = PePop(b, i) /\ face = Facing(b, PePop(b, i), i - 1 + h)
                       /\ l.ends = {Pe(i), face} /\ l.area = pop
  BY <1>1, UplinkIs
<1>3. b.pops >= 1
  BY SizesAssumption
<1>4. pop \in Pops(b)
  BY <1>2, <1>3, PeHomes
<1>5. face \in PopRouters(b, pop)
  <2>1. i - 1 + h \in Int
    BY KnobSizes DEF Uplinks
  <2> QED
    BY <2>1, <1>2, <1>3, PeHomes
<1>6. \A q \in Pops(b) : \A r \in PopRouters(b, q) : r[1] = "p" /\ PopOf(b, r) = q
  <2>1. \A q \in Pops(b) : \A r \in PopRouters(b, q) : r[1] = "p"
    BY PopRoutersAre
  <2> QED
    BY <2>1, Located
<1>7. Pe(i)[1] = "pe" /\ \A j \in 1..b.pes : Pe(j)[1] = "pe" /\ (Pe(j) = Pe(i) => j = i)
  BY DEF Pe
<1>8. \A q \in Pops(b) : l.ends \notin PopPairs(b, q)
  <2> SUFFICES ASSUME NEW q \in Pops(b), l.ends \in PopPairs(b, q) PROVE FALSE
    OBVIOUS
  <2>1. PICK cd \in PopRouters(b, q) \X PopRouters(b, q) : l.ends = {cd[1], cd[2]}
    BY DEF PopPairs
  <2>2. Pe(i) = cd[1] \/ Pe(i) = cd[2]
    BY <2>1, <1>2
  <2>3. cd[1] \in PopRouters(b, q) /\ cd[2] \in PopRouters(b, q)
    BY <2>1
  <2> QED
    BY <2>2, <2>3, <1>6, <1>7
<1>9. \A m \in BackboneLinks(b) : l.ends # m.ends
  <2> SUFFICES ASSUME NEW m \in BackboneLinks(b), l.ends = m.ends PROVE FALSE
    OBVIOUS
  <2>1. PICK n \in Adjacencies(b), r \in 0..(b.redundancy - 1) : m = Lane(b, n, r)
    BY BackboneLinkIs
  <2>2. m.ends = {Border(b, q, (r % 2) + 1) : q \in Adjacency(b, n)}
    BY <2>1, LaneIs
  <2>3. PICK q : Pe(i) = Border(b, q, (r % 2) + 1)
    BY <2>2, <1>2
  <2>4. Border(b, q, (r % 2) + 1)[1] = "p"
    BY DEF Border, P
  <2> QED
    BY <2>3, <2>4, <1>7
<1>10. \A j \in 1..b.pes : \A p \in GraphHome(b, j) :
         l.ends = {Pe(j), p} <=> j = i /\ p = face
  <2> SUFFICES ASSUME NEW j \in 1..b.pes, NEW p \in GraphHome(b, j)
               PROVE  l.ends = {Pe(j), p} <=> j = i /\ p = face
    OBVIOUS
  <2>1. p[1] = "p"
    <3>1. PICK q \in Pops(b) : p \in PopRouters(b, q)
      BY DEF GraphHome
    <3> QED
      BY <3>1, <1>6
  <2>2. face[1] = "p"
    BY <1>4, <1>5, <1>6
  <2>3. Pe(i) # p /\ Pe(j) # face /\ Pe(i) # face /\ Pe(j) # p
    BY <2>1, <2>2, <1>7
  <2> QED
    BY <2>3, <1>2, <1>7
<1>11. l.ends \in GraphAdjacent(b) <=> face \in GraphHome(b, i)
  <2>1. l.ends \in GraphAdjacent(b) <=>
          \E j \in 1..b.pes : \E p \in GraphHome(b, j) : l.ends = {Pe(j), p}
    BY GraphIs, <1>8, <1>9
  <2> QED
    BY <2>1, <1>10
<1>12. face \in GraphHome(b, i) <=> GraphArea(b, pop) = pop
  <2>1. face \in GraphHome(b, i) <=>
          \E q \in Pops(b) : GraphArea(b, q) = PePop(b, i) /\ face \in PopRouters(b, q)
    BY DEF GraphHome
  <2>2. \A q \in Pops(b) : face \in PopRouters(b, q) <=> q = pop
    BY <1>4, <1>5, <1>6
  <2> QED
    BY <2>1, <2>2, <1>2, <1>4
<1> QED
  BY <1>2, <1>4, <1>11, <1>12, SortedPlace

(* The controller and the prediction graph are about the lab the generator *)
(* built, whatever its knobs: the tunnels steered over are exactly the     *)
(* WireGuard peerings of spokes with hubs, at the hubs' overlay addresses, *)
(* peerings are mutual, and core adjacencies and BGP sessions are edges of *)
(* the graph.                                                              *)
THEOREM TablesOfTheLab == CoreSpec => []DerivedTablesAgree
<1>1. CoreInit => knobs \in Knobs
  BY DEF CoreInit
<1>2. knobs \in Knobs /\ [CoreNext]_coreVars => (knobs \in Knobs)'
  BY DEF CoreNext, coreVars, Start, FlapReturns, Stop
<1>3. knobs \in Knobs => DerivedTablesAgree
  <2> SUFFICES ASSUME knobs \in Knobs PROVE DerivedTablesAgree
    OBVIOUS
  <2>1. {l.ends : l \in MeshLinks(knobs) \cup BackboneLinks(knobs)} \subseteq GraphAdjacent(knobs)
    BY FabricInGraph
  <2>4. \A l \in PeLinks(knobs) :
          l.ends \in GraphAdjacent(knobs) <=> knobs.pops < 10 \/ l.area = 1
    BY UplinkInGraph
  <2>2. \A s, t \in Sites(knobs) : t \in WgPeers(knobs, s) <=> s \in WgPeers(knobs, t)
    BY PeeringsAreMutual
  <2>3. \A i \in 1..knobs.pes : \A j \in IbgpPeers(knobs, i) : {i, j} \in GraphIbgp(knobs)
    BY SessionsInGraph
  <2> QED
    BY <2>1, <2>2, <2>3, <2>4, TunnelsArePeerings DEF DerivedTablesAgree
<1> QED
  BY <1>1, <1>2, <1>3, PTL DEF CoreSpec

(* How many links there are is a number.                                   *)
LEMMA MadeInRounds ==
  ASSUME NEW V, NEW D, IsFiniteSet(D), NEW f \in [D -> V], \A v \in V : \E x \in D : f[x] = v
  PROVE  IsFiniteSet(V)
<1>1. f \in Surjection(D, V)
  BY DEF Surjection
<1> QED
  BY <1>1, FS_Surjection

LEMMA LinksFinite ==
  ASSUME NEW b \in Knobs
  PROVE  /\ IsFiniteSet(MeshLinks(b)) /\ IsFiniteSet(BackboneLinks(b))
         /\ IsFiniteSet(PeLinks(b))
<1>1. \A n \in Int : IsFiniteSet(0..n) /\ IsFiniteSet(1..n)
  BY FS_Interval
<1>2. IsFiniteSet(BackboneLinks(b))
  <2>1. PICK A, R, V : /\ A = Adjacencies(b) /\ R = 0..(b.redundancy - 1)
                       /\ V = BackboneLinks(b)
    OBVIOUS
  <2>2. IsFiniteSet(A) /\ IsFiniteSet(R)
    <3>1. PICK m, r \in Int : m = b.pops + Len(b.chords) /\ r = b.redundancy - 1
      BY KnobSizes
    <3> QED
      BY <3>1, <2>1, <1>1 DEF Adjacencies
  <2>3. PICK D : D = A \X R /\ IsFiniteSet(D)
    BY <2>2, FS_Product
  <2>4. PICK f : f = [x \in D |-> Lane(b, x[1], x[2])]
    OBVIOUS
  <2>5. \A x \in D : x[1] \in A /\ x[2] \in R
    BY <2>3
  <2>6. \A x \in D : f[x] = Lane(b, x[1], x[2]) /\ f[x] \in V
    BY <2>1, <2>4, <2>5, BackboneLinkIs
  <2>7. f \in [D -> V]
    BY <2>4, <2>6
  <2>8. ASSUME NEW l \in V PROVE \E x \in D : f[x] = l
    <3>1. PICK n \in A, r \in R : l = Lane(b, n, r)
      BY <2>1, BackboneLinkIs
    <3>2. <<n, r>> \in D
      BY <2>3
    <3>3. f[<<n, r>>] = l
      BY <3>1, <3>2, <2>6
    <3> QED
      BY <3>2, <3>3
  <2> QED
    BY <2>1, <2>3, <2>7, <2>8, MadeInRounds
<1>3. IsFiniteSet(PeLinks(b))
  <2>1. PICK A, R, V : A = 1..b.pes /\ R = Uplinks(b) /\ V = PeLinks(b)
    OBVIOUS
  <2>2. IsFiniteSet(A) /\ IsFiniteSet(R)
    <3>1. IsFiniteSet(A)
      BY <2>1, <1>1, KnobSizes
    <3>2. IsFiniteSet({0}) /\ IsFiniteSet({0} \cup {1})
      BY FS_Singleton, FS_Union
    <3>3. R = {0} \/ R = {0} \cup {1}
      BY <2>1 DEF Uplinks
    <3> QED
      BY <3>1, <3>2, <3>3
  <2>3. PICK D : D = A \X R /\ IsFiniteSet(D)
    BY <2>2, FS_Product
  <2>4. PICK f : f = [x \in D |-> Uplink(b, x[1], x[2])]
    OBVIOUS
  <2>5. \A x \in D : x[1] \in A /\ x[2] \in R
    BY <2>3
  <2>6. \A x \in D : f[x] = Uplink(b, x[1], x[2]) /\ f[x] \in V
    BY <2>1, <2>4, <2>5, PeLinkIs
  <2>7. f \in [D -> V]
    BY <2>4, <2>6
  <2>8. ASSUME NEW l \in V PROVE \E x \in D : f[x] = l
    <3>1. PICK n \in A, r \in R : l = Uplink(b, n, r)
      BY <2>1, PeLinkIs
    <3>2. <<n, r>> \in D
      BY <2>3
    <3>3. f[<<n, r>>] = l
      BY <3>1, <3>2, <2>6
    <3> QED
      BY <3>2, <3>3
  <2> QED
    BY <2>1, <2>3, <2>7, <2>8, MadeInRounds
<1>4. IsFiniteSet(MeshLinks(b))
  <2> DEFINE link(x, y) ==
        [ends |-> {x, y}, cost |-> CostIntra, srlg |-> NoSrlg, joins |-> {},
         area |-> IF {x, y} = Borders(b, PopOf(b, x)) THEN 0 ELSE PopOf(b, x),
         rank |-> x[2] * 100 + y[2]]
  <2>1. ASSUME NEW l \in MeshLinks(b) PROVE \E x, y \in Routers(b) : l = link(x, y)
    <3>1. PICK pop \in Pops(b) : \E x, y \in PopRouters(b, pop) :
            l = [ends |-> {x, y}, cost |-> CostIntra, srlg |-> NoSrlg, joins |-> {},
                 area |-> IF {x, y} = Borders(b, pop) THEN 0 ELSE pop,
                 rank |-> x[2] * 100 + y[2]]
      BY MeshLinksAre
    <3>2. PICK x, y \in PopRouters(b, pop) :
            l = [ends |-> {x, y}, cost |-> CostIntra, srlg |-> NoSrlg, joins |-> {},
                 area |-> IF {x, y} = Borders(b, pop) THEN 0 ELSE pop,
                 rank |-> x[2] * 100 + y[2]]
      BY <3>1
    <3>3. PopOf(b, x) = pop /\ x \in Routers(b) /\ y \in Routers(b)
      BY Located DEF Routers
    <3>4. l = link(x, y)
      BY <3>2, <3>3
    <3> HIDE DEF link
    <3> QED
      BY <3>3, <3>4
  <2> HIDE DEF link
  <2>2. PICK A : A = Routers(b)
    OBVIOUS
  <2>3. PICK D : D = A \X A /\ IsFiniteSet(D)
    BY <2>2, RoutersFinite, FS_Product
  <2>4. PICK V : V = {link(x[1], x[2]) : x \in D}
    OBVIOUS
  <2>5. PICK f : f = [x \in D |-> link(x[1], x[2])]
    OBVIOUS
  <2>6. \A x \in D : f[x] = link(x[1], x[2]) /\ f[x] \in V
    BY <2>4, <2>5
  <2>7. f \in [D -> V] /\ \A v \in V : \E x \in D : f[x] = v
    BY <2>4, <2>5, <2>6
  <2>8. IsFiniteSet(V)
    BY <2>3, <2>7, MadeInRounds
  <2>9. ASSUME NEW l \in MeshLinks(b) PROVE l \in V
    <3>1. PICK x, y \in A : l = link(x, y)
      BY <2>1, <2>2
    <3>2. <<x, y>> \in D /\ l = link(<<x, y>>[1], <<x, y>>[2])
      BY <3>1, <2>3
    <3> QED
      BY <3>2, <2>4
  <2> QED
    BY <2>8, <2>9, FS_Subset
<1> QED
  BY <1>2, <1>3, <1>4

LEMMA NodesCounted ==
  ASSUME NEW b \in Knobs
  PROVE  /\ NodeCount(b) \in Nat
         /\ \A x \in {b.pops * b.perPop, b.pes, b.branch, b.hub, b.dc} :
              x \in Nat /\ x <= NodeCount(b)
<1>1. PICK p, e \in Nat : p = b.pops * b.perPop /\ e = b.pes
  BY KnobSizes
<1>2. PICK br, hu, dc \in Nat : br = b.branch /\ hu = b.hub /\ dc = b.dc
  BY EdgeSizes
<1>3. NodeCount(b) = p + e + 3 * br + 4 * (hu + dc)
  BY <1>1, <1>2 DEF NodeCount
<1>4. PICK z \in Nat : z = NodeCount(b) /\ z = p + e + 3 * br + 4 * (hu + dc)
  BY <1>3
<1>5. p <= z /\ e <= z /\ br <= z /\ hu <= z /\ dc <= z
  BY <1>4
<1> QED
  BY <1>1, <1>2, <1>4, <1>5

CounterBlocks == {"p_p", "pe_p", "p_lo", "pe_lo", "branch_lo", "hub_lo", "dc_lo", "mgmt"}

LEMMA CountersAre ==
  ASSUME NEW b \in Knobs
  PROVE  /\ \A c \in Counters(b) : /\ c.block \in CounterBlocks /\ c.first \in {0, 1, 101}
                                   /\ c.count \in Nat
         /\ \A c, d \in Counters(b) : c.block = d.block => c = d
         /\ IsFiniteSet(Counters(b))
<1>1. PICK x, y, z \in Nat :
        /\ x = 2 * Cardinality(MeshLinks(b) \cup BackboneLinks(b))
        /\ y = 2 * Cardinality(PeLinks(b)) /\ z = NodeCount(b)
  <2>1. IsFiniteSet(MeshLinks(b) \cup BackboneLinks(b)) /\ IsFiniteSet(PeLinks(b))
    BY LinksFinite, FS_Union
  <2>2. PICK i, j \in Nat : /\ i = Cardinality(MeshLinks(b) \cup BackboneLinks(b))
                            /\ j = Cardinality(PeLinks(b))
    BY <2>1, FS_CardinalityType
  <2>3. NodeCount(b) \in Nat
    BY NodesCounted
  <2> QED
    BY <2>2, <2>3
<1>2. \A n \in {b.pops * b.perPop, b.pes, b.branch, b.hub, b.dc} : n \in Nat
  BY NodesCounted
<1> DEFINE r1 == [block |-> "p_p", first |-> 0, count |-> x]
           r2 == [block |-> "pe_p", first |-> 0, count |-> y]
           r3 == [block |-> "p_lo", first |-> 1, count |-> b.pops * b.perPop]
           r4 == [block |-> "pe_lo", first |-> 1, count |-> b.pes]
           r5 == [block |-> "branch_lo", first |-> 1, count |-> b.branch]
           r6 == [block |-> "hub_lo", first |-> 1, count |-> b.hub]
           r7 == [block |-> "dc_lo", first |-> 1, count |-> b.dc]
           r8 == [block |-> "mgmt", first |-> 101, count |-> z]
<1>3. Counters(b) = {r1, r2, r3, r4, r5, r6, r7, r8}
  BY <1>1 DEF Counters
<1>4. \A c \in Counters(b) :
         c.block \in CounterBlocks /\ c.first \in {0, 1, 101} /\ c.count \in Nat
  BY <1>1, <1>2, <1>3 DEF CounterBlocks
<1>5. \A c, d \in Counters(b) : c.block = d.block => c = d
  BY <1>3
<1>6. IsFiniteSet(Counters(b))
  <2> HIDE DEF r1, r2, r3, r4, r5, r6, r7, r8
  <2>1. \A c : IsFiniteSet({c})
    BY FS_Singleton
  <2>2. \A V, c : IsFiniteSet(V) => IsFiniteSet(V \cup {c})
    BY <2>1, FS_Union
  <2>3. IsFiniteSet({r1} \cup {r2} \cup {r3} \cup {r4})
    BY <2>1, <2>2
  <2>4. IsFiniteSet({r1} \cup {r2} \cup {r3} \cup {r4} \cup {r5} \cup {r6} \cup {r7} \cup {r8})
    BY <2>2, <2>3
  <2>5. Counters(b) = {r1} \cup {r2} \cup {r3} \cup {r4} \cup {r5} \cup {r6} \cup {r7} \cup {r8}
    BY <1>3
  <2> QED
    BY <2>4, <2>5
<1> QED
  BY <1>4, <1>5, <1>6

LEMMA CoreAddressesAre ==
  ASSUME NEW b, NEW a
  PROVE  a \in CoreAddresses(b) <=>
           \E c \in Counters(b) : \E n \in 0..(c.count - 1) : a = <<c.block, 0, c.first + n, n>>
BY DEF CoreAddresses

LEMMA CoreApart ==
  ASSUME NEW b \in Knobs, NEW a \in CoreAddresses(b), NEW d \in CoreAddresses(b),
         a[1] = d[1], a[3] = d[3]
  PROVE  a = d
<1>8. PICK c \in Counters(b) :
        \E n \in 0..(c.count - 1) : a = <<c.block, 0, c.first + n, n>>
  BY CoreAddressesAre
<1>9. PICK c2 \in Counters(b) :
        \E n \in 0..(c2.count - 1) : d = <<c2.block, 0, c2.first + n, n>>
  BY CoreAddressesAre
<1>1. PICK n \in 0..(c.count - 1) : a = <<c.block, 0, c.first + n, n>>
  BY <1>8
<1>2. PICK m \in 0..(c2.count - 1) : d = <<c2.block, 0, c2.first + m, m>>
  BY <1>9
<1>3. c = c2
  BY <1>1, <1>2, CountersAre
<1>4. c.first \in Nat /\ c.count \in Nat
  BY CountersAre
<1>5. n \in Nat /\ m \in Nat
  BY <1>3, <1>4
<1>6. c.first + n = c.first + m
  BY <1>1, <1>2, <1>3
<1>7. n = m
  BY <1>4, <1>5, <1>6
<1> QED
  BY <1>1, <1>2, <1>3, <1>7

LEMMA CoreFinite ==
  ASSUME NEW b \in Knobs
  PROVE  IsFiniteSet(CoreAddresses(b))
<1> DEFINE of(c) == {<<c.block, 0, c.first + n, n>> : n \in 0..(c.count - 1)}
           all == {of(c) : c \in Counters(b)}
<1>1. IsFiniteSet(Counters(b))
  BY CountersAre
<1>2. IsFiniteSet(all)
  <2> HIDE DEF of
  <2>1. PICK C, f : C = Counters(b) /\ f = [c \in C |-> of(c)]
    OBVIOUS
  <2>2. f \in [C -> all] /\ \A v \in all : \E c \in C : f[c] = v
    BY <2>1
  <2> HIDE DEF all
  <2>3. f \in Surjection(C, all)
    BY <2>2 DEF Surjection
  <2> QED
    BY <2>1, <2>3, <1>1, FS_Surjection
<1>3. ASSUME NEW c \in Counters(b) PROVE IsFiniteSet(of(c))
  <2>1. PICK k, j \in Nat, g \in CounterBlocks : k = c.count /\ j = c.first /\ g = c.block
    BY CountersAre
  <2>2. IsFiniteSet(0..(k - 1))
    BY FS_Interval
  <2>3. PICK N, V, f : /\ N = 0..(k - 1) /\ V = {<<g, 0, j + n, n>> : n \in N}
                       /\ f = [n \in N |-> <<g, 0, j + n, n>>]
    OBVIOUS
  <2>4. f \in [N -> V] /\ \A v \in V : \E n \in N : f[n] = v
    BY <2>3
  <2>5. f \in Surjection(N, V)
    BY <2>4 DEF Surjection
  <2>6. IsFiniteSet(V)
    BY <2>2, <2>3, <2>5, FS_Surjection
  <2>7. V = of(c)
    BY <2>1, <2>3
  <2> QED
    BY <2>6, <2>7
<1>4. CoreAddresses(b) = UNION all
  BY Zenon DEF CoreAddresses
<1>5. \A u \in all : IsFiniteSet(u)
  <2> HIDE DEF of
  <2> QED
    BY <1>3
<1> HIDE DEF all
<1> QED
  BY <1>2, <1>4, <1>5, FS_UNION

(* The octets of the counters, while there is room.                        *)
LEMMA CountersFit ==
  ASSUME NEW b \in Knobs,
         Cardinality(MeshLinks(b) \cup BackboneLinks(b)) <= 128,
         Cardinality(PeLinks(b)) <= 128, NodeCount(b) <= 154,
         NEW a \in CoreAddresses(b)
  PROVE  a[3] \in (IF a[1] \in {"p_p", "pe_p"} THEN 0..255 ELSE 1..254)
<1>9. PICK c \in Counters(b) :
        \E n \in 0..(c.count - 1) : a = <<c.block, 0, c.first + n, n>>
  BY CoreAddressesAre
<1>1. PICK n \in 0..(c.count - 1) : a = <<c.block, 0, c.first + n, n>>
  BY <1>9
<1>2. PICK i, j \in Nat : /\ i = Cardinality(MeshLinks(b) \cup BackboneLinks(b))
                          /\ j = Cardinality(PeLinks(b)) /\ i <= 128 /\ j <= 128
  <2>1. IsFiniteSet(MeshLinks(b) \cup BackboneLinks(b)) /\ IsFiniteSet(PeLinks(b))
    BY LinksFinite, FS_Union
  <2> QED
    BY <2>1, FS_CardinalityType
<1>3. PICK z \in Nat : z = NodeCount(b) /\ z <= 154
  BY NodesCounted
<1>4. \/ c.block \in {"p_p", "pe_p"} /\ c.first = 0 /\ c.count \in {2 * i, 2 * j}
      \/ /\ c.block \in CounterBlocks \ {"p_p", "pe_p"} /\ c.first = 1
         /\ c.count \in {b.pops * b.perPop, b.pes, b.branch, b.hub, b.dc}
      \/ c.block = "mgmt" /\ c.first = 101 /\ c.count = z
  BY <1>2, <1>3 DEF Counters, CounterBlocks
<1>5. a[1] = c.block /\ a[3] = c.first + n
  BY <1>1
<1>6. CASE c.block \in {"p_p", "pe_p"} /\ c.first = 0 /\ c.count \in {2 * i, 2 * j}
  <2>1. n \in 0..255
    BY <1>2, <1>6
  <2> QED
    BY <2>1, <1>5, <1>6
<1>7. CASE /\ c.block \in CounterBlocks \ {"p_p", "pe_p"} /\ c.first = 1
           /\ c.count \in {b.pops * b.perPop, b.pes, b.branch, b.hub, b.dc}
  <2>3. c.count \in Nat /\ c.count <= z
    BY <1>3, <1>7, NodesCounted
  <2>1. n \in 0..153
    BY <1>3, <2>3
  <2>2. c.first + n \in 1..254
    BY <2>1, <1>7
  <2> QED
    BY <2>2, <1>5, <1>7
<1>8. CASE c.block = "mgmt" /\ c.first = 101 /\ c.count = z
  <2>1. n \in 0..153
    BY <1>3, <1>8
  <2>2. c.first + n \in 1..254
    BY <2>1, <1>8
  <2> QED
    BY <2>2, <1>5, <1>8
<1> QED
  BY <1>4, <1>6, <1>7, <1>8

LEMMA BlocksApart ==
  ASSUME NEW b \in Knobs
  PROVE  /\ \A a \in EdgeAddresses(b) : a[1] \in {"pe_side", "ce_side", "lan", "wg"}
         /\ \A a \in CoreAddresses(b) : a[1] \in CounterBlocks /\ a[2] = 0
<1>1. \A a \in EdgeAddresses(b) : a[1] \in {"pe_side", "ce_side", "lan", "wg"}
  BY EdgeAddressesAre
<1>2. ASSUME NEW a \in CoreAddresses(b) PROVE a[1] \in CounterBlocks /\ a[2] = 0
  <2>1. PICK c \in Counters(b) : \E n : a = <<c.block, 0, c.first + n, n>>
    BY CoreAddressesAre
  <2> QED
    BY <2>1, CountersAre
<1> QED
  BY <1>1, <1>2

LEMMA NoneCollide ==
  ASSUME NEW b \in Knobs, Roomy(b)
  PROVE  ~ Collides(b)
<1> DEFINE A == Addresses(b)
           f == [a \in A |-> <<a[1], a[2], a[3]>>]
           V == {<<a[1], a[2], a[3]>> : a \in A}
<1>1. IsFiniteSet(A)
  BY EdgeFinite, CoreFinite, FS_Union DEF Addresses
<1>2. \A a, c \in A : f[a] = f[c] => a = c
  <2>1. \A a \in A : f[a] = <<a[1], a[2], a[3]>>
    OBVIOUS
  <2>2. \A a \in A : a \in EdgeAddresses(b) \/ a \in CoreAddresses(b)
    BY DEF Addresses
  <2>3. {"pe_side", "ce_side", "lan", "wg"} \cap CounterBlocks = {}
    BY DEF CounterBlocks
  <2> HIDE DEF f, A
  <2>4. ASSUME NEW a \in A, NEW c \in A, f[a] = f[c] PROVE a = c
    <3>1. a[1] = c[1] /\ a[2] = c[2] /\ a[3] = c[3]
      BY <2>1, <2>4
    <3>2. CASE a \in EdgeAddresses(b)
      <4>1. c \in EdgeAddresses(b)
        BY <3>1, <3>2, <2>2, <2>3, BlocksApart
      <4> QED
        BY <3>1, <3>2, <4>1, EdgeApart
    <3>3. CASE a \in CoreAddresses(b)
      <4>1. c \in CoreAddresses(b)
        BY <3>1, <3>3, <2>2, <2>3, BlocksApart
      <4> QED
        BY <3>1, <3>3, <4>1, CoreApart
    <3> QED
      BY <3>2, <3>3, <2>2
  <2> QED
    BY <2>4
<1> HIDE DEF A
<1>3. f \in [A -> V] /\ \A t \in V : \E a \in A : f[a] = t
  OBVIOUS
<1> HIDE DEF f, V
<1>4. f \in Surjection(A, V) /\ f \in Injection(A, V)
  BY <1>2, <1>3 DEF Surjection, Injection, IsInjective
<1>5. Cardinality(V) = Cardinality(A) /\ Cardinality(A) \in Nat
  BY <1>1, <1>4, FS_Surjection, FS_CardinalityType
<1> QED
  BY <1>5 DEF Collides, A, V

(* The blocks of addresses hold what the generator's checks accept, and    *)
(* the checks accept every customer edge of up to 64 sites with up to 10   *)
(* hubs, however the core is built.                                        *)
THEOREM RoomForTheEdge == CoreSpec => []AddressesFit
<1>1. CoreInit => knobs \in Knobs
  BY DEF CoreInit
<1>2. knobs \in Knobs /\ [CoreNext]_coreVars => (knobs \in Knobs)'
  BY DEF CoreNext, coreVars, Start, FlapReturns, Stop
<1>3. knobs \in Knobs => AddressesFit
  <2> SUFFICES ASSUME knobs \in Knobs PROVE AddressesFit
    OBVIOUS
  <2>1. Accepted(knobs) => \A a \in EdgeAddresses(knobs) :
          a[3] \in (IF a[1] = "lan" THEN 0..255 ELSE 1..254)
    BY OctetsFit DEF Accepted
  <2>3. /\ Cardinality(MeshLinks(knobs) \cup BackboneLinks(knobs)) <= 128
        /\ Cardinality(PeLinks(knobs)) <= 128
        /\ NodeCount(knobs) <= 154
        => \A a \in CoreAddresses(knobs) :
             a[3] \in (IF a[1] \in {"p_p", "pe_p"} THEN 0..255 ELSE 1..254)
    BY CountersFit
  <2>2. knobs.branch + knobs.hub + knobs.dc <= 64 /\ knobs.hub <= 10 => Accepted(knobs)
    BY RoomyFits, NoneCollide, IbgpCounts, WgCounts DEF Roomy, Accepted, CheckPasses
  <2> QED
    BY <2>1, <2>2, <2>3 DEF AddressesFit
<1> QED
  BY <1>1, <1>2, <1>3, PTL DEF CoreSpec

(* Generator, controller, prediction graph and replay agree on the lab,    *)
(* whatever its knobs: the addresses fit, the tunnels steered over are the *)
(* WireGuard peerings, and the replay numbers every node's interfaces as   *)
(* the generator does.                                                     *)
THEOREM OneLab == CoreSpec => []LabTablesAgree
<1>1. CoreInit => knobs \in Knobs
  BY DEF CoreInit
<1>2. knobs \in Knobs /\ [CoreNext]_coreVars => (knobs \in Knobs)'
  BY DEF CoreNext, coreVars, Start, FlapReturns, Stop
<1>3. knobs \in Knobs => ReplayAgrees
  BY EndsReplayed, OverlaysAgree DEF ReplayAgrees
<1>4. CoreSpec => [](knobs \in Knobs)
  BY <1>1, <1>2, PTL DEF CoreSpec
<1>5. CoreSpec => []AddressesFit /\ []DerivedTablesAgree
  BY RoomForTheEdge, TablesOfTheLab
<1>6. knobs \in Knobs /\ AddressesFit /\ DerivedTablesAgree => LabTablesAgree
  BY <1>3 DEF LabTablesAgree
<1> QED
  BY <1>4, <1>5, <1>6, PTL

-----------------------------------------------------------------------------
(* Around the ring, in the lane of the h-th borders.                       *)

Along(b, links, h, x, y) == Tied(links, Border(b, x, h), Border(b, y, h))

LEMMA AlongIs ==
  ASSUME NEW b, NEW links, NEW h
  PROVE  /\ \A x : Along(b, links, h, x, x)
         /\ \A x, y : Along(b, links, h, x, y) => Along(b, links, h, y, x)
         /\ \A x, y, z : Along(b, links, h, x, y) /\ Along(b, links, h, y, z)
                           => Along(b, links, h, x, z)
BY TiedIs DEF Along

LEMMA NextIs ==
  ASSUME NEW b \in Knobs, NEW n \in Pops(b)
  PROVE  Next1(b, n) = IF n = b.pops THEN 1 ELSE n + 1
<1>1. PICK m \in Nat : m = b.pops
  BY KnobSizes
<1>2. n \in 1..m
  BY <1>1 DEF Pops
<1>3. CASE n = m
  <2>1. n % m = 0
    BY <1>2, <1>3
  <2> QED
    BY <1>1, <1>3, <2>1 DEF Next1
<1>4. CASE n < m
  <2>1. n % m = n
    BY <1>2, <1>4
  <2> QED
    BY <1>1, <1>4, <2>1 DEF Next1
<1> QED
  BY <1>2, <1>3, <1>4

LEMMA LaneArc ==
  ASSUME NEW b, NEW links, NEW h, NEW a \in Nat, NEW c \in Nat,
         \A n \in Nat : a <= n /\ n < c => Along(b, links, h, n, n + 1)
  PROVE  \A n \in a..c : Along(b, links, h, a, n)
<1> DEFINE V == {n \in Nat : n \in a..c /\ ~Along(b, links, h, a, n)}
<1> SUFFICES ASSUME V # {} PROVE FALSE
  OBVIOUS
<1>1. PICK n \in V : \A o \in V : n <= o
  <2>1. V \in SUBSET Nat
    OBVIOUS
  <2> HIDE DEF V
  <2> QED
    BY <2>1, NatMin
<1>2. n \in Nat /\ n \in a..c /\ ~Along(b, links, h, a, n)
  OBVIOUS
<1>3. n # a
  BY <1>2, AlongIs
<1>4. PICK o \in Nat : n = o + 1 /\ a <= o /\ o < c
  <2>1. n - 1 \in Nat /\ n = (n - 1) + 1 /\ a <= n - 1 /\ n - 1 < c
    BY <1>2, <1>3
  <2> QED
    BY <2>1
<1>5. o \notin V
  BY <1>1, <1>4
<1>6. o \in a..c
  BY <1>4
<1>7. Along(b, links, h, a, o)
  BY <1>5, <1>6
<1>8. Along(b, links, h, o, n)
  BY <1>4
<1> QED
  BY <1>2, <1>7, <1>8, AlongIs

(* An arc of the ring and the rest of it are tied each, when the edges     *)
(* within them are.                                                        *)
LEMMA SidesTied ==
  ASSUME NEW b \in Knobs, NEW links, NEW h, NEW a \in Pops(b), NEW c \in Pops(b), a <= c,
         \A n \in Pops(b) : (n \in a..c <=> Next1(b, n) \in a..c)
                              => Along(b, links, h, n, Next1(b, n))
  PROVE  \A x, y \in Pops(b) : (x \in a..c <=> y \in a..c) => Along(b, links, h, x, y)
<1>1. PICK m \in Nat : m = b.pops /\ Pops(b) = 1..m
  BY KnobSizes DEF Pops
<1>2. a \in Nat /\ c \in Nat /\ 1 <= a /\ c <= m
  BY <1>1
<1>3. \A n \in 1..m : n # m => Next1(b, n) = n + 1
  BY <1>1, NextIs
<1>4. Next1(b, m) = 1
  BY <1>1, <1>2, NextIs
<1>5. \A n \in a..c : Along(b, links, h, a, n)
  <2>1. ASSUME NEW n \in Nat, a <= n, n < c PROVE Along(b, links, h, n, n + 1)
    BY <2>1, <1>1, <1>2, <1>3
  <2> QED
    BY <2>1, <1>2, LaneArc
<1>6. \A n \in 1..(a - 1) : Along(b, links, h, 1, n)
  <2>1. ASSUME NEW n \in Nat, 1 <= n, n < a - 1 PROVE Along(b, links, h, n, n + 1)
    BY <2>1, <1>1, <1>2, <1>3
  <2>2. a - 1 \in Nat
    BY <1>2
  <2> QED
    BY <2>1, <2>2, LaneArc
<1>7. \A n \in (c + 1)..m : Along(b, links, h, c + 1, n)
  <2>1. ASSUME NEW n \in Nat, c + 1 <= n, n < m PROVE Along(b, links, h, n, n + 1)
    BY <2>1, <1>1, <1>2, <1>3
  <2>2. c + 1 \in Nat
    BY <1>2
  <2> QED
    BY <2>1, <2>2, LaneArc
<1>8. ASSUME a > 1, c < m PROVE Along(b, links, h, m, 1)
  BY <1>8, <1>1, <1>2, <1>4
<1>9. ASSUME NEW x \in 1..m, NEW y \in 1..m, x \in a..c <=> y \in a..c
      PROVE  Along(b, links, h, x, y)
  <2>1. CASE x \in a..c
    BY <2>1, <1>5, <1>9, AlongIs
  <2>2. CASE x < a /\ y < a
    BY <2>2, <1>2, <1>6, AlongIs
  <2>3. CASE x > c /\ y > c
    BY <2>3, <1>2, <1>7, AlongIs
  <2>4. ASSUME NEW u \in 1..m, NEW v \in 1..m, u < a, v > c PROVE Along(b, links, h, u, v)
    <3>1. Along(b, links, h, 1, u)
      BY <2>4, <1>2, <1>6
    <3>2. Along(b, links, h, c + 1, v) /\ Along(b, links, h, c + 1, m)
      BY <2>4, <1>2, <1>7
    <3>3. Along(b, links, h, m, 1)
      BY <2>4, <1>2, <1>8
    <3> QED
      BY <3>1, <3>2, <3>3, AlongIs
  <2>5. x \notin a..c => (x < a \/ x > c) /\ (y < a \/ y > c)
    BY <1>2, <1>9
  <2> QED
    BY <2>1, <2>2, <2>3, <2>4, <2>5, AlongIs
<1> QED
  BY <1>1, <1>9

(* Any one edge of the ring can be missed.                                 *)
LEMMA RingTied ==
  ASSUME NEW b \in Knobs, NEW links, NEW h, NEW o \in Pops(b),
         \A n \in Pops(b) : n # o => Along(b, links, h, n, Next1(b, n))
  PROVE  \A x, y \in Pops(b) : Along(b, links, h, x, y)
<1>1. PICK m \in Nat : m = b.pops /\ Pops(b) = 1..m
  BY KnobSizes DEF Pops
<1>2. o \in Nat /\ 1 <= o /\ o <= m
  BY <1>1
<1>3. \A n \in 1..m : n # m => Next1(b, n) = n + 1
  BY <1>1, NextIs
<1>4. Next1(b, m) = 1
  BY <1>1, <1>2, NextIs
<1>5. \A n \in 1..o : Along(b, links, h, 1, n)
  <2>1. ASSUME NEW n \in Nat, 1 <= n, n < o PROVE Along(b, links, h, n, n + 1)
    BY <2>1, <1>1, <1>2, <1>3
  <2> QED
    BY <2>1, <1>2, LaneArc
<1>6. \A n \in (o + 1)..m : Along(b, links, h, o + 1, n)
  <2>1. ASSUME NEW n \in Nat, o + 1 <= n, n < m PROVE Along(b, links, h, n, n + 1)
    BY <2>1, <1>1, <1>2, <1>3
  <2>2. o + 1 \in Nat
    BY <1>2
  <2> QED
    BY <2>1, <2>2, LaneArc
<1>7. \A n \in 1..m : Along(b, links, h, 1, n)
  <2> SUFFICES ASSUME NEW n \in 1..m, n > o PROVE Along(b, links, h, 1, n)
    BY <1>2, <1>5
  <2>1. Along(b, links, h, o + 1, n) /\ Along(b, links, h, o + 1, m)
    BY <1>2, <1>6
  <2>2. Along(b, links, h, m, 1)
    BY <1>1, <1>2, <1>4
  <2> QED
    BY <2>1, <2>2, AlongIs
<1> QED
  BY <1>1, <1>7, AlongIs

-----------------------------------------------------------------------------
(* Reachability in a lab.                                                  *)

InLab == knobs \in Knobs /\ knobs.pops >= 1 /\ meta = TopoMeta(knobs)

LEMMA AreasAre ==
  ASSUME InLab
  PROVE  /\ InArea = {l \in CoreLinks(knobs) : l.area # 0 /\ Works(l)}
         /\ InBackbone = {l \in CoreLinks(knobs) : l.area = 0 /\ Works(l)}
         /\ meta.abrs = Abrs(knobs)
         /\ \A l \in CoreLinks(knobs) : l.ends \subseteq Routers(knobs)
         /\ IsFiniteSet(Routers(knobs)) /\ Abrs(knobs) \subseteq Routers(knobs)
<1>1. meta.core_links = CoreLinks(knobs)
  BY Zenon DEF TopoMeta, InLab
<1>2. meta.abrs = Abrs(knobs)
  BY MetaIs DEF InLab
<1>3. \A l \in CoreLinks(knobs) : l.ends \subseteq Routers(knobs)
  BY LinkJoins DEF InLab
<1>4. Abrs(knobs) \subseteq Routers(knobs)
  BY AbrsArePs DEF Routers, InLab
<1>5. IsFiniteSet(Routers(knobs))
  BY RoutersFinite DEF InLab
<1> QED
  BY <1>1, <1>2, <1>3, <1>4, <1>5 DEF InArea, InBackbone

(* Spread reaches what is tied to a router it starts from.                 *)
LEMMA TiedIsReached ==
  ASSUME InLab, NEW links \in SUBSET CoreLinks(knobs), NEW from \in SUBSET Routers(knobs),
         NEW x \in from, NEW y, Tied(links, x, y)
  PROVE  y \in Spread(links, from)
<1>1. Closed(links, Spread(links, from)) /\ from \subseteq Spread(links, from)
  BY AreasAre, SpreadIs
<1> QED
  BY <1>1 DEF Tied

LEMMA ReachFromIs ==
  ASSUME InLab, NEW r \in Routers(knobs), NEW x
  PROVE  <<r, x>> \in Reach <=> x \in ReachFrom(r, InArea, InBackbone)
BY DEF Reach

LEMMA WiredIs ==
  ASSUME InLab, NEW r \in Routers(knobs), NEW x
  PROVE  <<r, x>> \in Wired <=> x \in Spread(InArea \cup InBackbone, {r})
<1> DEFINE reach(q) == Spread(InArea \cup InBackbone, {q})
<1>1. Wired = UNION {{q} \X reach(q) : q \in Routers(knobs)}
  BY Zenon DEF Wired
<1> HIDE DEF reach
<1>2. <<r, x>> \in Wired <=> x \in reach(r)
  BY <1>1
<1> QED
  BY <1>2 DEF reach

LEMMA NearIs ==
  ASSUME InLab, NEW r \in Routers(knobs)
  PROVE  \E Near, Far \in SUBSET Routers(knobs) :
            /\ Near = Spread(InArea, {r})
            /\ Far = Spread(InBackbone, Near \cap Abrs(knobs))
            /\ ReachFrom(r, InArea, InBackbone) = Near \cup Spread(InArea, Far)
<1>1. InArea \subseteq CoreLinks(knobs) /\ InBackbone \subseteq CoreLinks(knobs)
  BY AreasAre
<1>2. ASSUME NEW links \in SUBSET CoreLinks(knobs), NEW from \in SUBSET Routers(knobs)
      PROVE  Spread(links, from) \in SUBSET Routers(knobs)
  BY AreasAre, SpreadIs
<1>3. PICK Near \in SUBSET Routers(knobs) : Near = Spread(InArea, {r})
  BY <1>1, <1>2
<1>4. Near \cap Abrs(knobs) \in SUBSET Routers(knobs)
  BY <1>3
<1>5. PICK Far \in SUBSET Routers(knobs) : Far = Spread(InBackbone, Near \cap Abrs(knobs))
  BY <1>1, <1>2, <1>4
<1>6. meta.abrs = Abrs(knobs)
  BY AreasAre
<1>7. ReachFrom(r, InArea, InBackbone) = Near \cup Spread(InArea, Far)
  BY <1>3, <1>5, <1>6 DEF ReachFrom
<1> QED
  BY <1>3, <1>5, <1>7

(* From a router by its area to an ABR, over the backbone to another and   *)
(* on by its area.                                                         *)
LEMMA ReachesAcross ==
  ASSUME InLab, NEW r \in Routers(knobs), NEW s \in Routers(knobs),
         NEW a \in Abrs(knobs), NEW c \in Abrs(knobs),
         Tied(InArea, r, a), Tied(InBackbone, a, c), Tied(InArea, c, s)
  PROVE  <<r, s>> \in Reach
<1>1. InArea \in SUBSET CoreLinks(knobs) /\ InBackbone \in SUBSET CoreLinks(knobs)
  BY AreasAre
<1>2. PICK Near, Far \in SUBSET Routers(knobs) :
            /\ Near = Spread(InArea, {r})
            /\ Far = Spread(InBackbone, Near \cap Abrs(knobs))
            /\ ReachFrom(r, InArea, InBackbone) = Near \cup Spread(InArea, Far)
  BY NearIs
<1>3. a \in Near
  BY <1>1, <1>2, TiedIsReached
<1>4. c \in Far
  BY <1>1, <1>2, <1>3, TiedIsReached
<1>5. s \in Spread(InArea, Far)
  BY <1>1, <1>2, <1>4, TiedIsReached
<1> QED
  BY <1>2, <1>5, ReachFromIs

(* Nothing leaves a set that the links of both kinds do not leave.         *)
LEMMA ReachStays ==
  ASSUME InLab, NEW D \in SUBSET Routers(knobs), Closed(InArea, D), Closed(InBackbone, D),
         NEW r \in D, NEW x
  PROVE  /\ <<r, x>> \in Reach => x \in D
         /\ <<r, x>> \in Wired => x \in D
<1>1. InArea \in SUBSET CoreLinks(knobs) /\ InBackbone \in SUBSET CoreLinks(knobs)
  BY AreasAre
<1>2. PICK Near, Far \in SUBSET Routers(knobs) :
            /\ Near = Spread(InArea, {r})
            /\ Far = Spread(InBackbone, Near \cap Abrs(knobs))
            /\ ReachFrom(r, InArea, InBackbone) = Near \cup Spread(InArea, Far)
  BY NearIs
<1>3. ASSUME NEW links \in SUBSET CoreLinks(knobs), NEW from \in SUBSET Routers(knobs),
             from \subseteq D, Closed(links, D)
      PROVE  Spread(links, from) \subseteq D
  BY <1>3, AreasAre, SpreadIs
<1>4. Near \subseteq D
  BY <1>1, <1>2, <1>3
<1>5. Far \subseteq D
  BY <1>1, <1>2, <1>3, <1>4
<1>6. Spread(InArea, Far) \subseteq D
  BY <1>1, <1>2, <1>3, <1>5
<1>7. InArea \cup InBackbone \in SUBSET CoreLinks(knobs) /\ Closed(InArea \cup InBackbone, D)
  BY <1>1 DEF Closed
<1>8. Spread(InArea \cup InBackbone, {r}) \subseteq D
  BY <1>3, <1>7
<1> QED
  BY <1>2, <1>4, <1>6, <1>8, ReachFromIs, WiredIs

-----------------------------------------------------------------------------
(* From a router to the borders of its POP.                                *)

(* Two links of the POP's area, of different ranks, lead from an internal  *)
(* P to the two borders,                                                   *)
LEMMA BorderLinks ==
  ASSUME InLab, NEW pop \in Pops(knobs), NEW r \in Internals(knobs, pop), NEW h \in {1, 2}
  PROVE  \E l \in MeshLinks(knobs) :
           /\ l.ends = {Border(knobs, pop, h), r} /\ l.area # 0
           /\ l.rank = Border(knobs, pop, h)[2] * 100 + r[2]
<1>1. knobs \in Knobs /\ pop \in Pops(knobs) /\ r \in PopRouters(knobs, pop) \ Borders(knobs, pop)
  BY DEF InLab, Internals
<1>2. Border(knobs, pop, h) \in PopRouters(knobs, pop) /\ Border(knobs, pop, h) \in Borders(knobs, pop)
  BY <1>1, BordersAre DEF Borders
<1>3. Border(knobs, pop, h)[2] < r[2]
  <2>1. /\ Border(knobs, pop, 1)[2] < Border(knobs, pop, 2)[2]
        /\ Border(knobs, pop, 2)[2] < r[2]
    BY <1>1, BordersAre
  <2>2. /\ Border(knobs, pop, 1)[2] \in Nat /\ Border(knobs, pop, 2)[2] \in Nat /\ r[2] \in Nat
    <3>1. \A x \in PopRouters(knobs, pop) : x[2] \in Nat
      <4> SUFFICES ASSUME NEW x \in PopRouters(knobs, pop) PROVE x[2] \in Nat
        OBVIOUS
      <4>1. PICK i \in 1..(knobs.pops * knobs.perPop) : x = <<"p", i>>
        BY <1>1, PopRoutersAre
      <4> QED
        BY <1>1, <4>1, KnobSizes
    <3> QED
      BY <1>1, <3>1, BordersAre DEF Borders
  <2> QED
    BY <2>1, <2>2
<1>4. PICK l \in MeshLinks(knobs) :
        /\ l.ends = {Border(knobs, pop, h), r} /\ l.rank = Border(knobs, pop, h)[2] * 100 + r[2]
        /\ l.area = IF {Border(knobs, pop, h), r} = Borders(knobs, pop) THEN 0 ELSE pop
  BY <1>1, <1>2, <1>3, MeshJoins
<1>5. pop # 0
  BY <1>1, KnobSizes DEF Pops
<1> QED
  BY <1>1, <1>4, <1>5

(* and one of the backbone joins these.                                    *)
LEMMA PairLink ==
  ASSUME InLab, NEW pop \in Pops(knobs)
  PROVE  \E l \in MeshLinks(knobs) : l.ends = Borders(knobs, pop) /\ l.area = 0
<1>1. /\ Borders(knobs, pop) = {Border(knobs, pop, 1), Border(knobs, pop, 2)}
      /\ Border(knobs, pop, 1) \in PopRouters(knobs, pop)
      /\ Border(knobs, pop, 2) \in PopRouters(knobs, pop)
      /\ Border(knobs, pop, 1)[2] < Border(knobs, pop, 2)[2]
  BY BordersAre DEF Borders, InLab
<1>2. PICK l \in MeshLinks(knobs) :
        /\ l.ends = {Border(knobs, pop, 1), Border(knobs, pop, 2)}
        /\ l.area = IF {Border(knobs, pop, 1), Border(knobs, pop, 2)} = Borders(knobs, pop)
                    THEN 0 ELSE pop
  BY <1>1, MeshJoins DEF InLab
<1> QED
  BY <1>1, <1>2

(* The borders that the routers of a POP need to reach.                    *)
HomedAt(r, a) == a \in Borders(knobs, PopOf(knobs, r)) /\ Tied(InArea, r, a)

PsHomed(lost) ==
  \A pop \in Pops(knobs) : \A r \in Internals(knobs, pop) \ lost :
    \E h \in {1, 2} : /\ Border(knobs, pop, h) \notin lost
                      /\ \E l \in InArea : l.ends = {Border(knobs, pop, h), r}

PesHomed(lost) ==
  \A i \in 1..knobs.pes : Pe(i) \notin lost =>
    \E n \in Int : /\ Facing(knobs, PePop(knobs, i), n) \notin lost
                   /\ \E l \in InArea : l.ends = {Pe(i), Facing(knobs, PePop(knobs, i), n)}

LEMMA Homed ==
  ASSUME InLab, NEW lost, PsHomed(lost), PesHomed(lost),
         NEW r \in Routers(knobs) \ lost
  PROVE  /\ PopOf(knobs, r) \in Pops(knobs)
         /\ \E a : a \notin lost /\ HomedAt(r, a)
<1>1. ASSUME NEW p \in Ps(knobs) \ lost
      PROVE  /\ PopOf(knobs, p) \in Pops(knobs)
             /\ \E a : a \notin lost /\ HomedAt(p, a)
  <2>1. PopOf(knobs, p) \in Pops(knobs) /\ p \in PopRouters(knobs, PopOf(knobs, p))
    BY Located DEF InLab
  <2>2. CASE p \in Borders(knobs, PopOf(knobs, p))
    BY <2>1, <2>2, TiedIs DEF HomedAt
  <2>3. CASE p \notin Borders(knobs, PopOf(knobs, p))
    <3>1. p \in Internals(knobs, PopOf(knobs, p)) \ lost
      BY <2>1, <2>3 DEF Internals
    <3>2. PICK h \in {1, 2} :
            /\ Border(knobs, PopOf(knobs, p), h) \notin lost
            /\ \E l \in InArea : l.ends = {Border(knobs, PopOf(knobs, p), h), p}
      BY <2>1, <3>1 DEF PsHomed
    <3>3. Tied(InArea, p, Border(knobs, PopOf(knobs, p), h))
      BY <3>2, TiedIs
    <3> QED
      BY <2>1, <3>2, <3>3 DEF HomedAt, Borders
  <2> QED
    BY <2>2, <2>3
<1>2. ASSUME NEW i \in 1..knobs.pes, r = Pe(i)
      PROVE  /\ PopOf(knobs, r) \in Pops(knobs)
             /\ \E a : a \notin lost /\ HomedAt(r, a)
  <2>1. PICK n \in Int, l \in InArea :
          /\ Facing(knobs, PePop(knobs, i), n) \notin lost
          /\ l.ends = {Pe(i), Facing(knobs, PePop(knobs, i), n)}
    BY <1>2 DEF PesHomed
  <2>2. PICK p : p = Facing(knobs, PePop(knobs, i), n)
    OBVIOUS
  <2>3. /\ PePop(knobs, i) \in Pops(knobs) /\ PopOf(knobs, r) = PePop(knobs, i)
        /\ p \in PopRouters(knobs, PePop(knobs, i))
    BY <1>2, <2>2, PeHomes DEF InLab
  <2>4. p \in Ps(knobs) \ lost /\ PopOf(knobs, p) = PePop(knobs, i)
    BY <2>1, <2>2, <2>3, Located DEF InLab
  <2>5. Tied(InArea, r, p)
    BY <1>2, <2>1, <2>2, TiedIs
  <2>6. PICK a : a \notin lost /\ a \in Borders(knobs, PopOf(knobs, p)) /\ Tied(InArea, p, a)
    BY <2>4, <1>1 DEF HomedAt
  <2> QED
    BY <2>3, <2>4, <2>5, <2>6, TiedIs DEF HomedAt
<1>3. r \in Ps(knobs) \/ \E i \in 1..knobs.pes : r = Pe(i)
  BY DEF Routers, Pes
<1> QED
  BY <1>1, <1>2, <1>3

(* The borders of two POPs are tied when one of each is and each POP's     *)
(* other border is tied to that one, or lost.                              *)
LEMMA BordersTied ==
  ASSUME NEW b, NEW links, NEW h \in {1, 2}, NEW x, NEW y, NEW lost, Along(b, links, h, x, y),
         \A pop \in {x, y} : Border(b, pop, 3 - h) \notin lost =>
           \E l \in links : l.ends = Borders(b, pop),
         NEW a \in Borders(b, x) \ lost, NEW c \in Borders(b, y) \ lost
  PROVE  Tied(links, a, c)
<1>1. ASSUME NEW pop \in {x, y}, NEW d \in Borders(b, pop) \ lost
      PROVE  Tied(links, Border(b, pop, h), d)
  <2>1. 3 - h \in {1, 2} /\ {h, 3 - h} = {1, 2}
    OBVIOUS
  <2>2. Borders(b, pop) = {Border(b, pop, h), Border(b, pop, 3 - h)}
    BY <2>1 DEF Borders
  <2>3. CASE d = Border(b, pop, h)
    BY <2>3, TiedIs
  <2>4. CASE d = Border(b, pop, 3 - h)
    <3>1. PICK l \in links : l.ends = Borders(b, pop)
      BY <2>4, <1>1
    <3>2. l.ends = {Border(b, pop, h), d}
      BY <3>1, <2>2, <2>4
    <3> QED
      BY <3>2, TiedIs
  <2> QED
    BY <2>2, <2>3, <2>4
<1>2. Tied(links, Border(b, x, h), Border(b, y, h))
  BY DEF Along
<1>3. Tied(links, Border(b, x, h), a) /\ Tied(links, Border(b, y, h), c)
  BY <1>1
<1> QED
  BY <1>2, <1>3, TiedIs

-----------------------------------------------------------------------------
(* What the faults of a campaign leave: all links but those of a router,   *)
(* but a single one, or but inter-POP links, those of one duct.            *)

LostRouter(p) == \A l \in CoreLinks(knobs) : Works(l) \/ p \in l.ends
LostLink(p, rank) == \A l \in CoreLinks(knobs) : Works(l) \/ (p \in l.ends /\ l.rank = rank)
LostLanes == \A l \in CoreLinks(knobs) : Works(l) \/ l \in BackboneLinks(knobs)
LostDuct(g) == \A l \in CoreLinks(knobs) : Works(l) \/ (l \in BackboneLinks(knobs) /\ l.srlg = g)

LEMMA InAreaWhen ==
  ASSUME InLab, NEW l \in CoreLinks(knobs), Works(l)
  PROVE  l \in (IF l.area = 0 THEN InBackbone ELSE InArea)
BY AreasAre

LEMMA UplinksAre ==
  ASSUME InLab, Redundant(knobs), NEW i \in 1..knobs.pes, NEW h \in {0, 1}
  PROVE  \E l \in PeLinks(knobs) :
           /\ l.ends = {Pe(i), Facing(knobs, PePop(knobs, i), i - 1 + h)}
           /\ l.area = PePop(knobs, i) /\ l.rank = 20000 + 10 * i + h
<1>1. knobs.dual /\ knobs.perPop > 3
  BY KnobSizes DEF Redundant, InLab
<1>2. h \in Uplinks(knobs)
  BY <1>1 DEF Uplinks
<1>3. Uplink(knobs, i, h) \in PeLinks(knobs)
  BY <1>2, PeLinkIs
<1>4. PICK l : l = Uplink(knobs, i, h)
  OBVIOUS
<1>5. /\ l.ends = {Pe(i), Facing(knobs, PePop(knobs, i), i - 1 + h)}
      /\ l.area = PePop(knobs, i) /\ l.rank = 20000 + 10 * i + h
  BY <1>4, UplinkIs
<1> QED
  BY <1>3, <1>4, <1>5

LEMMA HomesKept ==
  ASSUME InLab, Redundant(knobs), NEW lost,
         \/ \E p \in Ps(knobs) : lost = {p} /\ LostRouter(p)
         \/ lost = {} /\ \E p, rank : LostLink(p, rank)
         \/ lost = {} /\ LostLanes
  PROVE  PsHomed(lost) /\ PesHomed(lost)
<1>1. PsHomed(lost)
  <2> SUFFICES ASSUME NEW pop \in Pops(knobs), NEW r \in Internals(knobs, pop) \ lost
               PROVE  \E h \in {1, 2} : /\ Border(knobs, pop, h) \notin lost
                                        /\ \E l \in InArea : l.ends = {Border(knobs, pop, h), r}
    BY DEF PsHomed
  <2>1. \A h \in {1, 2} : \E l \in MeshLinks(knobs) :
          /\ l.ends = {Border(knobs, pop, h), r} /\ l.area # 0
          /\ l.rank = Border(knobs, pop, h)[2] * 100 + r[2]
    BY BorderLinks
  <2>2. PICK l1 \in MeshLinks(knobs) :
          /\ l1.ends = {Border(knobs, pop, 1), r} /\ l1.area # 0
          /\ l1.rank = Border(knobs, pop, 1)[2] * 100 + r[2]
    BY <2>1
  <2>3. PICK l2 \in MeshLinks(knobs) :
          /\ l2.ends = {Border(knobs, pop, 2), r} /\ l2.area # 0
          /\ l2.rank = Border(knobs, pop, 2)[2] * 100 + r[2]
    BY <2>1
  <2>4. l1 \in CoreLinks(knobs) /\ l2 \in CoreLinks(knobs)
    BY DEF CoreLinks
  <2>5. l1 \notin BackboneLinks(knobs) /\ l2 \notin BackboneLinks(knobs)
    BY MeshRanks, BackboneRanks DEF InLab
  <2>6. Border(knobs, pop, 1) # Border(knobs, pop, 2) /\ l1.rank # l2.rank
    <3>1. PICK n \in Nat : n = (pop - 1) * knobs.perPop
      BY PopIndices DEF InLab
    <3>2. Border(knobs, pop, 1) = <<"p", n + 1>> /\ Border(knobs, pop, 2) = <<"p", n + 2>>
      BY <3>1 DEF Border, P
    <3>3. PICK i \in Nat : r[2] = i
      <4>1. r \in PopRouters(knobs, pop)
        BY DEF Internals
      <4>2. PICK j \in 1..(knobs.pops * knobs.perPop) : r = <<"p", j>>
        BY <4>1, PopRoutersAre DEF InLab
      <4>3. j \in Nat
        BY KnobSizes DEF InLab
      <4> QED
        BY <4>2, <4>3
    <3>4. l1.rank = (n + 1) * 100 + i /\ l2.rank = (n + 2) * 100 + i
      BY <2>2, <2>3, <3>2, <3>3
    <3> QED
      BY <3>2, <3>4
  <2>7. CASE \E p \in Ps(knobs) : lost = {p} /\ LostRouter(p)
    <3>1. PICK p : lost = {p} /\ LostRouter(p)
      BY <2>7
    <3>2. r # p
      BY <3>1
    <3>3. Works(l1) \/ p = Border(knobs, pop, 1)
      BY <2>2, <2>4, <3>1, <3>2 DEF LostRouter
    <3>4. Works(l2) \/ p = Border(knobs, pop, 2)
      BY <2>3, <2>4, <3>1, <3>2 DEF LostRouter
    <3>5. CASE p = Border(knobs, pop, 1)
      BY <2>3, <2>4, <2>6, <3>1, <3>4, <3>5, InAreaWhen
    <3>6. CASE p # Border(knobs, pop, 1)
      BY <2>2, <2>4, <3>1, <3>3, <3>6, InAreaWhen
    <3> QED
      BY <3>5, <3>6
  <2>8. CASE lost = {} /\ \E p, rank : LostLink(p, rank)
    <3>1. Works(l1) \/ Works(l2)
      BY <2>4, <2>6, <2>8 DEF LostLink
    <3> QED
      BY <2>2, <2>3, <2>4, <2>8, <3>1, InAreaWhen
  <2>9. CASE lost = {} /\ LostLanes
    <3>1. Works(l1)
      BY <2>4, <2>5, <2>9 DEF LostLanes
    <3> QED
      BY <2>2, <2>4, <2>9, <3>1, InAreaWhen
  <2> QED
    BY <2>7, <2>8, <2>9
<1>2. PesHomed(lost)
  <2> SUFFICES ASSUME NEW i \in 1..knobs.pes
               PROVE  \E n \in Int :
                        /\ Facing(knobs, PePop(knobs, i), n) \notin lost
                        /\ \E l \in InArea : l.ends = {Pe(i), Facing(knobs, PePop(knobs, i), n)}
    BY DEF PesHomed
  <2>1. PICK n \in Int : n = i - 1
    <3>1. i \in Int
      BY KnobSizes DEF InLab
    <3> QED
      BY <3>1
  <2>2. /\ PePop(knobs, i) \in Pops(knobs)
        /\ Facing(knobs, PePop(knobs, i), n) # Facing(knobs, PePop(knobs, i), n + 1)
    BY PeHomes DEF InLab, Redundant
  <2>3. PePop(knobs, i) # 0
    BY <2>2, KnobSizes DEF Pops, InLab
  <2>4. \A h \in {0, 1} : \E l \in PeLinks(knobs) :
          /\ l.ends = {Pe(i), Facing(knobs, PePop(knobs, i), i - 1 + h)}
          /\ l.area = PePop(knobs, i) /\ l.rank = 20000 + 10 * i + h
    BY UplinksAre
  <2>5. PICK l1 \in PeLinks(knobs) :
          /\ l1.ends = {Pe(i), Facing(knobs, PePop(knobs, i), n)}
          /\ l1.area # 0 /\ l1.rank = 20000 + 10 * i + 0
    BY <2>1, <2>3, <2>4
  <2>6. PICK l2 \in PeLinks(knobs) :
          /\ l2.ends = {Pe(i), Facing(knobs, PePop(knobs, i), n + 1)}
          /\ l2.area # 0 /\ l2.rank = 20000 + 10 * i + 1
    BY <2>1, <2>3, <2>4
  <2>7. l1 \in CoreLinks(knobs) /\ l2 \in CoreLinks(knobs)
    BY DEF CoreLinks
  <2>8. l1 \notin BackboneLinks(knobs)
    BY PeRanks, BackboneRanks DEF InLab
  <2>9. l1.rank # l2.rank
    <3>1. i \in Int
      BY KnobSizes DEF InLab
    <3> QED
      BY <2>5, <2>6, <3>1
  <2>10. n + 1 \in Int
    OBVIOUS
  <2>11. CASE \E p \in Ps(knobs) : lost = {p} /\ LostRouter(p)
    <3>1. PICK p \in Ps(knobs) : lost = {p} /\ LostRouter(p)
      BY <2>11
    <3>2. Pe(i) # p
      BY DEF Pe, Ps, P
    <3>3. Works(l1) \/ p = Facing(knobs, PePop(knobs, i), n)
      BY <2>5, <2>7, <3>1, <3>2 DEF LostRouter
    <3>4. Works(l2) \/ p = Facing(knobs, PePop(knobs, i), n + 1)
      BY <2>6, <2>7, <3>1, <3>2 DEF LostRouter
    <3>5. CASE p = Facing(knobs, PePop(knobs, i), n)
      BY <2>2, <2>6, <2>7, <2>10, <3>1, <3>4, <3>5, InAreaWhen
    <3>6. CASE p # Facing(knobs, PePop(knobs, i), n)
      BY <2>5, <2>7, <3>1, <3>3, <3>6, InAreaWhen
    <3> QED
      BY <3>5, <3>6
  <2>12. CASE lost = {} /\ \E p, rank : LostLink(p, rank)
    <3>1. Works(l1) \/ Works(l2)
      BY <2>7, <2>9, <2>12 DEF LostLink
    <3> QED
      BY <2>5, <2>6, <2>7, <2>10, <2>12, <3>1, InAreaWhen
  <2>13. CASE lost = {} /\ LostLanes
    <3>1. Works(l1)
      BY <2>7, <2>8, <2>13 DEF LostLanes
    <3> QED
      BY <2>5, <2>7, <2>13, <3>1, InAreaWhen
  <2> QED
    BY <2>11, <2>12, <2>13
<1> QED
  BY <1>1, <1>2

RingLink(n, h, l) ==
  /\ l \in CoreLinks(knobs) /\ l \in BackboneLinks(knobs) /\ l.area = 0
  /\ l.ends = {Border(knobs, n, h), Border(knobs, Next1(knobs, n), h)}
  /\ l.joins = {n, Next1(knobs, n)} /\ l.srlg = SrlgOf({n, Next1(knobs, n)})

LEMMA RingLinkExists ==
  ASSUME InLab, Redundant(knobs), NEW n \in Pops(knobs), NEW h \in {1, 2}
  PROVE  /\ \E l : RingLink(n, h, l)
         /\ Next1(knobs, n) \in Pops(knobs)
<1>1. PICK l \in BackboneLinks(knobs) :
        /\ l.ends = {Border(knobs, n, h), Border(knobs, Next1(knobs, n), h)}
        /\ l.joins = {n, Next1(knobs, n)} /\ l.srlg = SrlgOf({n, Next1(knobs, n)})
        /\ l.area = 0
  BY RingJoins DEF InLab, Redundant
<1>2. Next1(knobs, n) \in Pops(knobs)
  <2>1. PICK m \in Nat : m = knobs.pops /\ Pops(knobs) = 1..m /\ m >= 1
    BY KnobSizes DEF Pops, InLab
  <2> QED
    BY <2>1, NextIs DEF InLab
<1> QED
  BY <1>1, <1>2 DEF RingLink, CoreLinks

LEMMA RingLinkTies ==
  ASSUME InLab, NEW n, NEW h, NEW l, RingLink(n, h, l), Works(l)
  PROVE  Along(knobs, InBackbone, h, n, Next1(knobs, n))
<1>1. l \in InBackbone
  BY InAreaWhen DEF RingLink
<1> QED
  BY <1>1, TiedIs DEF Along, RingLink

LEMMA SrlgName ==
  ASSUME NEW x \in Nat, NEW y \in Nat, x < y
  PROVE  SrlgOf({x, y}) = <<"srlg", x * 100 + y>>
BY LeastOfPair DEF SrlgOf

(* Two edges of a ring of three or more have ducts of their own.           *)
LEMMA RingDucts ==
  ASSUME InLab, Redundant(knobs), NEW n \in Pops(knobs), NEW o \in Pops(knobs),
         SrlgOf({n, Next1(knobs, n)}) = SrlgOf({o, Next1(knobs, o)})
  PROVE  n = o
<1>1. PICK m \in Nat : m = knobs.pops /\ Pops(knobs) = 1..m /\ m >= 3 /\ m < 1000
  BY KnobSizes DEF Pops, InLab, Redundant
<1>2. m < 100
  <2>1. PICK q \in Nat : q = knobs.perPop /\ q >= 3 /\ m * q < 100 /\ m * q \in Nat
    BY <1>1, KnobSizes DEF InLab
  <2>2. PICK z \in Nat : q = 1 + z
    <3>1. q - 1 \in Nat /\ q = 1 + (q - 1)
      BY <2>1
    <3> QED
      BY <3>1
  <2>3. m * q = m + m * z /\ m * z \in Nat
    BY <2>2, NatTimes
  <2> QED
    BY <2>1, <2>3
<1>3. ASSUME NEW x \in Pops(knobs)
      PROVE  \E lo, hi \in 1..m :
               /\ lo < hi /\ SrlgOf({x, Next1(knobs, x)}) = <<"srlg", lo * 100 + hi>>
               /\ IF x = m THEN lo = 1 /\ hi = m ELSE lo = x /\ hi = x + 1
  <2>1. Next1(knobs, x) = IF x = m THEN 1 ELSE x + 1
    BY <1>1, NextIs DEF InLab
  <2>2. CASE x = m
    <3>1. 1 \in Nat /\ m \in Nat /\ 1 < m
      BY <1>1
    <3>2. SrlgOf({1, m}) = <<"srlg", 1 * 100 + m>>
      BY <3>1, SrlgName
    <3>3. {x, Next1(knobs, x)} = {1, m}
      BY <2>1, <2>2
    <3>4. PICK lo, hi \in 1..m : lo = 1 /\ hi = m
      BY <1>1
    <3>5. SrlgOf({x, Next1(knobs, x)}) = <<"srlg", lo * 100 + hi>> /\ lo < hi
      BY <3>1, <3>2, <3>3, <3>4
    <3> QED
      BY <2>2, <3>4, <3>5
  <2>3. CASE x # m
    <3>1. x \in Nat /\ x \in 1..m /\ x + 1 \in 1..m /\ x + 1 \in Nat /\ x < x + 1
      BY <1>1, <2>3
    <3>2. SrlgOf({x, x + 1}) = <<"srlg", x * 100 + (x + 1)>>
      BY <3>1, SrlgName
    <3>3. {x, Next1(knobs, x)} = {x, x + 1}
      BY <2>1, <2>3
    <3>4. PICK lo, hi \in 1..m : lo = x /\ hi = x + 1
      BY <3>1
    <3>5. SrlgOf({x, Next1(knobs, x)}) = <<"srlg", lo * 100 + hi>> /\ lo < hi
      BY <3>1, <3>2, <3>3, <3>4
    <3> QED
      BY <2>3, <3>4, <3>5
  <2> QED
    BY <2>2, <2>3
<1>4. PICK lo, hi \in 1..m :
        /\ SrlgOf({n, Next1(knobs, n)}) = <<"srlg", lo * 100 + hi>>
        /\ IF n = m THEN lo = 1 /\ hi = m ELSE lo = n /\ hi = n + 1
  BY <1>3
<1>5. PICK lp, hp \in 1..m :
        /\ SrlgOf({o, Next1(knobs, o)}) = <<"srlg", lp * 100 + hp>>
        /\ IF o = m THEN lp = 1 /\ hp = m ELSE lp = o /\ hp = o + 1
  BY <1>3
<1>6. lo * 100 + hi = lp * 100 + hp
  BY <1>4, <1>5
<1>7. lo = lp /\ hi = hp
  BY <1>1, <1>2, <1>6
<1> QED
  BY <1>1, <1>4, <1>5, <1>7

RingKept(lost) ==
  \E h \in {1, 2} :
    /\ \A x, y \in Pops(knobs) : Along(knobs, InBackbone, h, x, y)
    /\ \A pop \in Pops(knobs) : Border(knobs, pop, 3 - h) \notin lost =>
         \E l \in InBackbone : l.ends = Borders(knobs, pop)

LEMMA PairWorks ==
  ASSUME InLab, NEW pop \in Pops(knobs),
         \A l \in MeshLinks(knobs) : l.ends = Borders(knobs, pop) => Works(l)
  PROVE  \E l \in InBackbone : l.ends = Borders(knobs, pop)
<1>1. PICK l \in MeshLinks(knobs) : l.ends = Borders(knobs, pop) /\ l.area = 0
  BY PairLink
<1>2. l \in CoreLinks(knobs)
  BY DEF CoreLinks
<1> QED
  BY <1>1, <1>2, InAreaWhen

LEMMA RingHolds ==
  ASSUME InLab, Redundant(knobs), NEW lost,
         \/ \E p \in Ps(knobs) : lost = {p} /\ LostRouter(p)
         \/ lost = {} /\ \E p, rank : /\ LostLink(p, rank)
                                      /\ p \notin Abrs(knobs) \/ (rank \in Nat /\ rank >= 10000)
         \/ lost = {} /\ \E g : LostDuct(g)
  PROVE  RingKept(lost)
<1>1. \A l \in MeshLinks(knobs) : l \in CoreLinks(knobs) /\ l \notin BackboneLinks(knobs)
  BY MeshRanks, BackboneRanks DEF InLab, CoreLinks
<1>2. knobs \in Knobs /\ Pops(knobs) # {}
  <2>1. 1 \in Pops(knobs)
    BY KnobSizes DEF InLab, Pops
  <2> QED
    BY <2>1 DEF InLab
<1>3. CASE \E g : lost = {} /\ LostDuct(g)
  <2>1. PICK g : lost = {} /\ LostDuct(g)
    BY <1>3
  <2>2. \A pop \in Pops(knobs) : \E l \in InBackbone : l.ends = Borders(knobs, pop)
    BY <1>1, <2>1, PairWorks DEF LostDuct
  <2>3. PICK o \in Pops(knobs) :
          \A n \in Pops(knobs) : n # o => SrlgOf({n, Next1(knobs, n)}) # g
    <3> DEFINE duct(n) == SrlgOf({n, Next1(knobs, n)})
    <3>1. \A n, o \in Pops(knobs) : duct(n) = duct(o) => n = o
      BY RingDucts
    <3> HIDE DEF duct
    <3>2. \E o \in Pops(knobs) : \A n \in Pops(knobs) : n # o => duct(n) # g
      BY <3>1, <1>2
    <3> QED
      BY <3>2 DEF duct
  <2>4. ASSUME NEW n \in Pops(knobs), n # o
        PROVE  Along(knobs, InBackbone, 1, n, Next1(knobs, n))
    <3>1. PICK l : RingLink(n, 1, l)
      BY RingLinkExists
    <3>2. Works(l)
      BY <2>1, <2>3, <2>4, <3>1 DEF RingLink, LostDuct
    <3> QED
      BY <3>1, <3>2, RingLinkTies
  <2>5. \A x, y \in Pops(knobs) : Along(knobs, InBackbone, 1, x, y)
    BY <1>2, <2>4, RingTied
  <2> QED
    BY <2>2, <2>5 DEF RingKept
<1>4. ASSUME NEW p, LostRouter(p),
             \/ lost = {p}
             \/ lost = {} /\ p \notin Abrs(knobs)
             \/ lost = {} /\ \A l \in MeshLinks(knobs) : Works(l)
      PROVE  RingKept(lost)
  <2>1. PICK h \in {1, 2} : \A pop \in Pops(knobs) : Border(knobs, pop, h) # p
    <3>1. CASE p \notin Abrs(knobs)
      BY <3>1 DEF Abrs, Borders
    <3>2. CASE p \in Abrs(knobs)
      <4>1. PICK o \in Pops(knobs), h0 \in {1, 2} : p = Border(knobs, o, h0)
        BY <3>2 DEF Abrs, Borders
      <4>2. ASSUME NEW pop \in Pops(knobs), Border(knobs, pop, 3 - h0) = p PROVE FALSE
        <5>1. 3 - h0 \in {1, 2} /\ 3 - h0 # h0
          OBVIOUS
        <5>2. Border(knobs, pop, 3 - h0) \in Borders(knobs, pop) /\ p \in Borders(knobs, o)
          BY <4>1, <5>1 DEF Borders
        <5>3. p \in PopRouters(knobs, pop) /\ p \in PopRouters(knobs, o)
          BY <1>2, <4>2, <5>2, BordersAre
        <5>4. pop = o
          BY <1>2, <5>3, Located
        <5>5. Border(knobs, o, 1) # Border(knobs, o, 2)
          BY <1>2, BordersAre
        <5> QED
          BY <4>1, <4>2, <5>1, <5>4, <5>5
      <4>3. 3 - h0 \in {1, 2}
        OBVIOUS
      <4> QED
        BY <4>2, <4>3
    <3> QED
      BY <3>1, <3>2
  <2>2. ASSUME NEW n \in Pops(knobs)
        PROVE  Along(knobs, InBackbone, h, n, Next1(knobs, n))
    <3>1. PICK l : RingLink(n, h, l)
      BY RingLinkExists
    <3>2. Next1(knobs, n) \in Pops(knobs)
      BY RingLinkExists
    <3>3. Works(l)
      BY <1>4, <2>1, <3>1, <3>2 DEF RingLink, LostRouter
    <3> QED
      BY <3>1, <3>3, RingLinkTies
  <2>3. \A x, y \in Pops(knobs) : Along(knobs, InBackbone, h, x, y)
    BY <1>2, <2>2, RingTied
  <2>4. ASSUME NEW pop \in Pops(knobs), Border(knobs, pop, 3 - h) \notin lost
        PROVE  \E l \in InBackbone : l.ends = Borders(knobs, pop)
    <3>1. Borders(knobs, pop) = {Border(knobs, pop, h), Border(knobs, pop, 3 - h)}
      <4>1. {h, 3 - h} = {1, 2}
        OBVIOUS
      <4> QED
        BY <4>1 DEF Borders
    <3>2. CASE lost = {} /\ \A l \in MeshLinks(knobs) : Works(l)
      BY <3>2, PairWorks
    <3>3. CASE p \notin Borders(knobs, pop)
      BY <1>1, <1>4, <3>3, PairWorks DEF LostRouter
    <3>4. CASE lost = {p}
      BY <2>1, <2>4, <3>1, <3>3, <3>4
    <3>5. CASE lost = {} /\ p \notin Abrs(knobs)
      BY <3>3, <3>5 DEF Abrs
    <3> QED
      BY <1>4, <3>2, <3>4, <3>5
  <2> QED
    BY <2>3, <2>4 DEF RingKept
<1>5. CASE lost = {} /\ \E p, rank : /\ LostLink(p, rank)
                                     /\ p \notin Abrs(knobs) \/ (rank \in Nat /\ rank >= 10000)
  <2>1. PICK p, rank : /\ LostLink(p, rank)
                       /\ p \notin Abrs(knobs) \/ (rank \in Nat /\ rank >= 10000)
    BY <1>5
  <2>2. LostRouter(p)
    BY <2>1 DEF LostLink, LostRouter
  <2>3. CASE rank \in Nat /\ rank >= 10000
    <3>1. \A l \in MeshLinks(knobs) : l.rank # rank
      BY <1>2, <2>3, MeshRanks
    <3>2. \A l \in MeshLinks(knobs) : Works(l)
      BY <1>1, <2>1, <3>1 DEF LostLink
    <3> QED
      BY <1>4, <1>5, <2>2, <3>2
  <2> QED
    BY <1>4, <1>5, <2>1, <2>2, <2>3
<1> QED
  BY <1>3, <1>4, <1>5

LEMMA AllReach ==
  ASSUME InLab, NEW lost, PsHomed(lost), PesHomed(lost), RingKept(lost),
         NEW r \in Routers(knobs) \ lost, NEW s \in Routers(knobs) \ lost
  PROVE  <<r, s>> \in Reach
<1>1. PICK h \in {1, 2} :
        /\ \A x, y \in Pops(knobs) : Along(knobs, InBackbone, h, x, y)
        /\ \A pop \in Pops(knobs) : Border(knobs, pop, 3 - h) \notin lost =>
             \E l \in InBackbone : l.ends = Borders(knobs, pop)
  BY DEF RingKept
<1>2. PICK a : /\ PopOf(knobs, r) \in Pops(knobs) /\ a \notin lost
               /\ a \in Borders(knobs, PopOf(knobs, r)) /\ Tied(InArea, r, a)
  BY Homed DEF HomedAt
<1>3. PICK c : /\ PopOf(knobs, s) \in Pops(knobs) /\ c \notin lost
               /\ c \in Borders(knobs, PopOf(knobs, s)) /\ Tied(InArea, s, c)
  BY Homed DEF HomedAt
<1>4. Tied(InBackbone, a, c)
  <2>1. PICK x, y \in Pops(knobs) : x = PopOf(knobs, r) /\ y = PopOf(knobs, s)
    BY <1>2, <1>3
  <2>2. Along(knobs, InBackbone, h, x, y)
    BY <1>1
  <2>3. \A pop \in {x, y} : Border(knobs, pop, 3 - h) \notin lost =>
          \E l \in InBackbone : l.ends = Borders(knobs, pop)
    BY <1>1
  <2>4. a \in Borders(knobs, x) \ lost /\ c \in Borders(knobs, y) \ lost
    BY <1>2, <1>3, <2>1
  <2> QED
    BY <2>2, <2>3, <2>4, BordersTied
<1>5. a \in Abrs(knobs) /\ c \in Abrs(knobs)
  BY <1>2, <1>3 DEF Abrs
<1>6. Tied(InArea, c, s)
  BY <1>3, TiedIs
<1> QED
  BY <1>2, <1>4, <1>5, <1>6, ReachesAcross

(* PEs that reach each other and are alive learn each other's routes, when *)
(* no more than one reflector is dead.                                     *)
LEMMA AllLearn ==
  ASSUME InLab, Redundant(knobs), NEW dead, killed \subseteq {dead},
         NEW sessions, sessions = Sessions(Reach),
         \A i, j \in 1..knobs.pes : <<Pe(i), Pe(j)>> \in Reach,
         NEW i \in 1..knobs.pes, NEW j \in 1..knobs.pes, i # j,
         Pe(i) \notin killed, Pe(j) \notin killed
  PROVE  Learns(j, i, sessions)
<1>1. ASSUME NEW x \in 1..knobs.pes, NEW y \in 1..knobs.pes, x # y,
             Pe(x) \notin killed, Pe(y) \notin killed,
             knobs.rr = {} \/ x \in knobs.rr \/ y \in knobs.rr
      PROVE  <<x, y>> \in sessions
  <2>1. y \in IbgpPeers(knobs, x) /\ x \in IbgpPeers(knobs, y)
    BY <1>1 DEF IbgpPeers
  <2>2. <<x, y>>[1] = x /\ <<x, y>>[2] = y
    OBVIOUS
  <2>3. <<Pe(x), Pe(y)>> \in Reach
    OBVIOUS
  <2> HIDE DEF Reach
  <2> QED
    BY <1>1, <2>1, <2>2, <2>3 DEF Sessions
<1>2. CASE knobs.rr = {} \/ i \in knobs.rr \/ j \in knobs.rr
  BY <1>1, <1>2 DEF Learns
<1>3. CASE knobs.rr # {} /\ i \notin knobs.rr /\ j \notin knobs.rr
  <2>1. PICK u, v \in knobs.rr : u # v
    BY <1>3 DEF Redundant
  <2>2. Pe(u) # Pe(v)
    BY <2>1 DEF Pe
  <2>3. PICK x \in knobs.rr : Pe(x) \notin killed
    BY <2>1, <2>2
  <2>4. x \in 1..knobs.pes /\ x # i /\ x # j
    BY <1>3, KnobSizes DEF InLab
  <2>5. <<i, x>> \in sessions /\ <<x, j>> \in sessions
    BY <1>1, <2>3, <2>4
  <2>6. RrClient(knobs, x, i)
    BY <1>3 DEF RrClient
  <2> QED
    BY <2>4, <2>5, <2>6 DEF Learns
<1> QED
  BY <1>2, <1>3

LEMMA BrokenIface ==
  ASSUME NEW links, down \subseteq links, NEW l, ~Works(l)
  PROVE  \E r \in l.ends : <<r, l.rank>> \in links
BY DEF Works

LEMMA DuctIs ==
  ASSUME InLab, NEW g \in DOMAIN meta.srlgs
  PROVE  meta.srlgs[g] = Ifaces({l \in BackboneLinks(knobs) : l.srlg = g})
<1> DEFINE inter == BackboneLinks(knobs)
<1>1. meta.srlgs = [d \in {l.srlg : l \in inter} |-> Ifaces({l \in inter : l.srlg = d})]
  BY Zenon DEF TopoMeta, InLab
<1> QED
  BY <1>1

(* A link with an interface of backbone links is one of these.             *)
LEMMA BrokenBackbone ==
  ASSUME InLab, NEW cut \in SUBSET BackboneLinks(knobs), NEW l \in CoreLinks(knobs),
         NEW r, <<r, l.rank>> \in Ifaces(cut)
  PROVE  l \in cut
<1>1. PICK m \in cut : \E x \in m.ends : <<r, l.rank>> = <<x, m.rank>>
  BY IfacesAre
<1>2. m.rank = l.rank
  BY <1>1
<1>3. l \in BackboneLinks(knobs)
  BY <1>2, CoreRanks, BackboneRanks DEF InLab
<1> QED
  BY <1>2, <1>3, BackboneRankIs DEF InLab

LEMMA AbrHasLane ==
  ASSUME InLab, Redundant(knobs), NEW p \in Abrs(knobs)
  PROVE  InterIfaces(p) # {}
<1>1. PICK pop \in Pops(knobs), h \in {1, 2} : p = Border(knobs, pop, h)
  BY DEF Abrs, Borders
<1>2. PICK l : RingLink(pop, h, l)
  BY RingLinkExists
<1>3. <<p, l.rank>> \in Ifaces(BackboneLinks(knobs))
  BY <1>1, <1>2, IfacesAre DEF RingLink
<1>4. InterIfaces(p) = {i \in Ifaces(BackboneLinks(knobs)) : i[1] = p}
  BY AbrsArePs, MetaIs DEF InterIfaces, InLab
<1> QED
  BY <1>3, <1>4

LEMMA CampaignCuts ==
  ASSUME LinksInv, InLab, Redundant(knobs), NEW f \in CampaignFaults, running = {f},
         NEW lost, lost = IF f[1] = "p_node_failure" THEN {f[2]} ELSE {}
  PROVE  \/ \E p \in Ps(knobs) : lost = {p} /\ LostRouter(p)
         \/ lost = {} /\ \E p, rank : /\ LostLink(p, rank)
                                      /\ p \notin Abrs(knobs) \/ (rank \in Nat /\ rank >= 10000)
         \/ lost = {} /\ \E g : LostDuct(g)
<1>0. knobs \in Knobs /\ meta = TopoMeta(knobs)
  BY DEF InLab
<1>1. down \subseteq LinksOf(f)
  BY DEF LinksInv, Disturbing, HeldDown
<1>2. CASE f[1] = "p_node_failure"
  <2>1. PICK p \in Ps(knobs) : p = f[2]
    BY <1>0, <1>2, TargetsArePs
  <2>2. LinksOf(f) = meta.p_core_ifaces[p]
    BY <1>2, <2>1 DEF LinksOf
  <2>3. ASSUME NEW l, ~Works(l) PROVE p \in l.ends
    <3>1. PICK r \in l.ends : <<r, l.rank>> \in meta.p_core_ifaces[p]
      BY <1>1, <2>2, <2>3, BrokenIface
    <3>2. <<r, l.rank>>[1] = p
      BY <1>0, <3>1, OwnIfaces
    <3> QED
      BY <3>2
  <2>4. LostRouter(p)
    BY <2>3 DEF LostRouter
  <2> QED
    BY <1>2, <2>1, <2>4
<1>3. CASE f[1] = "srlg_cut"
  <2>1. LinksOf(f) = meta.srlgs[f[2]] /\ f[2] \in DOMAIN meta.srlgs
    BY <1>0, <1>3, TargetsArePs DEF LinksOf
  <2>2. PICK cut : cut = {l \in BackboneLinks(knobs) : l.srlg = f[2]}
    OBVIOUS
  <2>3. ASSUME NEW l \in CoreLinks(knobs), ~Works(l) PROVE l \in cut
    <3>1. PICK r \in l.ends : <<r, l.rank>> \in Ifaces(cut)
      BY <1>1, <2>1, <2>2, <2>3, BrokenIface, DuctIs
    <3>2. cut \in SUBSET BackboneLinks(knobs)
      BY <2>2
    <3> QED
      BY <3>1, <3>2, BrokenBackbone
  <2>4. LostDuct(f[2])
    BY <2>2, <2>3 DEF LostDuct
  <2> QED
    BY <1>3, <2>4
<1>4. ASSUME NEW p \in Ps(knobs), NEW i \in meta.p_core_ifaces[p], LinksOf(f) = {i}
      PROVE  LostLink(p, i[2]) /\ i[2] \in Nat
  <2>1. i[1] = p /\ i[2] \in Nat
    BY <1>0, OwnIfaces
  <2>2. ASSUME NEW l, ~Works(l) PROVE p \in l.ends /\ l.rank = i[2]
    <3>1. PICK r \in l.ends : <<r, l.rank>> = i
      BY <1>1, <1>4, <2>2, BrokenIface
    <3> QED
      BY <2>1, <3>1
  <2> QED
    BY <2>1, <2>2 DEF LostLink
<1>5. CASE f[1] = "mpls_underlay_failure"
  <2>1. PICK p \in Ps(knobs) \ Abrs(knobs) : p = f[2]
    BY <1>0, <1>5, TargetsArePs
  <2>2. LinksOf(f) = {UnderlayIface(p)} /\ UnderlayIface(p) \in meta.p_core_ifaces[p]
    BY <1>0, <1>5, <2>1, ChosenIface DEF LinksOf
  <2> QED
    BY <1>4, <1>5, <2>1, <2>2
<1>6. CASE f[1] = "ospf_area_flap"
  <2>1. PICK p \in Ps(knobs) : p \in Abrs(knobs) /\ p = f[2]
    BY <1>0, <1>6, TargetsArePs
  <2>2. LinksOf(f) = {BackboneIface(p)} /\ BackboneIface(p) \in meta.p_core_ifaces[p]
    BY <1>0, <1>6, <2>1, ChosenIface DEF LinksOf
  <2>3. BackboneIface(p) \in InterIfaces(p)
    BY <1>0, <2>1, AbrHasLane, ChosenIface
  <2>4. BackboneIface(p)[2] >= 10000
    BY <1>0, <2>2, <2>3, OwnIfaces
  <2> QED
    BY <1>4, <1>6, <2>2, <2>4
<1>7. CASE f[1] \notin {"p_node_failure", "srlg_cut", "mpls_underlay_failure", "ospf_area_flap"}
  <2>1. f[1] \notin {"pop_isolation", "core_partition"}
    BY DEF CampaignFaults, OnAbr
  <2>2. LinksOf(f) = {}
    BY <1>7, <2>1 DEF LinksOf
  <2>3. LostDuct(NoSrlg)
    BY <1>1, <2>2 DEF LostDuct, Works
  <2> QED
    BY <1>7, <2>3
<1> QED
  BY <1>2, <1>3, <1>5, <1>6, <1>7

LEMMA OneFaultHolds ==
  ASSUME \A b \in Faulted : Redundant(b), LinksInv
  PROVE  OneFaultIsSurvived
<1> SUFFICES ASSUME NEW f \in running, running = {f}, f \in CampaignFaults
             PROVE
               LET lost == IF f[1] = "p_node_failure" THEN {f[2]} ELSE {}
                   alive == {i \in 1..knobs.pes : Pe(i) \notin killed}
                   reach == Reach
                   sessions == Sessions(reach)
               IN  /\ (Routers(knobs) \ lost) \X (Routers(knobs) \ lost) \subseteq reach
                   /\ \A i, j \in alive : i # j => Learns(j, i, sessions)
  BY DEF OneFaultIsSurvived
<1>1. Redundant(knobs)
  BY DEF LinksInv, Drawn
<1>2. InLab
  BY <1>1, KnobSizes DEF LinksInv, Drawn, InLab, Redundant
<1>3. PICK lost : lost = IF f[1] = "p_node_failure" THEN {f[2]} ELSE {}
  OBVIOUS
<1>4. \/ \E p \in Ps(knobs) : lost = {p} /\ LostRouter(p)
      \/ lost = {} /\ \E p, rank : /\ LostLink(p, rank)
                                   /\ p \notin Abrs(knobs) \/ (rank \in Nat /\ rank >= 10000)
      \/ lost = {} /\ \E g : LostDuct(g)
  BY <1>1, <1>2, <1>3, CampaignCuts
<1>5. PsHomed(lost) /\ PesHomed(lost)
  <2>1. \/ \E p \in Ps(knobs) : lost = {p} /\ LostRouter(p)
        \/ lost = {} /\ \E p, rank : LostLink(p, rank)
        \/ lost = {} /\ LostLanes
    BY <1>4 DEF LostDuct, LostLanes
  <2> QED
    BY <1>1, <1>2, <2>1, HomesKept
<1>6. RingKept(lost)
  BY <1>1, <1>2, <1>4, RingHolds
<1>7. \A r, s \in Routers(knobs) \ lost : <<r, s>> \in Reach
  BY <1>2, <1>5, <1>6, AllReach
<1>8. \A i, j \in 1..knobs.pes : <<Pe(i), Pe(j)>> \in Reach
  <2>1. lost \subseteq Ps(knobs)
    BY <1>4
  <2>2. \A i \in 1..knobs.pes : Pe(i) \in Routers(knobs) \ lost
    BY <2>1 DEF Routers, Pes, Pe, Ps, P
  <2> QED
    BY <1>7, <2>2
<1>9. killed \subseteq {f[2]}
  BY DEF LinksInv, Disturbing, HeldDead
<1>10. PICK sessions : sessions = Sessions(Reach)
  OBVIOUS
<1>11. \A i, j \in {n \in 1..knobs.pes : Pe(n) \notin killed} : i # j => Learns(j, i, sessions)
  BY <1>1, <1>2, <1>8, <1>9, <1>10, AllLearn
<1>12. (Routers(knobs) \ lost) \X (Routers(knobs) \ lost) \subseteq Reach
  BY <1>7
<1> QED
  BY <1>3, <1>10, <1>11, <1>12

LEMMA LinksInvHolds == CoreSpec => []LinksInv
<1>1. CoreInit => LinksInv
  BY CoreInit1 DEF CoreInv
<1>2. LinksInv /\ [CoreNext]_coreVars => LinksInv'
  BY LinksStep
<1> QED
  BY <1>1, <1>2, PTL DEF CoreSpec

(* Any one fault of a campaign is survived by every lab that has two lanes *)
(* around a ring of three POPs or more, two routers for each PE, and no    *)
(* single route reflector, whatever ran before it.                         *)
THEOREM OneFaultSurvived ==
  ASSUME \A b \in Faulted : Redundant(b)
  PROVE  CoreSpec => []OneFaultIsSurvived
<1>1. LinksInv => OneFaultIsSurvived
  BY OneFaultHolds
<1> QED
  BY <1>1, LinksInvHolds, PTL

-----------------------------------------------------------------------------
(* The regions that pop_isolation and core_partition cut off.              *)

LEMMA LaneEnds ==
  ASSUME InLab, NEW l \in BackboneLinks(knobs)
  PROVE  \E u, v \in Pops(knobs), h \in {1, 2} :
           /\ u < v /\ l.joins = {u, v}
           /\ l.ends = {Border(knobs, u, h), Border(knobs, v, h)}
<1>1. PICK n \in Adjacencies(knobs), r \in 0..(knobs.redundancy - 1) : l = Lane(knobs, n, r)
  BY BackboneLinkIs
<1>2. PICK u, v \in Pops(knobs) : u < v /\ Adjacency(knobs, n) = {u, v}
  BY AdjacencyJoins DEF InLab
<1>3. PICK h \in {1, 2} : h = (r % 2) + 1
  <2>1. r \in Nat
    BY KnobSizes DEF InLab
  <2>2. (r % 2) + 1 \in {1, 2}
    BY <2>1
  <2> QED
    BY <2>2
<1>4. /\ l.ends = {Border(knobs, pop, (r % 2) + 1) : pop \in Adjacency(knobs, n)}
      /\ l.joins = Adjacency(knobs, n)
  BY <1>1, LaneIs
<1>5. l.ends = {Border(knobs, u, h), Border(knobs, v, h)}
  BY <1>2, <1>3, <1>4
<1> QED
  BY <1>2, <1>4, <1>5

(* The links from a set of POPs to the others are down, and only they.     *)
Crosses(l, H) == (\E x \in l.joins : x \in H) /\ (\E x \in l.joins : x \notin H)

CutOff(H) ==
  \A l \in CoreLinks(knobs) : Works(l) <=> ~(l \in BackboneLinks(knobs) /\ Crosses(l, H))

OnSide(H) == {r \in Routers(knobs) : PopOf(knobs, r) \in H}

LEMMA BorderPop ==
  ASSUME InLab, NEW pop \in Pops(knobs), NEW a \in Borders(knobs, pop)
  PROVE  a \in Routers(knobs) /\ PopOf(knobs, a) = pop /\ a \in Abrs(knobs)
<1>1. a \in PopRouters(knobs, pop)
  BY BordersAre DEF InLab
<1> QED
  BY <1>1, Located DEF InLab, Routers, Abrs

LEMMA SideIsClosed ==
  ASSUME InLab, NEW H, CutOff(H)
  PROVE  /\ Closed(InArea, OnSide(H)) /\ Closed(InBackbone, OnSide(H))
         /\ Closed(InArea, Routers(knobs) \ OnSide(H))
         /\ Closed(InBackbone, Routers(knobs) \ OnSide(H))
<1>1. ASSUME NEW l \in CoreLinks(knobs), Works(l)
      PROVE  \E x, y \in Routers(knobs) : l.ends = {x, y} /\ (x \in OnSide(H) <=> y \in OnSide(H))
  <2>1. CASE l \notin BackboneLinks(knobs)
    <3>1. PICK x, y \in Routers(knobs) :
            l.ends = {x, y} /\ PopOf(knobs, x) = PopOf(knobs, y)
      BY <2>1, LinkJoins DEF InLab
    <3> QED
      BY <3>1 DEF OnSide
  <2>2. CASE l \in BackboneLinks(knobs)
    <3>1. PICK u, v \in Pops(knobs), h \in {1, 2} :
            /\ l.joins = {u, v}
            /\ l.ends = {Border(knobs, u, h), Border(knobs, v, h)}
      BY <2>2, LaneEnds
    <3>2. u \in H <=> v \in H
      BY <1>1, <2>2, <3>1 DEF CutOff, Crosses
    <3>3. /\ Border(knobs, u, h) \in Borders(knobs, u)
          /\ Border(knobs, v, h) \in Borders(knobs, v)
      BY DEF Borders
    <3>4. /\ Border(knobs, u, h) \in Routers(knobs) /\ PopOf(knobs, Border(knobs, u, h)) = u
          /\ Border(knobs, v, h) \in Routers(knobs) /\ PopOf(knobs, Border(knobs, v, h)) = v
      BY <3>3, BorderPop
    <3> QED
      BY <3>1, <3>2, <3>4 DEF OnSide
  <2> QED
    BY <2>1, <2>2
<1>2. \A l \in InArea \cup InBackbone : l \in CoreLinks(knobs) /\ Works(l)
  BY AreasAre
<1>3. ASSUME NEW l \in InArea \cup InBackbone
      PROVE  /\ l.ends \cap OnSide(H) # {} => l.ends \subseteq OnSide(H)
             /\ l.ends \cap (Routers(knobs) \ OnSide(H)) # {}
                  => l.ends \subseteq Routers(knobs) \ OnSide(H)
  BY <1>1, <1>2
<1> QED
  BY <1>3 DEF Closed

(* Each side holds together when they are two arcs of the ring.            *)
Arcs(H) ==
  \E a, c \in Pops(knobs) : a <= c /\ (H = a..c \/ H = Pops(knobs) \ (a..c))

LEMMA SideIsTied ==
  ASSUME InLab, Redundant(knobs), NEW H, CutOff(H), Arcs(H),
         NEW x \in Pops(knobs), NEW y \in Pops(knobs), x \in H <=> y \in H,
         NEW a \in Borders(knobs, x), NEW c \in Borders(knobs, y)
  PROVE  Tied(InBackbone, a, c)
<1>1. PICK lo, hi \in Pops(knobs) : lo <= hi /\ (H = lo..hi \/ H = Pops(knobs) \ (lo..hi))
  BY DEF Arcs
<1>2. ASSUME NEW n \in Pops(knobs), n \in lo..hi <=> Next1(knobs, n) \in lo..hi
      PROVE  Along(knobs, InBackbone, 1, n, Next1(knobs, n))
  <2>1. PICK l : RingLink(n, 1, l)
    BY RingLinkExists
  <2>2. Next1(knobs, n) \in Pops(knobs)
    BY RingLinkExists
  <2>3. n \in H <=> Next1(knobs, n) \in H
    BY <1>1, <1>2, <2>2
  <2>4. Works(l)
    BY <2>1, <2>3 DEF RingLink, CutOff, Crosses
  <2> QED
    BY <2>1, <2>4, RingLinkTies
<1>3. x \in lo..hi <=> y \in lo..hi
  BY <1>1
<1>4. Along(knobs, InBackbone, 1, x, y)
  BY <1>1, <1>2, <1>3, SidesTied DEF InLab
<1>5. \A pop \in {x, y} : \E l \in InBackbone : l.ends = Borders(knobs, pop)
  <2>1. \A l \in MeshLinks(knobs) : l \in CoreLinks(knobs) /\ l \notin BackboneLinks(knobs)
    BY MeshRanks, BackboneRanks DEF InLab, CoreLinks
  <2>2. \A l \in MeshLinks(knobs) : Works(l)
    BY <2>1 DEF CutOff
  <2> QED
    BY <2>2, PairWorks
<1>6. PICK h \in {1, 2} : h = 1
  OBVIOUS
<1>7. Along(knobs, InBackbone, h, x, y)
  BY <1>4, <1>6
<1>8. a \in Borders(knobs, x) \ {} /\ c \in Borders(knobs, y) \ {}
  OBVIOUS
<1> QED
  BY <1>5, <1>7, <1>8, BordersTied

LEMMA SidesAreIslands ==
  ASSUME InLab, Redundant(knobs), NEW H, CutOff(H), Arcs(H),
         NEW r \in Routers(knobs), NEW x
  PROVE  /\ <<r, x>> \in Reach <=> x \in Routers(knobs) /\ (r \in OnSide(H) <=> x \in OnSide(H))
         /\ <<r, x>> \in Wired <=> x \in Routers(knobs) /\ (r \in OnSide(H) <=> x \in OnSide(H))
<1>1. ASSUME <<r, x>> \in Reach \/ <<r, x>> \in Wired
      PROVE  x \in Routers(knobs) /\ (r \in OnSide(H) <=> x \in OnSide(H))
  <2>1. CASE r \in OnSide(H)
    <3>1. OnSide(H) \in SUBSET Routers(knobs)
      BY DEF OnSide
    <3>2. x \in OnSide(H)
      BY <1>1, <2>1, <3>1, SideIsClosed, ReachStays
    <3> QED
      BY <2>1, <3>1, <3>2
  <2>2. CASE r \notin OnSide(H)
    <3>1. Routers(knobs) \ OnSide(H) \in SUBSET Routers(knobs) /\ r \in Routers(knobs) \ OnSide(H)
      BY <2>2
    <3>2. x \in Routers(knobs) \ OnSide(H)
      BY <1>1, <3>1, SideIsClosed, ReachStays
    <3> QED
      BY <2>2, <3>2
  <2> QED
    BY <2>1, <2>2
<1>2. ASSUME x \in Routers(knobs), r \in OnSide(H) <=> x \in OnSide(H)
      PROVE  <<r, x>> \in Reach /\ <<r, x>> \in Wired
  <2>1. PsHomed({}) /\ PesHomed({})
    <3>1. LostLanes
      BY DEF CutOff, LostLanes
    <3> QED
      BY <3>1, HomesKept
  <2>2. PICK a : /\ PopOf(knobs, r) \in Pops(knobs)
                 /\ a \in Borders(knobs, PopOf(knobs, r)) /\ Tied(InArea, r, a)
    BY <2>1, Homed DEF HomedAt
  <2>3. PICK c : /\ PopOf(knobs, x) \in Pops(knobs)
                 /\ c \in Borders(knobs, PopOf(knobs, x)) /\ Tied(InArea, x, c)
    BY <1>2, <2>1, Homed DEF HomedAt
  <2>4. PopOf(knobs, r) \in H <=> PopOf(knobs, x) \in H
    BY <1>2 DEF OnSide
  <2>5. Tied(InBackbone, a, c)
    BY <2>2, <2>3, <2>4, SideIsTied
  <2>6. a \in Abrs(knobs) /\ c \in Abrs(knobs)
    BY <2>2, <2>3 DEF Abrs
  <2>7. Tied(InArea, c, x)
    BY <2>3, TiedIs
  <2>8. <<r, x>> \in Reach
    BY <1>2, <2>2, <2>5, <2>6, <2>7, ReachesAcross
  <2>9. Tied(InArea \cup InBackbone, r, x)
    <3>1. \A Q : Closed(InArea \cup InBackbone, Q) => Closed(InArea, Q) /\ Closed(InBackbone, Q)
      BY DEF Closed
    <3> QED
      BY <3>1, <2>2, <2>5, <2>7 DEF Tied
  <2>10. InArea \cup InBackbone \in SUBSET CoreLinks(knobs)
    BY AreasAre
  <2>11. x \in Spread(InArea \cup InBackbone, {r})
    BY <2>9, <2>10, TiedIsReached
  <2> QED
    BY <2>8, <2>11, WiredIs
<1> QED
  BY <1>1, <1>2

LEMMA WrapIs ==
  ASSUME NEW m \in Nat, m >= 1, NEW x \in Nat, x < 2 * m
  PROVE  x % m = IF x < m THEN x ELSE x - m
<1>1. CASE x < m
  BY <1>1
<1>2. CASE x >= m
  <2>1. PICK d, r \in Int : d = x \div m /\ r = x % m /\ x = m * d + r /\ 0 <= r /\ r < m
    BY DivMod
  <2>2. x = m * d + r /\ 0 <= r /\ r < m
    BY <2>1
  <2>3. PICK e \in Int : d = 1 + e
    <3>1. d - 1 \in Int /\ d = 1 + (d - 1)
      OBVIOUS
    <3> QED
      BY <3>1
  <2>4. x - m = m * e + r
    BY <2>2, <2>3
  <2>5. PICK y \in Nat : y = x - m /\ y < m
    BY <1>2
  <2>6. CASE e >= 1
    <3>1. PICK z \in Nat : e = 1 + z
      <4>1. e - 1 \in Nat /\ e = 1 + (e - 1)
        BY <2>6
      <4> QED
        BY <4>1
    <3>2. m * e = m + m * z /\ m * z \in Nat
      BY <3>1, NatTimes
    <3> QED
      BY <2>2, <2>4, <2>5, <3>2
  <2>7. CASE e <= -1
    <3>1. PICK z \in Nat : e = -1 - z
      <4>1. -1 - e \in Nat /\ e = -1 - (-1 - e)
        BY <2>7
      <4> QED
        BY <4>1
    <3>2. m * e = - m - m * z /\ m * z \in Nat
      BY <3>1, NatTimes
    <3> QED
      BY <2>2, <2>4, <2>5, <3>2
  <2>8. CASE e = 0
    <3>1. x - m = r
      <4>1. m * e = 0
        BY <2>8
      <4> QED
        BY <2>4, <4>1
    <3>2. ~ (x < m)
      BY <1>2
    <3>3. (IF x < m THEN x ELSE x - m) = x - m
      BY <3>2
    <3> QED
      BY <2>1, <3>1, <3>3
  <2> QED
    BY <2>6, <2>7, <2>8
<1> QED
  BY <1>1, <1>2

(* Half of the ring, from any POP on, is an arc, and so is the rest.       *)
LEMMA HalfIsArc ==
  ASSUME InLab, Redundant(knobs), NEW pop \in Pops(knobs)
  PROVE  Half(pop) \subseteq Pops(knobs) /\ Arcs(Half(pop))
<1>1. PICK m \in Nat : m = knobs.pops /\ Pops(knobs) = 1..m /\ m >= 3
  BY KnobSizes DEF Pops, InLab, Redundant
<1>2. PICK w \in Nat : w = m \div 2 /\ 1 <= w /\ w < m
  <2>1. m \div 2 \in Nat /\ 1 <= m \div 2 /\ m \div 2 < m
    BY <1>1
  <2> QED
    BY <2>1
<1>3. Half(pop) = {((pop - 1 + n) % m) + 1 : n \in 0..(w - 1)}
  BY <1>1, <1>2 DEF Half
<1>4. pop \in Nat /\ 1 <= pop /\ pop <= m
  BY <1>1
<1>5. \A n \in 0..(w - 1) :
        ((pop - 1 + n) % m) + 1 = IF pop + n <= m THEN pop + n ELSE pop + n - m
  <2> SUFFICES ASSUME NEW n \in 0..(w - 1)
               PROVE  ((pop - 1 + n) % m) + 1 = IF pop + n <= m THEN pop + n ELSE pop + n - m
    OBVIOUS
  <2>1. PICK x \in Nat : x = pop - 1 + n /\ x < 2 * m
    BY <1>2, <1>4
  <2>2. x % m = IF x < m THEN x ELSE x - m
    <3>1. m >= 1
      BY <1>1
    <3> QED
      BY <2>1, <3>1, WrapIs
  <2> QED
    BY <1>1, <1>4, <2>1, <2>2
<1>6. \A x : x \in Half(pop) <=>
        \E n \in 0..(w - 1) : x = IF pop + n <= m THEN pop + n ELSE pop + n - m
  BY <1>3, <1>5
<1>7. Half(pop) \subseteq 1..m
  BY <1>2, <1>4, <1>6
<1>8. CASE pop + w - 1 <= m
  <2>1. ASSUME NEW x \in pop..(pop + w - 1) PROVE x \in Half(pop)
    <3>1. x - pop \in 0..(w - 1) /\ x = pop + (x - pop) /\ x <= m
      BY <1>4, <1>8
    <3> QED
      BY <1>6, <3>1
  <2>2. ASSUME NEW x \in Half(pop) PROVE x \in pop..(pop + w - 1)
    <3>1. PICK n \in 0..(w - 1) : x = IF pop + n <= m THEN pop + n ELSE pop + n - m
      BY <1>6
    <3> QED
      BY <1>2, <1>4, <1>8, <3>1
  <2>3. Half(pop) = pop..(pop + w - 1)
    BY <2>1, <2>2
  <2>4. PICK c \in 1..m : c = pop + w - 1 /\ pop <= c
    BY <1>2, <1>4, <1>8
  <2> QED
    BY <1>1, <1>7, <2>3, <2>4 DEF Arcs
<1>9. CASE pop + w - 1 > m
  <2>1. PICK a, c \in 1..m : a = pop + w - m /\ c = pop - 1 /\ a <= c
    BY <1>2, <1>4, <1>9
  <2>2. ASSUME NEW x \in 1..m, x \notin a..c PROVE x \in Half(pop)
    <3>1. CASE x < a
      <4>1. PICK n \in 0..(w - 1) : n = x + m - pop
        BY <1>2, <1>4, <2>1, <3>1
      <4>2. ~ (pop + n <= m) /\ x = pop + n - m
        BY <1>4, <4>1
      <4> QED
        BY <1>6, <4>2
    <3>2. CASE x > c
      <4>1. PICK n \in 0..(w - 1) : n = x - pop
        BY <1>2, <1>4, <1>9, <2>1, <3>2
      <4>2. pop + n <= m /\ x = pop + n
        BY <1>4, <4>1
      <4> QED
        BY <1>6, <4>2
    <3> QED
      BY <2>1, <2>2, <3>1, <3>2
  <2>3. ASSUME NEW x \in Half(pop) PROVE x \notin a..c
    <3>1. PICK n \in 0..(w - 1) : x = IF pop + n <= m THEN pop + n ELSE pop + n - m
      BY <1>6
    <3> QED
      BY <1>2, <1>4, <2>1, <3>1
  <2>4. Half(pop) = 1..m \ (a..c)
    BY <1>7, <2>2, <2>3
  <2> QED
    BY <1>1, <1>7, <2>1, <2>4 DEF Arcs
<1> QED
  BY <1>1, <1>2, <1>4, <1>7, <1>8, <1>9

LEMMA PairMeets ==
  ASSUME NEW u, NEW v, u # v, NEW H
  PROVE  Cardinality({u, v} \cap H) = 1 <=> (u \in H <=> v \notin H)
<1>1. Cardinality({}) = 0 /\ Cardinality({u}) = 1 /\ Cardinality({v}) = 1
  BY FS_EmptySet, FS_Singleton
<1>2. Cardinality({u, v}) = 2
  <2>1. IsFiniteSet({u}) /\ v \notin {u}
    BY FS_Singleton
  <2>2. Cardinality({u} \cup {v}) = Cardinality({u}) + 1
    BY <2>1, FS_AddElement
  <2>3. {u} \cup {v} = {u, v}
    OBVIOUS
  <2> QED
    BY <1>1, <2>2, <2>3
<1>3. CASE u \in H /\ v \in H
  <2>1. {u, v} \cap H = {u, v}
    BY <1>3
  <2> QED
    BY <1>2, <1>3, <2>1
<1>4. CASE u \in H /\ v \notin H
  <2>1. {u, v} \cap H = {u}
    BY <1>4
  <2> QED
    BY <1>1, <1>4, <2>1
<1>5. CASE u \notin H /\ v \in H
  <2>1. {u, v} \cap H = {v}
    BY <1>5
  <2> QED
    BY <1>1, <1>5, <2>1
<1>6. CASE u \notin H /\ v \notin H
  <2>1. {u, v} \cap H = {}
    BY <1>6
  <2> QED
    BY <1>1, <1>6, <2>1
<1> QED
  BY <1>3, <1>4, <1>5, <1>6

(* Of an undisturbed region fault's links all are down, and no others.     *)
LEMMA DownIs ==
  ASSUME LinksInv, NEW f, running = {f}, f \notin disturbed,
         f[1] \in {"pop_isolation", "core_partition"}
  PROVE  down = LinksOf(f) /\ f[2][2] \in Pops(knobs)
<1>1. down \subseteq LinksOf(f)
  BY DEF LinksInv, Disturbing, HeldDown
<1>2. LinksOf(f) \subseteq down
  BY DEF LinksInv, Standing
<1>3. f \in NamedFaults
  BY DEF LinksInv, Drawn, CampaignFaults, OnAbr
<1>4. f[2][2] \in Pops(knobs)
  BY <1>3 DEF NamedFaults
<1> QED
  BY <1>1, <1>2, <1>4

LEMMA IsolationCuts ==
  ASSUME InLab, NEW pop \in Pops(knobs), down = meta.pop_inter_links[pop]
  PROVE  CutOff({pop})
<1>1. PICK cut : cut = {l \in BackboneLinks(knobs) : pop \in l.joins}
  OBVIOUS
<1>2. down = {i \in Ifaces(cut) : i[1] \in Borders(knobs, pop)}
  <2>1. meta.pop_inter_links =
          [o \in Pops(knobs) |-> {i \in Ifaces({l \in BackboneLinks(knobs) : o \in l.joins}) :
                                    i[1] \in Borders(knobs, o)}]
    BY Zenon DEF TopoMeta, InLab
  <2> QED
    BY <1>1, <2>1
<1>3. ASSUME NEW l \in CoreLinks(knobs), ~Works(l)
      PROVE  l \in BackboneLinks(knobs) /\ Crosses(l, {pop})
  <2>1. PICK r \in l.ends : <<r, l.rank>> \in Ifaces(cut)
    BY <1>2, <1>3 DEF Works
  <2>2. l \in cut
    BY <1>1, <2>1, BrokenBackbone
  <2>3. PICK u, v \in Pops(knobs) : u < v /\ l.joins = {u, v}
    BY <1>1, <2>2, LaneEnds
  <2>4. u # v
    BY <2>3, KnobSizes DEF Pops, InLab
  <2> QED
    BY <1>1, <2>2, <2>3, <2>4 DEF Crosses
<1>4. ASSUME NEW l \in BackboneLinks(knobs), Crosses(l, {pop})
      PROVE  ~Works(l)
  <2>1. PICK u, v \in Pops(knobs), h \in {1, 2} :
          l.joins = {u, v} /\ l.ends = {Border(knobs, u, h), Border(knobs, v, h)}
    BY <1>4, LaneEnds
  <2>2. pop \in l.joins
    BY <1>4 DEF Crosses
  <2>3. Border(knobs, pop, h) \in l.ends /\ Border(knobs, pop, h) \in Borders(knobs, pop)
    BY <2>1, <2>2 DEF Borders
  <2>4. PICK i : i = <<Border(knobs, pop, h), l.rank>>
    OBVIOUS
  <2>5. i \in Ifaces(cut) /\ i[1] \in Borders(knobs, pop)
    BY <1>1, <2>2, <2>3, <2>4, IfacesAre
  <2> QED
    BY <1>2, <2>3, <2>4, <2>5 DEF Works
<1> QED
  BY <1>3, <1>4 DEF CutOff

LEMMA PartitionCuts ==
  ASSUME InLab, NEW pop \in Pops(knobs), down = PartitionIfaces(pop)
  PROVE  CutOff(Half(pop))
<1>1. PICK cut : cut = {l \in BackboneLinks(knobs) : Cardinality(l.joins \cap Half(pop)) = 1}
  OBVIOUS
<1>2. down = Ifaces(cut)
  <2>1. meta.inter_pop_links = BackboneLinks(knobs)
    BY MetaIs DEF InLab
  <2> QED
    BY <1>1, <2>1 DEF PartitionIfaces
<1>3. PICK H : H = Half(pop)
  OBVIOUS
<1>4. ASSUME NEW l \in BackboneLinks(knobs)
      PROVE  /\ l \in cut <=> Crosses(l, H)
             /\ \E r : r \in l.ends
  <2>1. PICK u, v \in Pops(knobs), h \in {1, 2} :
          /\ u < v /\ l.joins = {u, v}
          /\ l.ends = {Border(knobs, u, h), Border(knobs, v, h)}
    BY LaneEnds
  <2>2. u # v
    BY <2>1, KnobSizes DEF Pops, InLab
  <2>3. Cardinality({u, v} \cap H) = 1 <=> (u \in H <=> v \notin H)
    BY <2>2, PairMeets
  <2>4. l \in cut <=> Cardinality({u, v} \cap H) = 1
    BY <1>1, <1>3, <2>1
  <2>5. Crosses(l, H) <=> (u \in H <=> v \notin H)
    BY <2>1 DEF Crosses
  <2> QED
    BY <2>1, <2>3, <2>4, <2>5
<1>5. ASSUME NEW l \in CoreLinks(knobs), ~Works(l)
      PROVE  l \in BackboneLinks(knobs) /\ Crosses(l, H)
  <2>1. PICK r \in l.ends : <<r, l.rank>> \in Ifaces(cut)
    BY <1>2, <1>5 DEF Works
  <2>2. l \in cut /\ cut \subseteq BackboneLinks(knobs)
    BY <1>1, <2>1, BrokenBackbone
  <2> QED
    BY <1>4, <2>2
<1>6. ASSUME NEW l \in BackboneLinks(knobs), Crosses(l, H) PROVE ~Works(l)
  <2>1. PICK r \in l.ends : TRUE
    BY <1>4
  <2>2. <<r, l.rank>> \in Ifaces(cut)
    BY <1>4, <1>6, IfacesAre
  <2> QED
    BY <1>2, <2>2 DEF Works
<1> QED
  BY <1>3, <1>5, <1>6 DEF CutOff

LEMMA PairsOf ==
  /\ \A rx \in Reach : \E r \in Routers(knobs) : \E x : rx = <<r, x>>
  /\ \A rx \in Wired : \E r \in Routers(knobs) : \E x : rx = <<r, x>>
<1> DEFINE reach(r) == ReachFrom(r, InArea, InBackbone)
           wired(r) == Spread(InArea \cup InBackbone, {r})
<1>1. Reach = UNION {{r} \X reach(r) : r \in Routers(knobs)}
  BY Zenon DEF Reach
<1>2. Wired = UNION {{r} \X wired(r) : r \in Routers(knobs)}
  BY Zenon DEF Wired
<1> HIDE DEF reach, wired
<1> QED
  BY <1>1, <1>2

LEMMA RegionsAreCut ==
  ASSUME InLab, Redundant(knobs), LinksInv
  PROVE  RegionFaultsCut
<1> SUFFICES ASSUME NEW f \in running, Only(f)
             PROVE
               /\ f[1] = "pop_isolation" =>
                    Reach = {rx \in Routers(knobs) \X Routers(knobs) :
                       PopOf(knobs, rx[1]) = f[2][2] <=> PopOf(knobs, rx[2]) = f[2][2]}
               /\ f[1] = "core_partition" =>
                    Wired = {rx \in Routers(knobs) \X Routers(knobs) :
                       PopOf(knobs, rx[1]) \in Half(f[2][2]) <=> PopOf(knobs, rx[2]) \in Half(f[2][2])}
  BY DEF RegionFaultsCut
<1>1. ASSUME NEW H, CutOff(H), Arcs(H)
      PROVE  /\ Reach = {rx \in Routers(knobs) \X Routers(knobs) :
                           PopOf(knobs, rx[1]) \in H <=> PopOf(knobs, rx[2]) \in H}
             /\ Wired = {rx \in Routers(knobs) \X Routers(knobs) :
                           PopOf(knobs, rx[1]) \in H <=> PopOf(knobs, rx[2]) \in H}
  <2>1. PICK Same : Same = {rx \in Routers(knobs) \X Routers(knobs) :
                              PopOf(knobs, rx[1]) \in H <=> PopOf(knobs, rx[2]) \in H}
    OBVIOUS
  <2>2. ASSUME NEW r, NEW x
        PROVE  <<r, x>> \in Same <=>
                 /\ r \in Routers(knobs) /\ x \in Routers(knobs)
                 /\ r \in OnSide(H) <=> x \in OnSide(H)
    BY <2>1 DEF OnSide
  <2>3. \A rx \in Reach \cup Wired \cup Same : \E r \in Routers(knobs) : \E x : rx = <<r, x>>
    <3>1. \A rx \in Reach : \E r \in Routers(knobs) : \E x : rx = <<r, x>>
      BY PairsOf
    <3>2. \A rx \in Wired : \E r \in Routers(knobs) : \E x : rx = <<r, x>>
      BY PairsOf
    <3>3. \A rx \in Same : \E r \in Routers(knobs) : \E x : rx = <<r, x>>
      BY <2>1
    <3> QED
      BY <3>1, <3>2, <3>3
  <2>4. ASSUME NEW r \in Routers(knobs), NEW x
        PROVE  /\ <<r, x>> \in Reach <=> <<r, x>> \in Same
               /\ <<r, x>> \in Wired <=> <<r, x>> \in Same
    BY <1>1, <2>2, SidesAreIslands
  <2>5. Reach = Same /\ Wired = Same
    BY <2>3, <2>4
  <2> QED
    BY <2>1, <2>5
<1>2. CASE f[1] = "pop_isolation"
  <2>1. PICK pop \in Pops(knobs) : pop = f[2][2]
    BY <1>2, DownIs DEF Only
  <2>2. down = meta.pop_inter_links[pop]
    BY <1>2, <2>1, DownIs DEF Only, LinksOf
  <2>3. CutOff({pop})
    BY <2>2, IsolationCuts
  <2>4. Arcs({pop})
    <3>1. pop \in Nat /\ pop <= pop /\ {pop} = pop..pop
      BY KnobSizes DEF Pops, InLab
    <3> QED
      BY <3>1 DEF Arcs
  <2>5. Reach = {rx \in Routers(knobs) \X Routers(knobs) :
                   PopOf(knobs, rx[1]) \in {pop} <=> PopOf(knobs, rx[2]) \in {pop}}
    BY <1>1, <2>3, <2>4
  <2>6. Reach = {rx \in Routers(knobs) \X Routers(knobs) :
                   PopOf(knobs, rx[1]) = pop <=> PopOf(knobs, rx[2]) = pop}
    <3>1. \A z : z \in {pop} <=> z = pop
      OBVIOUS
    <3> QED
      BY <2>5, <3>1, Zenon
  <2> QED
    BY <1>2, <2>1, <2>6
<1>3. CASE f[1] = "core_partition"
  <2>1. PICK pop \in Pops(knobs) : pop = f[2][2]
    BY <1>3, DownIs DEF Only
  <2>2. down = PartitionIfaces(pop)
    BY <1>3, <2>1, DownIs DEF Only, LinksOf
  <2>3. CutOff(Half(pop)) /\ Arcs(Half(pop))
    BY <2>2, PartitionCuts, HalfIsArc
  <2>4. Wired = {rx \in Routers(knobs) \X Routers(knobs) :
                   PopOf(knobs, rx[1]) \in Half(pop) <=> PopOf(knobs, rx[2]) \in Half(pop)}
    BY <1>1, <2>3
  <2> QED
    BY <1>3, <2>1, <2>4
<1> QED
  BY <1>2, <1>3

(* In a lab where every PE-facing router has a PE, the last core interface *)
(* of one leads to a PE of its POP.                                        *)
LEMMA UnderlayIsAPes ==
  ASSUME InLab, NEW p \in Ps(knobs), NEW l \in PeLinks(knobs), p \in l.ends
  PROVE  \E pe \in LinkOf(UnderlayIface(p)).ends \cap Pes(knobs) :
           PopOf(knobs, pe) = PopOf(knobs, p)
<1>1. PICK own : own = meta.p_core_ifaces[p]
  OBVIOUS
<1>2. own = {i \in Ifaces(CoreLinks(knobs)) : i[1] = p}
  BY <1>1, MetaIs DEF InLab
<1>3. <<p, l.rank>> \in own
  BY <1>2, IfacesAre DEF CoreLinks
<1>4. \A i \in own : i[2] \in Nat /\ i[2] <= 30000
  BY <1>1, OwnIfaces DEF InLab
<1>5. PICK u : u = UnderlayIface(p) /\ u \in own /\ \A i \in own : u[2] >= i[2]
  <2>1. own # {}
    BY <1>3
  <2>2. LastIface(own) \in own /\ \A i \in own : LastIface(own)[2] >= i[2]
    BY <1>4, <2>1, LastIn
  <2> QED
    BY <1>1, <2>2 DEF UnderlayIface
<1>6. u[2] >= 20000 /\ u[2] \in Nat
  <2>1. l.rank >= 20000 /\ l.rank \in Nat
    BY PeRanks DEF InLab
  <2>2. u[2] >= l.rank
    BY <1>3, <1>5
  <2> QED
    BY <1>4, <1>5, <2>1, <2>2
<1>7. PICK m : m = LinkOf(u) /\ m \in CoreLinks(knobs) /\ u[1] \in m.ends /\ m.rank = u[2]
  <2>1. u \in Ifaces(CoreLinks(knobs))
    BY <1>2, <1>5
  <2>2. LinkOf(u) = CHOOSE m \in CoreLinks(knobs) : u[1] \in m.ends /\ m.rank = u[2]
    BY <2>1, MetaIs DEF LinkOf, InLab
  <2>3. \E m \in CoreLinks(knobs) : u[1] \in m.ends /\ m.rank = u[2]
    BY <2>1, IfaceRank DEF InLab
  <2> QED
    BY <2>2, <2>3
<1>8. m \in PeLinks(knobs)
  <2>1. m \notin MeshLinks(knobs)
    BY <1>6, <1>7, MeshRanks DEF InLab
  <2>2. m \notin BackboneLinks(knobs)
    BY <1>6, <1>7, BackboneRanks DEF InLab
  <2> QED
    BY <1>7, <2>1, <2>2 DEF CoreLinks
<1>9. PICK i \in 1..knobs.pes, h \in Uplinks(knobs) : m = Uplink(knobs, i, h)
  BY <1>8, PeLinkIs
<1>10. PICK n \in Int : n = i - 1 + h
  <2>1. i - 1 + h \in Int
    BY KnobSizes DEF Uplinks, InLab
  <2> QED
    BY <2>1
<1>11. m.ends = {Pe(i), Facing(knobs, PePop(knobs, i), n)}
  BY <1>9, <1>10, UplinkIs
<1>12. /\ PePop(knobs, i) \in Pops(knobs) /\ PopOf(knobs, Pe(i)) = PePop(knobs, i)
       /\ Facing(knobs, PePop(knobs, i), n) \in PopRouters(knobs, PePop(knobs, i))
  BY PeHomes DEF InLab
<1>13. u[1] = p
  BY <1>2, <1>5
<1>14. p # Pe(i)
  BY DEF Ps, P, Pe
<1>15. p = Facing(knobs, PePop(knobs, i), n)
  BY <1>7, <1>11, <1>13, <1>14
<1>16. PopOf(knobs, p) = PePop(knobs, i)
  BY <1>12, <1>15, Located DEF InLab
<1>17. Pe(i) \in m.ends \cap Pes(knobs)
  BY <1>11 DEF Pes
<1> QED
  BY <1>5, <1>7, <1>12, <1>16, <1>17

LEMMA LdpNeighborIsNext ==
  ASSUME NEW b, b = knobs, b \in Knobs, NEW pe \in Pes(b)
  PROVE  {pe, LdpNeighbor(pe)} \in {l.ends : l \in PeLinks(b)}
<1>1. PICK i \in 1..b.pes : pe = Pe(i)
  BY DEF Pes
<1>2. PICK l : l = Uplink(b, i, 0)
  OBVIOUS
<1>3. l \in PeLinks(b)
  BY <1>2, PeLinkIs DEF Uplinks
<1>4. i \in Int /\ i - 1 + 0 = i - 1
  BY KnobSizes
<1>5. l.ends = {Pe(i), Facing(b, PePop(b, i), i - 1)}
  BY <1>2, <1>4, UplinkIs
<1>6. LdpNeighbor(pe) = Facing(b, PePop(b, i), i - 1)
  BY <1>1 DEF LdpNeighbor, Pe
<1> QED
  BY <1>1, <1>3, <1>5, <1>6

LEMMA DomainsHold ==
  ASSUME \A b \in Faulted : Redundant(b) /\ Served(b), LinksInv
  PROVE  DomainsAreReal
<1>1. ASSUME NEW f \in running, f[1] = "mpls_underlay_failure", NEW i \in LinksOf(f)
      PROVE  \E pe \in LinkOf(i).ends \cap Pes(knobs) : PopOf(knobs, pe) = PopOf(knobs, f[2])
  <2>1. Redundant(knobs) /\ Served(knobs)
    BY <1>1 DEF LinksInv, Drawn
  <2>2. InLab
    BY <2>1, KnobSizes DEF LinksInv, Drawn, InLab, Redundant
  <2>3. f[2] \in Ps(knobs) \ Abrs(knobs)
    BY <1>1, <2>2, TargetsArePs DEF LinksInv, Drawn
  <2>4. PICK l \in PeLinks(knobs) : f[2] \in l.ends
    BY <2>1, <2>3 DEF Served
  <2>5. i = UnderlayIface(f[2])
    BY <1>1 DEF LinksOf
  <2> QED
    BY <2>2, <2>3, <2>4, <2>5, UnderlayIsAPes
<1>2. knobs \in Knobs
  BY DEF LinksInv, Drawn
<1> QED
  BY <1>1, <1>2, LdpNeighborIsNext DEF DomainsAreReal

(* Every scenario's failure domain is the one it is named after, in every  *)
(* redundant lab with a PE at each PE-facing router: an isolated POP and   *)
(* the halves of a partition are islands, each whole, and an underlay      *)
(* fault is on a PE's uplink.                                              *)
THEOREM FaultsHit ==
  ASSUME \A b \in Faulted : Redundant(b) /\ Served(b)
  PROVE  CoreSpec => []FaultsHitWhatTheyName
<1>1. ASSUME LinksInv PROVE RegionFaultsCut
  <2>1. CASE running = {}
    BY <2>1 DEF RegionFaultsCut
  <2>2. CASE running # {}
    <3>1. Redundant(knobs)
      BY <1>1, <2>2 DEF LinksInv, Drawn
    <3>2. InLab
      BY <1>1, <3>1, KnobSizes DEF LinksInv, Drawn, InLab, Redundant
    <3> QED
      BY <1>1, <3>1, <3>2, RegionsAreCut
  <2> QED
    BY <2>1, <2>2
<1>2. LinksInv => FaultsHitWhatTheyName
  BY <1>1, DomainsHold DEF FaultsHitWhatTheyName
<1> QED
  BY <1>2, LinksInvHolds, PTL
=============================================================================
