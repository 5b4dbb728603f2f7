------------------------------- MODULE Campaign -------------------------------
(***************************************************************************)
(* The Poisson fault campaign of faults/orchestrator.py: the main loop of  *)
(* run_campaign, one thread per fault (_campaign_fault), the active-target *)
(* set that keeps two faults off one resource, and SIGINT.                 *)
(*                                                                         *)
(* run_campaign's own handler turns SIGINT into the stop event, but the    *)
(* previous handler is put back before the threads are joined: from there  *)
(* on SIGINT raises KeyboardInterrupt in the main thread, the process ends *)
(* and the daemon threads with it.                                         *)
(***************************************************************************)
EXTENDS Lab

CONSTANTS
  Fault,      \* the faults of one campaign run, each spawned at most once
  Exclusive,  \* _EXCLUSIVE: scenarios that take the whole device
  KeyOf,      \* [Scenario -> [Target -> the resource part of the lock key]]
  Pool,       \* <<scenario, target>> pairs of CAMPAIGN_POOLS
  Interrupts, \* bound: the SIGINTs the operator sends
  Whole,      \* the None of a device-exclusive key
  None        \* no label row

(* The calls that may raise; and commands that fail without raising.       *)
Failure == {"build", "apply", "extra", "revert", "label", "refused"}

ASSUME CampaignAssumption ==
  /\ Exclusive \subseteq Scenario
  /\ Pool \subseteq Scenario \X Target
  /\ CanFail \subseteq Failure
  /\ Interrupts \in Nat
  /\ \A s \in Scenario, t \in Target : KeyOf[s][t] # Whole
  /\ \A tags \in SUBSET {"scenario_error", "revert_failed"} : tags # None

VARIABLES
  main,      \* run_campaign: "loop", "join", "ended" or "killed"
  stop,      \* the _stop event
  signals,   \* SIGINTs sent so far
  job,       \* scenario and target of each fault thread
  keys,      \* the lock key each thread asked for
  pc,        \* where each thread is in _campaign_fault
  targets,   \* active_targets, the set of lock keys taken
  error,     \* the parts of each thread's error string
  rows,      \* the label row each thread wrote, or None
  counted,   \* the threads stats["count"] has counted
  impaired   \* the lab

threadVars == <<keys, pc, targets, error, rows, counted, impaired>>
vars == <<main, stop, signals, job, keys, pc, targets, error, rows, counted,
          impaired>>

Tag == {"scenario_error", "revert_failed"}

(* The places of a thread that hold its lock key, and those of them from   *)
(* which its finally block still reverts the injector.                     *)
Owing   == {"apply", "extra", "hold", "unextra", "unapply"}
Holding == Owing \cup {"build", "label", "count", "release"}
Ended   == {"skipped", "done", "lost"}
PC      == {"none", "picked", "start"} \cup Holding \cup Ended

S(k) == job[k].scenario
T(k) == job[k].target

(* _lock_key: the whole device, or the resource in the spec of a throwaway *)
(* builder; when that builder raises, the name of the scenario.            *)
LockKeys(s, t) ==
  IF s \in Exclusive THEN {<<t, Whole>>}
  ELSE {<<t, KeyOf[s][t]>>}
       \cup (IF "build" \in CanFail /\ s \in Probing THEN {<<t, s>>} ELSE {})

Keys == UNION {LockKeys(s, t) : s \in Scenario, t \in Target}

(* Mutant: a device-exclusive fault does not look at the device's others.  *)
BlockedBySame(key) == key \in targets \/ <<key[1], Whole>> \in targets

(* Mutant: only device-exclusive faults are kept apart.                    *)
BlockedByDevice(key) ==
  \/ <<key[1], Whole>> \in targets
  \/ key[2] = Whole /\ \E other \in targets : other[1] = key[1]

(* The test _campaign_fault makes under the lock.                          *)
Blocked(key) ==
  \/ key \in targets
  \/ <<key[1], Whole>> \in targets
  \/ key[2] = Whole /\ \E other \in targets : other[1] = key[1]

TypeOK ==
  /\ main \in {"loop", "join", "ended", "killed"}
  /\ stop \in BOOLEAN
  /\ signals \in 0..Interrupts
  /\ job \in [Fault -> [scenario: Scenario, target: Target]]
  /\ pc \in [Fault -> PC]
  /\ keys \in [Fault -> Keys]
  /\ targets \subseteq Keys
  /\ error \in [Fault -> SUBSET Tag]
  /\ rows \in [Fault -> (SUBSET Tag) \cup {None}]
  /\ counted \subseteq Fault
  /\ impaired \subseteq Resource

Init ==
  /\ main = "loop"
  /\ stop = FALSE
  /\ signals = 0
  /\ job \in [Fault -> {CHOOSE j \in [scenario: Scenario, target: Target] : TRUE}]
  /\ keys \in [Fault -> {CHOOSE key \in Keys : TRUE}]
  /\ pc = [k \in Fault |-> "none"]
  /\ targets = {}
  /\ error = [k \in Fault |-> {}]
  /\ rows = [k \in Fault |-> None]
  /\ counted = {}
  /\ impaired = {}

-----------------------------------------------------------------------------
(* The main thread.                                                        *)

(* One turn of the loop looks at the stop event, picks a scenario and a    *)
(* target, and starts a thread.  The filter on busy targets has no guard   *)
(* here: it compares a target name with lock keys, which are pairs, and so *)
(* lets every target through.                                              *)
Picked == {k \in Fault : pc[k] = "picked"}

Pick(k, s, t) ==
  /\ main = "loop" /\ ~stop
  /\ Picked = {} /\ pc[k] = "none"
  /\ <<s, t>> \in Pool
  /\ pc' = [pc EXCEPT ![k] = "picked"]
  /\ job' = [job EXCEPT ![k] = [scenario |-> s, target |-> t]]
  /\ UNCHANGED <<main, stop, signals, keys, targets, error, rows, counted,
                 impaired>>

Spawn(k) ==
  /\ pc[k] = "picked"
  /\ pc' = [pc EXCEPT ![k] = "start"]
  /\ UNCHANGED <<main, stop, signals, job, keys, targets, error, rows, counted,
                 impaired>>

(* Mutant: the loop does not look at the deadline.                         *)
LeaveOnStop ==
  /\ main = "loop" /\ stop /\ Picked = {}
  /\ main' = "join"
  /\ UNCHANGED <<stop, signals, job, threadVars>>

(* The loop ends on the stop event or at the deadline; the finally puts    *)
(* the previous SIGINT handler back and joins the threads.                 *)
LeaveLoop ==
  /\ main = "loop" /\ Picked = {}
  /\ main' = "join"
  /\ UNCHANGED <<stop, signals, job, threadVars>>

(* No fault of the pool lasts the 300 s a join waits.                      *)
Join ==
  /\ main = "join"
  /\ \A k \in Fault : pc[k] \in Ended \cup {"none"}
  /\ main' = "ended"
  /\ UNCHANGED <<stop, signals, job, threadVars>>

Interrupt ==
  /\ signals < Interrupts
  /\ signals' = signals + 1
  /\ \/ /\ main = "loop"
        /\ stop' = TRUE
        /\ UNCHANGED <<main, pc>>
     \/ /\ main = "join"
        /\ main' = "killed"
        /\ pc' = [k \in Fault |->
                    IF pc[k] \in Ended \cup {"none"} THEN pc[k] ELSE "lost"]
        /\ UNCHANGED stop
  /\ UNCHANGED <<job, keys, targets, error, rows, counted, impaired>>

-----------------------------------------------------------------------------
(* A fault thread.                                                         *)

mainVars == <<main, stop, signals, job, keys>>

Goto(k, from, to) ==
  /\ pc[k] = from
  /\ pc' = [pc EXCEPT ![k] = to]

(* Mutant: only the first error is kept.                                   *)
NoteFirst(k, tag) ==
  error' = [error EXCEPT ![k] = IF @ = {} THEN {tag} ELSE @]

Note(k, tag) == error' = [error EXCEPT ![k] = @ \cup {tag}]

(* The finally block's first step once the injector exists.                *)
Undo(k) == IF HasExtra(S(k), T(k)) THEN "unextra" ELSE "unapply"

(* The key is tested and taken in one critical section.                    *)
Acquire(k) ==
  /\ \E key \in LockKeys(S(k), T(k)) :
       /\ keys' = [keys EXCEPT ![k] = key]
       /\ \/ /\ ~Blocked(key)
             /\ Goto(k, "start", "build")
             /\ targets' = targets \cup {key}
          \/ /\ Blocked(key)
             /\ Goto(k, "start", "skipped")
             /\ UNCHANGED targets
  /\ UNCHANGED <<main, stop, signals, job, error, rows, counted, impaired>>

(* A builder that raises leaves no injector to revert.                     *)
Build(k) ==
  /\ \/ /\ Goto(k, "build", "apply")
        /\ UNCHANGED error
     \/ /\ Goto(k, "build", "label")
        /\ "build" \in CanFail /\ S(k) \in Probing
        /\ Note(k, "scenario_error")
  /\ UNCHANGED <<mainVars, targets, rows, counted, impaired>>

(* injector.apply(), or injector.ramp() for a ramping scenario.  Unlike in *)
(* run_scenario a failed apply is reverted.                                *)
Apply(k) ==
  /\ \/ /\ Goto(k, "apply", IF HasExtra(S(k), T(k)) THEN "extra" ELSE "hold")
        /\ impaired' \in Returned(Applied(impaired, S(k), T(k)),
                                ApplyRaised(impaired, S(k), T(k)))
        /\ UNCHANGED error
     \/ /\ Goto(k, "apply", Undo(k))
        /\ "apply" \in CanFail
        /\ impaired' \in ApplyRaised(impaired, S(k), T(k))
        /\ Note(k, "scenario_error")
  /\ UNCHANGED <<mainVars, targets, rows, counted>>

ApplyExtra(k) ==
  /\ \/ /\ Goto(k, "extra", "hold")
        /\ impaired' \in Returned(ExtraApplied(impaired, S(k), T(k)),
                                ExtraRaised(impaired, S(k), T(k)))
        /\ UNCHANGED error
     \/ /\ Goto(k, "extra", Undo(k))
        /\ "extra" \in CanFail
        /\ impaired' \in ExtraRaised(impaired, S(k), T(k))
        /\ Note(k, "scenario_error")
  /\ UNCHANGED <<mainVars, targets, rows, counted>>

(* The impact poll and the rest of the hold; the stop event does not cut   *)
(* it short.                                                               *)
Hold(k) ==
  /\ Goto(k, "hold", Undo(k))
  /\ UNCHANGED <<mainVars, targets, error, rows, counted, impaired>>

(* One try covers both reverts: a failed first one skips the second.       *)
RevertExtra(k) ==
  /\ \/ /\ Goto(k, "unextra", "unapply")
        /\ impaired' \in Returned(ExtraReverted(impaired, S(k), T(k)), {impaired})
        /\ UNCHANGED error
     \/ /\ Goto(k, "unextra", "label")
        /\ "revert" \in CanFail
        /\ impaired' \in {impaired, ExtraReverted(impaired, S(k), T(k))}
        /\ Note(k, "revert_failed")
  /\ UNCHANGED <<mainVars, targets, rows, counted>>

RevertInjector(k) ==
  /\ Goto(k, "unapply", "label")
  /\ \/ /\ impaired' \in Returned(Reverted(impaired, S(k), T(k)),
                                RevertRaised(impaired, S(k), T(k)))
        /\ UNCHANGED error
     \/ /\ "revert" \in CanFail
        /\ impaired' \in RevertRaised(impaired, S(k), T(k))
        /\ Note(k, "revert_failed")
  /\ UNCHANGED <<mainVars, targets, rows, counted>>

(* Mutant: the statistics do not depend on the label.                      *)
WriteLabelAnyway(k) ==
  /\ Goto(k, "label", "count")
  /\ rows' \in {rows, [rows EXCEPT ![k] = error[k]]}
  /\ UNCHANGED <<mainVars, targets, error, counted, impaired>>

(* A label that cannot be written skips the statistics, not the release.   *)
WriteLabel(k) ==
  /\ \/ /\ Goto(k, "label", "count")
        /\ rows' = [rows EXCEPT ![k] = error[k]]
     \/ /\ Goto(k, "label", "release")
        /\ "label" \in CanFail
        /\ UNCHANGED rows
  /\ UNCHANGED <<mainVars, targets, error, counted, impaired>>

Count(k) ==
  /\ Goto(k, "count", "release")
  /\ counted' = counted \cup {k}
  /\ UNCHANGED <<mainVars, targets, error, rows, impaired>>

(* Mutant: the key is not dropped.                                         *)
ReleaseNothing(k) ==
  /\ Goto(k, "release", "done")
  /\ UNCHANGED <<mainVars, targets, error, rows, counted, impaired>>

(* The outer finally.                                                      *)
Release(k) ==
  /\ Goto(k, "release", "done")
  /\ targets' = targets \ {keys[k]}
  /\ UNCHANGED <<mainVars, error, rows, counted, impaired>>

Thread(k) ==
  \/ Acquire(k) \/ Build(k) \/ Apply(k) \/ ApplyExtra(k) \/ Hold(k)
  \/ RevertExtra(k) \/ RevertInjector(k) \/ WriteLabel(k) \/ Count(k)
  \/ Release(k)

(* watchfrr respawns a killed daemon at any time, also during the hold.    *)
Respawn(r) ==
  /\ r \in impaired
  /\ impaired' = Respawned(impaired, r)
  /\ UNCHANGED <<mainVars, pc, targets, error, rows, counted>>

Next ==
  \/ \E k \in Fault, s \in Scenario, t \in Target : Pick(k, s, t)
  \/ LeaveLoop \/ Join \/ Interrupt
  \/ \E k \in Fault : Spawn(k) \/ Thread(k)
  \/ \E r \in Daemon : Respawn(r)

(* The campaign has a deadline, every call of a thread a timeout.          *)
Fairness == /\ WF_vars(LeaveLoop) /\ WF_vars(Join)
            /\ \A k \in Fault : WF_vars(Spawn(k)) /\ WF_vars(Thread(k))

Spec == Init /\ [][Next]_vars
FairSpec == Spec /\ Fairness

-----------------------------------------------------------------------------
(* Properties.                                                             *)

Holders == {k \in Fault : pc[k] \in Holding}

(* While the process runs, the taken keys are exactly those of the threads *)
(* past the test and short of the release, one thread for each key.        *)
KeysAreHeld ==
  main # "killed" =>
    /\ targets = {keys[k] : k \in Holders}
    /\ \A j, k \in Holders : keys[j] = keys[k] => j = k

(* "ProcessKill must be device-exclusive": a fault that takes the routing  *)
(* daemon away shares its device with no other fault.                      *)
ExclusiveAlone ==
  \A j, k \in Holders : T(j) = T(k) /\ S(j) \in Exclusive => j = k

(* The guard lets j work beside k: neither key takes in the other.         *)
RunsBeside(j, k) ==
  /\ keys[j] # keys[k]
  /\ T(j) = T(k) => S(j) \notin Exclusive /\ S(k) \notin Exclusive

(* j has called its injector.                                              *)
Applying(j) ==
  pc[j] \notin {"none", "picked", "start", "skipped", "build", "apply"}

(* "The active-target guard suffices": what a fault in its hold has lost   *)
(* of the impact its label will claim, watchfrr gave back, or a fault took *)
(* that has a resource in common with it under a lock key of its own.      *)
(* Nothing is lost to a fault that the guard keeps apart from it.          *)
HeldIsImpaired ==
  \A k \in Fault :
    pc[k] = "hold" /\ S(k) \notin Pulse =>
      \A r \in Footprint[S(k)][T(k)] \ impaired :
        \/ r \in Daemon
        \/ \E j \in Fault \ {k} :
             Applying(j) /\ RunsBeside(j, k) /\ r \in Touched(S(j), T(j))

(* When the campaign has returned, what is still impaired was left by a    *)
(* fault whose label says that its revert failed, or that could not write  *)
(* its label; and the incidents of the summary are the labels written.     *)
(* When a second SIGINT has killed it, a fault of a lost thread may have   *)
(* left it too, and no label need tell.                                    *)
LeftoversAreLabelled ==
  /\ main \in {"ended", "killed"} =>
       \A r \in impaired : \E k \in Fault :
         /\ r \in Touched(S(k), T(k))
         /\ \/ main = "killed" /\ pc[k] = "lost"
            \/ /\ pc[k] = "done"
               /\ "revert_failed" \in error[k]
               /\ rows[k] \in {None, error[k]}
  /\ main = "ended" => counted = {k \in Fault : rows[k] # None}

(* A campaign ends, interrupted or not, and gives back every key.          *)
CampaignEnds ==
  /\ <>(main \in {"ended", "killed"})
  /\ \A k \in Fault :
       pc[k] \in Holding
         ~> main = "killed" \/ (pc[k] = "done" /\ keys[k] \notin targets)
=============================================================================
