---------------------------- MODULE FaultInjection ----------------------------
(***************************************************************************)
(* Live fault injection: the HTTP routes of dataapi/faults_api.py, the     *)
(* worker thread each injection runs (faults/orchestrator.run_scenario),   *)
(* the lab it impairs and the controller's overlay registry it posts to.   *)
(*                                                                         *)
(* Three kinds of actors interleave: HTTP handlers (Inject, RevertPop,     *)
(* RevertSignal), one worker per injection, and the controller, which      *)
(* drops an overlay past its end.  A worker step is one external call or   *)
(* one wait of run_scenario, with the tests of the cancel event between    *)
(* them.                                                                   *)
(***************************************************************************)
EXTENDS Lab

CONSTANTS
  Id,          \* the scenario_ids inject() mints, each at most once
  Overlay,     \* scenarios that post a controller overlay (spec["overlay"])
  ValidRole,   \* <<scenario, target>> pairs that pass the 422 role check
  MaxCrashes,  \* bound: restarts of the data API process
  None         \* no injection, no label row

(* The calls that may raise; and commands that fail without raising.       *)
Failure == {"build", "post", "apply", "extra", "revert", "clear", "label",
            "refused"}

ASSUME FaultInjectionAssumption ==
  /\ Overlay \subseteq Scenario
  /\ ValidRole \subseteq Scenario \X Target
  /\ CanFail \subseteq Failure
  /\ MaxCrashes \in Nat
  /\ None \notin Id

VARIABLES
  active,      \* keys of the registry _ACTIVE
  job,         \* scenario and target of each injection (the registry entry)
  reverting,   \* ids popped by a revert handler that has yet to set cancel
  cancel,      \* the cancel event of each injection
  pc,          \* where the worker of each injection is in run_scenario
  fired,       \* run_scenario's fired flag
  held,        \* run_scenario's overlay variable is not None
  error,       \* the parts of run_scenario's error string
  emitted,     \* injections whose precursor events are in Loki
  rows,        \* the error of the label row each injection wrote, or None
  impaired,    \* the lab: the resources impaired now
  overlays,    \* the controller's overlay registry: who posted, per site
  crashes      \* restarts of the data API so far

apiVars == <<active, job, reverting, cancel>>
workerVars == <<pc, fired, held, error>>
vars == <<active, job, reverting, cancel, pc, fired, held, error, emitted,
          rows, impaired, overlays, crashes>>

(* The worker's places.  From "undo" on it is in the finally block.        *)
Ended  == {"done", "lost"}
Before == {"build", "post", "precursor", "buildup", "fire"}
Owing  == {"extra", "hold", "unextra", "unapply"}
After  == {"clear", "label", "unregister"}
Posted == {"precursor", "buildup", "fire", "undo", "clear"} \cup Owing
PC     == {"none", "undo"} \cup Before \cup Owing \cup After \cup Ended

Tag == {"overlay_post_failed", "scenario_error", "revert_failed",
        "overlay_clear_failed", "early_revert_before_impact"}

S(i) == job[i].scenario
T(i) == job[i].target

Started(i) == pc[i] # "none"
Live(i) == pc[i] \notin {"none"} \cup Ended

TypeOK ==
  /\ active \subseteq Id
  /\ job \in [Id -> [scenario: Scenario, target: Target]]
  /\ reverting \subseteq Id
  /\ cancel \in [Id -> BOOLEAN]
  /\ pc \in [Id -> PC]
  /\ fired \in [Id -> BOOLEAN]
  /\ held \in [Id -> BOOLEAN]
  /\ error \in [Id -> SUBSET Tag]
  /\ emitted \subseteq Id
  /\ rows \in [Id -> (SUBSET Tag) \cup {None}]
  /\ impaired \subseteq Resource
  /\ overlays \in [Target -> Id \cup {None}]
  /\ crashes \in 0..MaxCrashes

Init ==
  /\ active = {}
  /\ job \in [Id -> {CHOOSE j \in [scenario: Scenario, target: Target] : TRUE}]
  /\ reverting = {}
  /\ cancel = [i \in Id |-> FALSE]
  /\ pc = [i \in Id |-> "none"]
  /\ fired = [i \in Id |-> FALSE]
  /\ held = [i \in Id |-> FALSE]
  /\ error = [i \in Id |-> {}]
  /\ emitted = {}
  /\ rows = [i \in Id |-> None]
  /\ impaired = {}
  /\ overlays = [t \in Target |-> None]
  /\ crashes = 0

-----------------------------------------------------------------------------
(* HTTP handlers.                                                          *)

(* The 409 test: one fault per device.                                     *)
Conflict(t) == \E j \in active : T(j) = t

(* POST /faults/inject: the 409 test and the insertion are one critical    *)
(* section; the worker thread starts at once.                              *)
Inject(i, s, t) ==
  /\ pc[i] = "none"
  /\ <<s, t>> \in ValidRole
  /\ ~Conflict(t)
  /\ active' = active \cup {i}
  /\ job' = [job EXCEPT ![i] = [scenario |-> s, target |-> t]]
  /\ pc' = [pc EXCEPT ![i] = "build"]
  /\ UNCHANGED <<reverting, cancel, fired, held, error, emitted, rows,
                 impaired, overlays, crashes>>

(* POST /faults/revert/{id}: the entry leaves the registry under the lock, *)
(* the cancel event is set after the lock is released.                     *)
RevertPop(i) ==
  /\ i \in active
  /\ active' = active \ {i}
  /\ reverting' = reverting \cup {i}
  /\ UNCHANGED <<job, cancel, workerVars, emitted, rows, impaired, overlays,
                 crashes>>

(* Mutant: the handler only drops the entry.                               *)
RevertSignalLost(i) ==
  /\ i \in reverting
  /\ reverting' = reverting \ {i}
  /\ UNCHANGED <<active, job, cancel, workerVars, emitted, rows, impaired,
                 overlays, crashes>>

RevertSignal(i) ==
  /\ i \in reverting
  /\ reverting' = reverting \ {i}
  /\ cancel' = [cancel EXCEPT ![i] = TRUE]
  /\ UNCHANGED <<active, job, workerVars, emitted, rows, impaired, overlays,
                 crashes>>

-----------------------------------------------------------------------------
(* The worker thread: _runner and run_scenario.                            *)

Goto(i, from, to) ==
  /\ pc[i] = from
  /\ pc' = [pc EXCEPT ![i] = to]

(* except Exception: the error string is overwritten, the finally follows. *)
Raise(i) == error' = [error EXCEPT ![i] = {"scenario_error"}]

Note(i, tag) == error' = [error EXCEPT ![i] = @ \cup {tag}]

(* The scenario builder runs before the try: when it raises (a target of a *)
(* valid role the builder rejects, a docker probe that times out) the      *)
(* thread ends without a label and _runner drops the entry.                *)
Build(i) ==
  /\ \/ /\ Goto(i, "build", IF S(i) \in Overlay THEN "post" ELSE "precursor")
        /\ held' = [held EXCEPT ![i] = S(i) \in Overlay]
     \/ /\ Goto(i, "build", "unregister")
        /\ "build" \in CanFail /\ S(i) \in Probing
        /\ UNCHANGED held
  /\ UNCHANGED <<apiVars, fired, error, emitted, rows, impaired, overlays,
                 crashes>>

(* overlay.apply(): the controller stores the overlay, replacing the one   *)
(* of that site; or refuses it (400); or the reply is lost after it did    *)
(* either.  A refusal or a timeout only drops the precursor.               *)
PostOverlay(i) ==
  /\ Goto(i, "post", "precursor")
  /\ \/ /\ overlays' = [overlays EXCEPT ![T(i)] = i]
        /\ UNCHANGED <<held, error>>
     \/ /\ \/ UNCHANGED overlays
           \/ /\ "post" \in CanFail
              /\ overlays' = [overlays EXCEPT ![T(i)] = i]
        /\ held' = [held EXCEPT ![i] = FALSE]
        /\ Note(i, "overlay_post_failed")
  /\ UNCHANGED <<apiVars, fired, emitted, rows, impaired, crashes>>

(* emit_precursors is best effort: the burst reaches Loki or does not.     *)
EmitPrecursors(i) ==
  /\ \/ /\ Goto(i, "precursor", "buildup")
        /\ ~cancel[i]
        /\ emitted' \in {emitted, emitted \cup {i}}
     \/ /\ Goto(i, "precursor", "undo")
        /\ cancel[i]
        /\ UNCHANGED emitted
  /\ UNCHANGED <<apiVars, fired, held, error, rows, impaired, overlays, crashes>>

(* The buildup wait returns on its timer or on cancel; the cancel event is *)
(* read once more before the injector runs.                                *)
WaitLead(i) ==
  /\ Goto(i, "buildup", IF cancel[i] THEN "undo" ELSE "fire")
  /\ UNCHANGED <<apiVars, fired, held, error, emitted, rows, impaired, overlays,
                 crashes>>

(* injector.apply(); fired is set only once the extra has been applied too. *)
Fire(i) ==
  /\ \/ /\ Goto(i, "fire", IF HasExtra(S(i), T(i)) THEN "extra" ELSE "hold")
        /\ impaired' \in Returned(Applied(impaired, S(i), T(i)),
                                ApplyRaised(impaired, S(i), T(i)))
        /\ fired' = [fired EXCEPT ![i] = ~HasExtra(S(i), T(i))]
        /\ UNCHANGED error
     \/ /\ Goto(i, "fire", "undo")
        /\ "apply" \in CanFail
        /\ impaired' \in ApplyRaised(impaired, S(i), T(i))
        /\ Raise(i)
        /\ UNCHANGED fired
  /\ UNCHANGED <<apiVars, held, emitted, rows, overlays, crashes>>

FireExtra(i) ==
  /\ \/ /\ Goto(i, "extra", "hold")
        /\ impaired' \in Returned(ExtraApplied(impaired, S(i), T(i)),
                                ExtraRaised(impaired, S(i), T(i)))
        /\ fired' = [fired EXCEPT ![i] = TRUE]
        /\ UNCHANGED error
     \/ /\ Goto(i, "extra", "undo")
        /\ "extra" \in CanFail
        /\ impaired' \in ExtraRaised(impaired, S(i), T(i))
        /\ Raise(i)
        /\ UNCHANGED fired
  /\ UNCHANGED <<apiVars, held, emitted, rows, overlays, crashes>>

(* Mutant: a hold cut short is taken for a fault that never fired.         *)
HoldCancelled(i) ==
  /\ Goto(i, "hold", IF cancel[i] THEN "undo"
                     ELSE IF HasExtra(S(i), T(i)) THEN "unextra" ELSE "unapply")
  /\ UNCHANGED <<apiVars, fired, held, error, emitted, rows, impaired, overlays,
                 crashes>>

(* The hold wait returns on its timer or on cancel.                        *)
Hold(i) ==
  /\ Goto(i, "hold", IF HasExtra(S(i), T(i)) THEN "unextra" ELSE "unapply")
  /\ UNCHANGED <<apiVars, fired, held, error, emitted, rows, impaired, overlays,
                 crashes>>

(* Mutant: the overlay is cleared only after a physical revert.            *)
SkipFinally(i) ==
  /\ Goto(i, "undo", "label")
  /\ UNCHANGED <<apiVars, fired, held, error, emitted, rows, impaired, overlays,
                 crashes>>

(* The finally block of an injection whose fired flag is not set reverts   *)
(* nothing.                                                                *)
SkipRevert(i) ==
  /\ Goto(i, "undo", IF held[i] THEN "clear" ELSE "label")
  /\ UNCHANGED <<apiVars, fired, held, error, emitted, rows, impaired, overlays,
                 crashes>>

(* extra.revert() and injector.revert() share one try: when the first      *)
(* raises the second is skipped.                                           *)
RevertExtra(i) ==
  /\ \/ /\ Goto(i, "unextra", "unapply")
        /\ impaired' \in Returned(ExtraReverted(impaired, S(i), T(i)), {impaired})
        /\ UNCHANGED error
     \/ /\ Goto(i, "unextra", IF held[i] THEN "clear" ELSE "label")
        /\ "revert" \in CanFail
        /\ impaired' \in {impaired, ExtraReverted(impaired, S(i), T(i))}
        /\ Note(i, "revert_failed")
  /\ UNCHANGED <<apiVars, fired, held, emitted, rows, overlays, crashes>>

RevertInjector(i) ==
  /\ Goto(i, "unapply", IF held[i] THEN "clear" ELSE "label")
  /\ \/ /\ impaired' \in Returned(Reverted(impaired, S(i), T(i)),
                                RevertRaised(impaired, S(i), T(i)))
        /\ UNCHANGED error
     \/ /\ "revert" \in CanFail
        /\ impaired' \in RevertRaised(impaired, S(i), T(i))
        /\ Note(i, "revert_failed")
  /\ UNCHANGED <<apiVars, fired, held, emitted, rows, overlays, crashes>>

(* overlay.revert(): the controller pops the site, whoever posted it.      *)
ClearOverlay(i) ==
  /\ Goto(i, "clear", "label")
  /\ \/ /\ overlays' = [overlays EXCEPT ![T(i)] = None]
        /\ UNCHANGED error
     \/ /\ "clear" \in CanFail
        /\ \/ UNCHANGED overlays
           \/ overlays' = [overlays EXCEPT ![T(i)] = None]
        /\ Note(i, "overlay_clear_failed")
  /\ UNCHANGED <<apiVars, fired, held, emitted, rows, impaired, crashes>>

(* The error column of the row: an injection that did not fire is flagged  *)
(* only when no other error was noted.                                     *)
FinalError(i) ==
  IF ~fired[i] /\ error[i] = {} THEN {"early_revert_before_impact"} ELSE error[i]

WriteLabel(i) ==
  /\ Goto(i, "label", "unregister")
  /\ error' = [error EXCEPT ![i] = FinalError(i)]
  /\ \/ rows' = [rows EXCEPT ![i] = FinalError(i)]
     \/ /\ "label" \in CanFail
        /\ UNCHANGED rows
  /\ UNCHANGED <<apiVars, fired, held, emitted, impaired, overlays, crashes>>

(* Mutant: the entry stays until somebody reverts it.                      *)
UnregisterNothing(i) ==
  /\ Goto(i, "unregister", "done")
  /\ UNCHANGED <<apiVars, fired, held, error, emitted, rows, impaired, overlays,
                 crashes>>

(* _runner's finally: drop the entry if a revert has not already.          *)
Unregister(i) ==
  /\ Goto(i, "unregister", "done")
  /\ active' = active \ {i}
  /\ UNCHANGED <<job, reverting, cancel, fired, held, error, emitted, rows,
                 impaired, overlays, crashes>>

Worker(i) ==
  \/ Build(i) \/ PostOverlay(i) \/ EmitPrecursors(i) \/ WaitLead(i)
  \/ Fire(i) \/ FireExtra(i) \/ Hold(i) \/ SkipRevert(i)
  \/ RevertExtra(i) \/ RevertInjector(i) \/ ClearOverlay(i)
  \/ WriteLabel(i) \/ Unregister(i)

-----------------------------------------------------------------------------
(* The environment of the workers.                                         *)

(* Mutant: overlays have no end, like a drift posted without a ttl.        *)
ExpireNever(t) == overlays[t] # None /\ UNCHANGED vars

(* The controller prunes an overlay past its t_end, which is at least the  *)
(* lead after the post.                                                    *)
ExpireOverlay(t) ==
  /\ overlays[t] # None
  /\ pc[overlays[t]] \notin {"post", "precursor", "buildup"}
  /\ overlays' = [overlays EXCEPT ![t] = None]
  /\ UNCHANGED <<apiVars, workerVars, emitted, rows, impaired, crashes>>

(* The data API process ends: workers are daemon threads, so no finally    *)
(* block runs, and the registry is in memory only.                         *)
Crash ==
  /\ crashes < MaxCrashes
  /\ crashes' = crashes + 1
  /\ active' = {}
  /\ reverting' = {}
  /\ pc' = [i \in Id |-> IF Live(i) THEN "lost" ELSE pc[i]]
  /\ UNCHANGED <<job, cancel, fired, held, error, emitted, rows, impaired,
                 overlays>>

(* watchfrr respawns a killed daemon at any time, also during the hold.    *)
Respawn(r) ==
  /\ r \in impaired
  /\ impaired' = Respawned(impaired, r)
  /\ UNCHANGED <<apiVars, workerVars, emitted, rows, overlays, crashes>>

Next ==
  \/ \E i \in Id, s \in Scenario, t \in Target : Inject(i, s, t)
  \/ \E i \in Id : RevertPop(i) \/ RevertSignal(i) \/ Worker(i)
  \/ \E t \in Target : ExpireOverlay(t)
  \/ \E r \in Daemon : Respawn(r)
  \/ Crash

(* Every external call of a worker has a timeout, every wait a bound, and  *)
(* the controller ticks for ever; callers may never call again.            *)
Fairness ==
  /\ \A i \in Id : WF_vars(Worker(i)) /\ WF_vars(RevertSignal(i))
  /\ \A t \in Target : WF_vars(ExpireOverlay(t))

Spec == Init /\ [][Next]_vars
FairSpec == Spec /\ Fairness

-----------------------------------------------------------------------------
(* Properties.                                                             *)

(* The registry never holds two injections of one target, whatever the     *)
(* interleaving of inject, revert and worker ends.                         *)
RegistryExclusive == \A i, j \in active : T(i) = T(j) => i = j

(* A worker the registry no longer shows has been told to stop, or is      *)
(* about to be: no injection keeps running with no handle to cut it short. *)
UnregisteredIsCancelled ==
  \A i \in Id : Live(i) /\ i \notin active => cancel[i] \/ i \in reverting

(* Nothing stays impaired behind everybody's back: for every impaired      *)
(* resource there is an injection that touches it and that either still    *)
(* has its revert ahead of it, or carries an error that names a failed     *)
(* step, or was killed with the process.                                   *)
LeakIsExplained ==
  \A r \in impaired : \E i \in Id :
    /\ Started(i)
    /\ r \in Touched(S(i), T(i))
    /\ \/ pc[i] \in Owing \cup {"lost"}
       \/ /\ error[i] \cap {"scenario_error", "revert_failed"} # {}
          /\ rows[i] \in {None, error[i]}

(* An overlay in the controller belongs to an injection of that site that  *)
(* will still clear it, or whose error names the failed post or clear, or  *)
(* that was killed with the process.                                       *)
OverlayIsExplained ==
  \A t \in Target : overlays[t] # None =>
    LET i == overlays[t] IN
    /\ Started(i) /\ T(i) = t
    /\ \/ held[i] /\ pc[i] \in Posted
       \/ error[i] \cap {"overlay_post_failed", "overlay_clear_failed",
                          "scenario_error"} # {}
       \/ pc[i] = "lost"

(* run_scenario's "guaranteed finally reverts the physical action": once   *)
(* every worker has ended by itself, the lab is at its baseline.           *)
FinallyReverts ==
  (\A i \in Id : ~Live(i)) /\ crashes = 0 => impaired = {}

(* Every injection ends and gives its target back.                         *)
EveryInjectionEnds ==
  \A i \in Id : i \in active ~> pc[i] \in Ended /\ i \notin active

(* No overlay outlives its injection for ever, not even one whose post was *)
(* taken for failed or whose clear was lost.                               *)
OverlaysDrain == \A i \in Id : overlays[T(i)] = i ~> overlays[T(i)] # i
=============================================================================
