---------------------------- MODULE FaultRegistry ----------------------------
(***************************************************************************)
(* The controller's two in-memory registries, _drift and _overlay, which   *)
(* HTTP handler threads write while the tick thread prunes them            *)
(* (controller/controller.py: do_POST, do_GET, set_overlay, clear_overlay, *)
(* tick).                                                                  *)
(*                                                                         *)
(* One dict operation is atomic under the GIL; a loop over a dict, or over *)
(* a snapshot of one, is not.  A tick works through a snapshot of _drift,  *)
(* then through one of _overlay, popping by site what has expired; a GET   *)
(* walks the live overlay dict.                                            *)
(***************************************************************************)
EXTENDS Naturals, FiniteSets

CONSTANTS
  Site,       \* the spokes, _sites
  Ttl,        \* the lifetimes a POST may ask for
  MaxPosts,   \* bound: POSTs and clears in all
  MaxTime,    \* bound: the last instant; every end falls before it
  Never,      \* the expires of a drift posted without ttl
  None        \* no entry

ASSUME RegistryAssumption ==
  /\ IsFiniteSet(Site)
  /\ Ttl \subseteq Nat \ {0}
  /\ MaxPosts \in Nat /\ MaxTime \in Nat
  /\ Never \notin Nat
  /\ None \notin [post : 1..MaxPosts, expires : Nat \cup {Never}]

VARIABLES
  drift,     \* _drift: site -> entry or None
  overlay,   \* _overlay: site -> entry or None
  asked,     \* what the last answered call asked for, in each dict
  posts,     \* calls served so far; numbers the entries
  clock,     \* time.time()
  pc,        \* the tick thread: "idle", "drift", "overlay" or "update"
  now,       \* the tick's now
  todo,      \* what the tick's loop has left of its snapshot
  walk,      \* a GET /fault/overlay: the sites left and the dict's size, or None
  raised     \* a GET has raised and goes unanswered

vars == <<drift, overlay, asked, posts, clock, pc, now, todo, walk, raised>>
getVars == <<walk, raised>>

Entry == [post: 1..MaxPosts, expires: 1..MaxTime \cup {Never}]

Present(dict) == {s \in Site : dict[s] # None}

(* "expires is not None and expires <= now".                               *)
Expired(e, t) == e.expires # Never /\ e.expires <= t

TypeOK ==
  /\ drift \in [Site -> Entry \cup {None}]
  /\ overlay \in [Site -> Entry \cup {None}]
  /\ asked \in [drift: [Site -> Entry \cup {None}],
                overlay: [Site -> Entry \cup {None}]]
  /\ posts \in 0..MaxPosts
  /\ clock \in 0..MaxTime /\ now \in 0..MaxTime
  /\ pc \in {"idle", "drift", "overlay", "update"}
  /\ todo \subseteq Site \X Entry
  /\ walk \in {None} \cup [left: SUBSET Site, size: 0..Cardinality(Site)]
  /\ raised \in BOOLEAN

Init ==
  /\ drift = [s \in Site |-> None]
  /\ overlay = [s \in Site |-> None]
  /\ asked = [drift |-> drift, overlay |-> overlay]
  /\ posts = 0 /\ clock = 0
  /\ pc = "idle" /\ now = 0 /\ todo = {}
  /\ walk = None /\ raised = FALSE

-----------------------------------------------------------------------------
(* Handler threads.  A call is stored and answered before the next call of *)
(* the same site: its orchestrator waits for the reply.                    *)

tickVars == <<clock, pc, now, todo>>

NewEntry(ttl) ==
  [post |-> posts + 1, expires |-> IF ttl = Never THEN Never ELSE clock + ttl]

(* The bounds on a call.                                                   *)
MayPost(ttl) ==
  posts < MaxPosts /\ ttl \in {d \in Ttl : clock + d <= MaxTime} \cup {Never}

(* POST /fault/drift: without ttl_s the drift stays until it is cleared.   *)
PostDrift(s, ttl) ==
  /\ MayPost(ttl)
  /\ posts' = posts + 1
  /\ drift' = [drift EXCEPT ![s] = NewEntry(ttl)]
  /\ asked' = [asked EXCEPT !.drift[s] = NewEntry(ttl)]
  /\ UNCHANGED <<overlay, tickVars, getVars>>

ClearDrift(s) ==
  /\ posts < MaxPosts
  /\ posts' = posts + 1
  /\ drift' = [drift EXCEPT ![s] = None]
  /\ asked' = [asked EXCEPT !.drift[s] = None]
  /\ UNCHANGED <<overlay, tickVars, getVars>>

(* POST /fault/overlay, for arguments that pass the 400 tests: an overlay  *)
(* always has an end.                                                      *)
PostOverlay(s, ttl) ==
  /\ MayPost(ttl)
  /\ posts' = posts + 1
  /\ overlay' = [overlay EXCEPT ![s] = NewEntry(ttl)]
  /\ asked' = [asked EXCEPT !.overlay[s] = NewEntry(ttl)]
  /\ UNCHANGED <<drift, tickVars, getVars>>

ClearOverlay(s) ==
  /\ posts < MaxPosts
  /\ posts' = posts + 1
  /\ overlay' = [overlay EXCEPT ![s] = None]
  /\ asked' = [asked EXCEPT !.overlay[s] = None]
  /\ UNCHANGED <<drift, tickVars, getVars>>

(* GET /fault/overlay walks the live dict: asked for the next item after   *)
(* the dict has changed size, the iterator raises.                         *)
GetOverlay ==
  /\ walk = None
  /\ walk' = [left |-> Present(overlay), size |-> Cardinality(Present(overlay))]
  /\ UNCHANGED <<drift, overlay, asked, posts, tickVars, raised>>

GetNext ==
  /\ walk # None
  /\ \/ /\ Cardinality(Present(overlay)) # walk.size
        /\ raised' = TRUE
        /\ walk' = None
     \/ /\ Cardinality(Present(overlay)) = walk.size
        /\ \/ \E s \in walk.left : walk' = [walk EXCEPT !.left = @ \ {s}]
           \/ walk.left = {} /\ walk' = None
        /\ UNCHANGED raised
  /\ UNCHANGED <<drift, overlay, asked, posts, tickVars>>

-----------------------------------------------------------------------------
(* The tick thread.                                                        *)

handlerVars == <<asked, posts, getVars>>

(* list(dict.items()) is one operation.                                    *)
Snapshot(dict) == {<<s, dict[s]>> : s \in Present(dict)}

(* Mutant: the tick prunes the overlays only.                              *)
TickStartOverlays ==
  /\ pc = "idle"
  /\ pc' = "drift"
  /\ now' = clock
  /\ todo' = {}
  /\ UNCHANGED <<drift, overlay, clock, handlerVars>>

TickStart ==
  /\ pc = "idle"
  /\ pc' = "drift"
  /\ now' = clock
  /\ todo' = Snapshot(drift)
  /\ UNCHANGED <<drift, overlay, clock, handlerVars>>

(* Mutant: the dict is rebuilt from the snapshot.                          *)
PrunedRebound(dict, item) ==
  [dict EXCEPT ![item[1]] = IF Expired(item[2], now) THEN None ELSE item[2]]

(* pop(k) removes whatever the site holds now.                             *)
Pruned(dict, item) ==
  IF Expired(item[2], now) THEN [dict EXCEPT ![item[1]] = None] ELSE dict

PruneDrift(item) ==
  /\ pc = "drift"
  /\ item \in todo
  /\ todo' = todo \ {item}
  /\ drift' = Pruned(drift, item)
  /\ UNCHANGED <<overlay, clock, pc, now, handlerVars>>

SnapshotOverlay ==
  /\ pc = "drift"
  /\ todo = {}
  /\ pc' = "overlay"
  /\ todo' = Snapshot(overlay)
  /\ UNCHANGED <<drift, overlay, clock, now, handlerVars>>

PruneOverlay(item) ==
  /\ pc = "overlay"
  /\ item \in todo
  /\ todo' = todo \ {item}
  /\ overlay' = Pruned(overlay, item)
  /\ UNCHANGED <<drift, clock, pc, now, handlerVars>>

(* Every tunnel is updated from the overlay its site holds at that moment, *)
(* then paths are selected; the thread sleeps until the next tick.         *)
StartUpdate ==
  /\ pc = "overlay"
  /\ todo = {}
  /\ pc' = "update"
  /\ UNCHANGED <<drift, overlay, clock, now, todo, handlerVars>>

TickEnd ==
  /\ pc = "update"
  /\ pc' = "idle"
  /\ UNCHANGED <<drift, overlay, clock, now, todo, handlerVars>>

Tick ==
  \/ TickStart
  \/ \E item \in todo : PruneDrift(item)
  \/ SnapshotOverlay
  \/ \E item \in todo : PruneOverlay(item)
  \/ StartUpdate
  \/ TickEnd

Pass ==
  /\ clock < MaxTime
  /\ clock' = clock + 1
  /\ UNCHANGED <<drift, overlay, pc, now, todo, handlerVars>>

Next ==
  \/ \E s \in Site, ttl \in Ttl \cup {Never} : PostDrift(s, ttl)
  \/ \E s \in Site, ttl \in Ttl : PostOverlay(s, ttl)
  \/ \E s \in Site : ClearDrift(s) \/ ClearOverlay(s)
  \/ GetOverlay \/ GetNext
  \/ Tick
  \/ Pass

(* The tick loop runs for ever and time passes.                            *)
Fairness == WF_vars(Tick) /\ WF_vars(Pass)

Spec == Init /\ [][Next]_vars
FairSpec == Spec /\ Fairness

-----------------------------------------------------------------------------
(* Properties.                                                             *)

(* A registry holds for a site what the last answered call asked for, or   *)
(* nothing: no superseded or cleared entry ever comes back.                *)
NothingComesBack ==
  \A s \in Site :
    /\ drift[s] \in {None, asked.drift[s]}
    /\ overlay[s] \in {None, asked.overlay[s]}

(* While the tunnels are updated, no entry is past its end as of the tick: *)
(* telemetry never ramps on an episode that is over.                       *)
UpdateSeesNoneExpired ==
  pc = "update" =>
    \A s \in Site :
      /\ drift[s] # None => ~Expired(drift[s], now)
      /\ overlay[s] # None => ~Expired(overlay[s], now)

(* An entry with an end goes, even when nobody ever clears it: a lost      *)
(* clear delays the end of a drift or an overlay, never prevents it.       *)
EntriesExpire ==
  \A s \in Site, p \in 1..MaxPosts :
    /\ overlay[s] # None /\ overlay[s].post = p
         ~> overlay[s] = None \/ overlay[s].post # p
    /\ drift[s] # None /\ drift[s].post = p /\ drift[s].expires # Never
         ~> drift[s] = None \/ drift[s].post # p
=============================================================================
