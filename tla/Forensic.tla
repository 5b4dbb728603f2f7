------------------------------- MODULE Forensic -------------------------------
(***************************************************************************)
(* The forensic pipeline of the NOC copilot: the predictor process that    *)
(* turns label rows into ledger rows, the trigger process that polls the   *)
(* ledger and opens a case for each new alert, and the API process whose   *)
(* follow-up questions read and extend the chats of a case                 *)
(* (copilot/emulator, copilot/forensic, copilot/memory).                   *)
(*                                                                         *)
(* The processes share only files: the label file, the ledger, the case    *)
(* directories and, for the trigger alone, its cursor file.  The trigger   *)
(* is cut where a file becomes visible; it may end between any two of      *)
(* these steps, by a signal or by an exception, since nothing between      *)
(* poll_once and the process catches one, and be started again.            *)
(***************************************************************************)
EXTENDS Naturals, Sequences, FiniteSets

CONSTANTS
  Episode,     \* the faults of the label file, by scenario_id
  Alerting,    \* the episodes whose record has decision.alert
  Request,     \* the follow-up questions
  Ahead,       \* how far ahead of its writing a label's t_end may lie: 0 for
               \* the live orchestrator, more for a probe or a replayed file
  MaxTime,     \* bound: the last instant
  MaxCrashes,  \* bound: processes that end between two steps
  Initial,     \* INITIAL_CHAT
  Master,      \* MASTER_CHAT
  Run,         \* a turn written by the trigger
  None,        \* no ledger row, no episode
  Torn         \* a cursor file truncated and not yet rewritten

ASSUME ForensicAssumption ==
  /\ Alerting \subseteq Episode
  /\ Ahead \in Nat /\ MaxTime \in Nat \ {0} /\ MaxCrashes \in Nat
  /\ Initial \notin Episode /\ Master \notin Episode /\ Initial # Master
  /\ Run \notin Request
  /\ None \notin Episode
  /\ None \notin [ts: 1..MaxTime, co: SUBSET Episode]
  /\ Torn \notin [ts: 0..MaxTime, fired: SUBSET Episode]

(* The chats of a case: the creation run, one for each co-active fault and *)
(* the synthesis.                                                          *)
Chat == {Initial, Master} \cup Episode

VARIABLES
  clock,      \* UTC, in the seconds every stamp is cut to
  labels,     \* the rows of the label files
  ledger,     \* Prediction Records: ts and co-active faults, or None
  at,         \* where the trigger process is
  batch,      \* the alerts poll_once has still to take
  ep,         \* the alert it is handling
  fan,        \* the co-active faults without a chat of this run
  mem,        \* the Cursor object
  disk,       \* the cursor file
  frozen,     \* episodes with a complete window/ snapshot
  recorded,   \* episodes with prediction.json and window.json
  reported,   \* episodes with case.md
  chats,      \* the turns in each chat file
  torn,       \* chat files with a half-written line
  learnt,     \* how often the verdict was added to the knowledge base
  req,        \* the follow-ups: place, case and chat
  crashes     \* processes that ended so far

timeVars == <<clock, labels, ledger>>
cursorVars == <<mem, disk>>
caseVars == <<frozen, recorded, reported, learnt>>
chatVars == <<chats, torn>>
vars == <<timeVars, at, batch, ep, fan, cursorVars, caseVars, chatVars, req,
          crashes>>

Label == [ep: Episode, end: 1..MaxTime]
Cursor == [ts: 0..MaxTime, fired: SUBSET Episode]
Place == {"down", "idle", "freeze", "record", "report", "seed", "learn", "fan",
          "subs", "truncate", "persist"}

TypeOK ==
  /\ clock \in 1..MaxTime
  /\ labels \subseteq Label
  /\ ledger \in [Episode -> [ts: 1..MaxTime, co: SUBSET Episode] \cup {None}]
  /\ at \in Place
  /\ batch \subseteq Episode
  /\ ep \in Episode \cup {None}
  /\ fan \subseteq Episode
  /\ mem \in Cursor
  /\ disk \in Cursor \cup {Torn}
  /\ frozen \subseteq Episode
  /\ recorded \subseteq Episode
  /\ reported \subseteq Episode
  /\ chats \in [Episode -> [Chat -> Seq({Run} \cup Request)]]
  /\ torn \subseteq Episode \X Chat
  /\ learnt \in [Episode -> Nat]
  /\ req \in [Request -> [at: {"none", "asked", "done", "failed"},
                          ep: Episode \cup {None}, chat: Chat]]
  /\ crashes \in 0..MaxCrashes

Init ==
  /\ clock = 1
  /\ labels = {}
  /\ ledger = [e \in Episode |-> None]
  /\ at = "down" /\ batch = {} /\ ep = None /\ fan = {}
  /\ mem = [ts |-> 0, fired |-> {}] /\ disk = mem
  /\ frozen = {} /\ recorded = {} /\ reported = {}
  /\ chats = [e \in Episode |-> [c \in Chat |-> <<>>]] /\ torn = {}
  /\ learnt = [e \in Episode |-> 0]
  /\ req = [f \in Request |->
              [at |-> "none", ep |-> None, chat |-> Initial]]
  /\ crashes = 0

-----------------------------------------------------------------------------
(* The lab and the predictor.                                              *)

Pass ==
  /\ clock < MaxTime
  /\ clock' = clock + 1
  /\ UNCHANGED <<labels, ledger, at, batch, ep, fan, cursorVars,
                 caseVars, chatVars, req, crashes>>

(* A label row is written once its fault is over; its t_start is past.     *)
WriteLabel(e, end) ==
  /\ \A row \in labels : row.ep # e
  /\ end \in clock..(clock + Ahead) /\ end <= MaxTime
  /\ labels' = labels \cup {[ep |-> e, end |-> end]}
  /\ UNCHANGED <<clock, ledger, at, batch, ep, fan, cursorVars,
                 caseVars, chatVars, req, crashes>>

Active == {row \in labels : clock <= row.end}

Record(row) == [ts |-> clock, co |-> {r.ep : r \in Active} \ {row.ep}]

(* A tick of run_predictor: fetch the rows, read now, persist.  A row that *)
(* is written in between is as good as written after the tick, and a fetch *)
(* that fails skips the tick.  The first active row, in the order of the   *)
(* label files, is the record's, the others its co-active faults; INSERT   *)
(* OR IGNORE keeps the first record of an episode.  A predictor started    *)
(* again may tick twice in one second.                                     *)
Predict(row) ==
  /\ row \in Active
  /\ ledger' = [ledger EXCEPT ![row.ep] = IF @ = None THEN Record(row) ELSE @]
  /\ UNCHANGED <<clock, labels, at, batch, ep, fan, cursorVars, caseVars,
                 chatVars, req, crashes>>

-----------------------------------------------------------------------------
(* The trigger process: poll_once, the cursor and create_case.             *)

(* Mutant: the tie set is not looked at.                                   *)
SeenUpTo(cursor, e) == ledger[e].ts <= cursor.ts

Seen(cursor, e) ==
  \/ ledger[e].ts < cursor.ts
  \/ ledger[e].ts = cursor.ts /\ e \in cursor.fired

Advanced(cursor, e) ==
  IF ledger[e].ts > cursor.ts
  THEN [ts |-> ledger[e].ts, fired |-> {e}]
  ELSE [cursor EXCEPT !.fired = @ \cup {e}]

NewAlerts ==
  {e \in Episode : ledger[e] # None /\ e \in Alerting /\ ~Seen(mem, e)}

Goto(from, to) ==
  /\ at = from
  /\ at' = to

(* Cursor(path): no file is the empty cursor; a torn one does not load.    *)
Start ==
  /\ Goto("down", "idle")
  /\ disk # Torn
  /\ mem' = disk
  /\ UNCHANGED <<timeVars, batch, ep, fan, disk, caseVars, chatVars, req,
                 crashes>>

(* The scan is over before the first alert is handled.                     *)
Poll ==
  /\ at = "idle" /\ batch = {}
  /\ batch' = NewAlerts
  /\ UNCHANGED <<timeVars, at, ep, fan, cursorVars, caseVars, chatVars, req,
                 crashes>>

(* by_time returns the rows in ts order.                                   *)
Take(e) ==
  /\ Goto("idle", "freeze")
  /\ e \in batch /\ \A other \in batch : ledger[e].ts <= ledger[other].ts
  /\ batch' = batch \ {e}
  /\ ep' = e
  /\ UNCHANGED <<timeVars, fan, cursorVars, caseVars, chatVars, req, crashes>>

(* Mutant: the report goes without the record.                             *)
FreezeOnly ==
  /\ Goto("freeze", "report")
  /\ frozen' = frozen \cup {ep}
  /\ UNCHANGED <<timeVars, batch, ep, fan, cursorVars, recorded, reported, learnt,
                 chatVars, req, crashes>>

(* snapshot_window.                                                        *)
Freeze ==
  /\ Goto("freeze", "record")
  /\ frozen' = frozen \cup {ep}
  /\ UNCHANGED <<timeVars, batch, ep, fan, cursorVars, recorded, reported, learnt,
                 chatVars, req, crashes>>

(* prediction.json, then window.json.                                      *)
WriteRecord ==
  /\ Goto("record", "report")
  /\ recorded' = recorded \cup {ep}
  /\ UNCHANGED <<timeVars, batch, ep, fan, cursorVars, frozen, reported, learnt,
                 chatVars, req, crashes>>

(* Mutant: the report stays in its temporary file.                         *)
WriteReportTmp ==
  /\ Goto("report", "seed")
  /\ UNCHANGED <<timeVars, batch, ep, fan, cursorVars, caseVars, chatVars, req,
                 crashes>>

(* The investigation of the frozen window, then case.md in one rename.     *)
WriteReport ==
  /\ Goto("report", "seed")
  /\ reported' = reported \cup {ep}
  /\ UNCHANGED <<timeVars, batch, ep, fan, cursorVars, frozen, recorded, learnt,
                 chatVars, req, crashes>>

Appended(e, c, turn) == [chats EXCEPT ![e][c] = Append(@, turn)]

(* Mutant: a case whose chat is seeded is taken for complete.              *)
DoneAfterSeed == "truncate"

AfterSeed == IF ledger[ep].co = {} THEN "truncate" ELSE "fan"

(* Mutant: the chat is seeded again by every run.                          *)
SeedAgain ==
  /\ at = "seed"
  /\ at' = IF ledger[ep].co = {} THEN "learn" ELSE "fan"
  /\ chats' = Appended(ep, Initial, Run)
  /\ UNCHANGED <<timeVars, batch, ep, fan, cursorVars, caseVars, torn, req,
                 crashes>>

(* The initial chat is seeded when it reads as empty; when it does not     *)
(* read at all the exception ends the process.                             *)
Seed ==
  /\ at = "seed"
  /\ \/ /\ <<ep, Initial>> \in torn
        /\ at' = "down" /\ batch' = {}
        /\ UNCHANGED chats
     \/ /\ <<ep, Initial>> \notin torn /\ chats[ep][Initial] = <<>>
        /\ at' = IF ledger[ep].co = {} THEN "learn" ELSE "fan"
        /\ chats' = Appended(ep, Initial, Run)
        /\ UNCHANGED batch
     \/ /\ <<ep, Initial>> \notin torn /\ chats[ep][Initial] # <<>>
        /\ at' = AfterSeed
        /\ UNCHANGED <<batch, chats>>
  /\ UNCHANGED <<timeVars, ep, fan, cursorVars, caseVars, torn, req, crashes>>

(* _verdict_to_kb, with ledger_to_kb on: not for concurrent faults.        *)
Learn ==
  /\ Goto("learn", "truncate")
  /\ learnt' = [learnt EXCEPT ![ep] = @ + 1]
  /\ UNCHANGED <<timeVars, batch, ep, fan, cursorVars, frozen, recorded, reported,
                 chatVars, req, crashes>>

(* synthesize_concurrent: a master chat means that the fan-out has run.    *)
FanOut ==
  /\ at = "fan"
  /\ \/ /\ <<ep, Master>> \in torn
        /\ at' = "down" /\ batch' = {}
        /\ UNCHANGED fan
     \/ /\ <<ep, Master>> \notin torn /\ chats[ep][Master] # <<>>
        /\ at' = "truncate"
        /\ UNCHANGED <<batch, fan>>
     \/ /\ <<ep, Master>> \notin torn /\ chats[ep][Master] = <<>>
        /\ at' = "subs" /\ fan' = ledger[ep].co
        /\ UNCHANGED batch
  /\ UNCHANGED <<timeVars, ep, cursorVars, caseVars, chatVars, req, crashes>>

FaultChat(c) ==
  /\ at = "subs" /\ c \in fan
  /\ fan' = fan \ {c}
  /\ chats' = Appended(ep, c, Run)
  /\ UNCHANGED <<timeVars, at, batch, ep, cursorVars, caseVars, torn, req, crashes>>

MasterChat ==
  /\ Goto("subs", "truncate")
  /\ fan = {}
  /\ chats' = Appended(ep, Master, Run)
  /\ UNCHANGED <<timeVars, batch, ep, fan, cursorVars, caseVars, torn, req,
                 crashes>>

(* advance() opens its file for writing, which empties it, then dumps.     *)
Truncate ==
  /\ Goto("truncate", "persist")
  /\ mem' = Advanced(mem, ep)
  /\ disk' = Torn
  /\ UNCHANGED <<timeVars, batch, ep, fan, caseVars, chatVars, req, crashes>>

Persist ==
  /\ Goto("persist", "idle")
  /\ disk' = mem
  /\ UNCHANGED <<timeVars, batch, ep, fan, mem, caseVars, chatVars, req, crashes>>

Trigger ==
  \/ Poll \/ \E e \in Episode : Take(e)
  \/ Freeze \/ WriteRecord \/ WriteReport \/ Seed \/ Learn
  \/ FanOut \/ (\E c \in Episode : FaultChat(c)) \/ MasterChat
  \/ Truncate \/ Persist

(* The chat files a process that ends now may leave half-written.          *)
Writing ==
  {<<ep, c>> : c \in {k \in Chat :
    \/ at = "seed" /\ k = Initial /\ chats[ep][Initial] = <<>>
    \/ at = "subs" /\ k \in fan
    \/ at = "subs" /\ k = Master /\ fan = {}}}

(* The trigger ends: killed, or by an exception of the adapter or the LLM. *)
Crash ==
  /\ at # "down" /\ crashes < MaxCrashes
  /\ crashes' = crashes + 1
  /\ at' = "down" /\ batch' = {}
  /\ \/ UNCHANGED torn
     \/ \E file \in Writing : torn' = torn \cup {file}
  /\ UNCHANGED <<timeVars, ep, fan, cursorVars, caseVars, chats, req>>

-----------------------------------------------------------------------------
(* The API process: follow_up.                                             *)

(* A case directory resolves as soon as it exists; the question fails      *)
(* without window.json, or when its chat does not read.                    *)
Ask(f, e, c) ==
  /\ req[f].at = "none"
  /\ e \in recorded
  /\ <<e, c>> \notin torn
  /\ req' = [req EXCEPT ![f] = [at |-> "asked", ep |-> e, chat |-> c]]
  /\ UNCHANGED <<timeVars, at, batch, ep, fan, cursorVars, caseVars, chatVars,
                 crashes>>

(* The turn is appended under the file lock.                               *)
Answer(f) ==
  /\ req[f].at = "asked"
  /\ req' = [req EXCEPT ![f].at = "done"]
  /\ chats' = Appended(req[f].ep, req[f].chat, f)
  /\ UNCHANGED <<timeVars, at, batch, ep, fan, cursorVars, caseVars, torn, crashes>>

(* The API process ends under its open questions, one of them perhaps in   *)
(* its append.                                                             *)
ApiCrash ==
  /\ crashes < MaxCrashes
  /\ crashes' = crashes + 1
  /\ \E f \in Request : req[f].at = "asked"
  /\ req' = [f \in Request |->
               IF req[f].at = "asked" THEN [req[f] EXCEPT !.at = "failed"]
               ELSE req[f]]
  /\ \/ UNCHANGED torn
     \/ \E f \in Request : /\ req[f].at = "asked"
                           /\ torn' = torn \cup {<<req[f].ep, req[f].chat>>}
  /\ UNCHANGED <<timeVars, at, batch, ep, fan, cursorVars, caseVars, chats>>

Next ==
  \/ Pass
  \/ \E e \in Episode, end \in 1..MaxTime : WriteLabel(e, end)
  \/ \E row \in labels : Predict(row)
  \/ Start \/ Trigger \/ Crash
  \/ \E f \in Request, e \in Episode, c \in Chat : Ask(f, e, c)
  \/ \E f \in Request : Answer(f)
  \/ ApiCrash

(* The trigger loops for ever and is started again after it has ended      *)
(* (copilot-up.sh); nothing is asked of the lab, the predictor or callers. *)
Fairness == WF_vars(Start) /\ WF_vars(Trigger)

Spec == Init /\ [][Next]_vars
FairSpec == Spec /\ Fairness

-----------------------------------------------------------------------------
(* Properties.                                                             *)

Alerted == {e \in Alerting : ledger[e] # None}

(* The cursor file never passes an alert whose case is incomplete: all     *)
(* files, a chat, and for concurrent faults the synthesis.  Whatever the   *)
(* trigger dies of, a restart comes back to the alerts that still need it, *)
(* also to one of several that share the second of the cursor.             *)
NoAlertSkipped ==
  \A e \in Alerted :
    disk # Torn /\ Seen(disk, e) =>
      /\ e \in frozen \cap recorded \cap reported
      /\ chats[e][Initial] # <<>>
      /\ ledger[e].co # {} => chats[e][Master] # <<>>

(* Readers of a case find what they open: a listed case has its record,    *)
(* and a follow-up works on a complete frozen window, also when a restart  *)
(* is creating the case anew.                                              *)
ReadersFindAll ==
  /\ reported \subseteq recorded
  /\ recorded \subseteq frozen
  /\ \A f \in Request : req[f].at = "asked" => req[f].ep \in recorded

Runs(e) == {i \in DOMAIN chats[e][Initial] : chats[e][Initial][i] = Run}

(* However often a case is created anew, the creation run is in its first  *)
(* chat at most once, and the knowledge base has its verdict at most once, *)
(* only of a run the chat shows, and never of concurrent faults.           *)
RunIsKeptOnce ==
  \A e \in Episode :
    /\ \A i, j \in Runs(e) : i = j
    /\ learnt[e] <= 1
    /\ learnt[e] = 1 => Runs(e) # {} /\ ledger[e].co = {}

(* What the trigger has fired stays fired: no advance of the cursor, to    *)
(* the same second or a later one, and no restart from its file forgets an *)
(* alert.                                                                  *)
FiredStaysFired ==
  [][\A e \in Episode :
       ledger[e] # None /\ Seen(mem, e) => Seen(mem, e)']_vars

(* Every alert gets its case, unless a crash has left the cursor or a chat *)
(* in a state that no longer loads.                                        *)
AlertsBecomeCases ==
  \A e \in Alerting :
    ledger[e] # None ~>
      e \in reported \/ torn # {} \/ (at = "down" /\ disk = Torn)

(* The pipeline implements the case feed.                                  *)
Feed == INSTANCE CaseFeed WITH
  alerts <- Alerted,
  cases <- reported,
  learnt <- [e \in Alerting |-> learnt[e]]

ImplementsFeed == Feed!Spec
=============================================================================
