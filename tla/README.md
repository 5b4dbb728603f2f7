# Verification of the SD-WAN / MPLS NOC lab

TLA+ models of this repository's fault injection, topology, controller, dataset,
streaming and copilot code, TLC configurations that check them on small
instances, and TLAPS proofs of safety properties for every instance.
`PROJECT.json` lists the runs, the source lines behind every definition, the
hazards and the theorems.

    tlc -workers 2 -config MCFaultInjection.cfg MCFaultInjection
    tlapm FaultInjectionProofs.tla

## 1. The system

The repository runs a containerlab network (FRR routers, WireGuard tunnels), a
userspace SD-WAN controller that generates telemetry and steers paths, a fault
injector that impairs the network and labels what it did, a data API over the
telemetry, a streaming bridge, and a NOC copilot that predicts faults, opens
forensic cases and lets operators ask about them.  All of it is Python; the
concurrency is threads (HTTP handlers, one worker per fault, tick loops),
separate processes that share files and a SQLite database, and calls over
docker exec and HTTP that may fail or time out.

| Component | State | Operations | Talks to | Hard behaviour | What makes it correct |
|---|---|---|---|---|---|
| Live fault API, `dataapi/faults_api.py` | `_ACTIVE` registry, a cancel event per fault | `inject`, `revert`, `_runner`'s end | a daemon worker thread per fault | revert pops the entry before the worker has stopped; daemon threads die with the process | one fault per device; a worker nobody lists has been cancelled |
| One injection, `faults/orchestrator.run_scenario` | locals: `fired`, `overlay`, `error`; a label row | post overlay, emit precursors, wait, fire, hold, revert, clear, label | docker exec, controller HTTP, Loki | every call may raise after taking effect; two waits race the cancel | the lab ends at its baseline or the row names what failed |
| Campaign, `run_campaign` and `_campaign_fault` | `active_targets` (lock keys), counters, thread list, stop event | draw, spawn, lock, build, apply, hold, revert, label, release; SIGINT | docker exec, the label file | lock keys of two grains; a SIGINT during the join; core faults that share links | keys are given back; a device-exclusive fault is alone; a label's impact is real |
| Injectors, `faults/injectors.py` | none (stateless) | `apply`, `ramp`, `revert` | docker exec | several commands per call, no return code looked at | revert restores the baseline |
| Controller registries, `controller/controller.py` | `_drift`, `_overlay` dicts | POST/clear/GET over HTTP threads, pruning in the tick | the orchestrator posts, the tick reads | snapshot, test and pop are separate steps over a live dict | nothing expired is used, nothing cleared comes back, every entry with an end goes |
| Path selection, `Controller.select_paths` | active hub per (site, VRF) | one round per tick | reads tunnels and drift | thresholds of 3x, drift multiplier, 5% loss, 15% band interact; drift changes mid round | paths leave an unhealthy hub, come back, and do not flap |
| Tunnel telemetry, `TunnelState.update` | queues, AR(1) noise, ramps | one update per tick | metrics exporter | floating-point only | input of path selection |
| Predictor, `copilot/emulator/predictor.py` | the SQLite ledger | tick: fetch labels, predict, append | data API, ledger | a tick may fail; rows are idempotent by alert id | one row per episode |
| Forensic trigger and cases, `copilot/forensic/*` | cursor file, case directories, chats, knowledge base | poll, create case (seven steps), advance cursor, follow-up | ledger, adapter, LLM, session store | crash between any two steps; a follow-up during creation | no alert is skipped, a listed case is complete, a verdict is learnt once |
| Agent loop and gate, `copilot/agent/*` | messages, evidence, three counters | LLM turn, tool calls, gate, retry | LLM, tools | retries, budgets and caps end the loop in different ways | ends; an answer that passed the gate has evidence |
| PA alerts, `pa_alerts/service.py` | per-entity baseline and counter, last result | score tick, rank or threshold, GET | PA model over HTTP | a baseline frozen while over the margin; a failed tick leaves the old result | a sustained rise stays flagged, a transient is not |
| Kafka bridge, `streaming/bridge.py` | Loki cursor, byte offset per label file, the producer's queue | pump metrics, events, faults; flush; replay | Loki, VictoriaMetrics, Kafka | the offset passes a torn line and rows that are only queued; batches that fail or are sent again unseen; one cursor for all streams; a raised cycle | what is lost or repeated has a cause |
| Consumers, `streaming/consume.py` | row buffers, offsets, incidents | drain labels, build windows, commit, brief | Kafka | commit covers rows still buffered; a drain that ends early; labels after the drain; partitions in any order | windows carry the labels that were drained; no committed row is unused without a crash |
| Generator, `generator/generate.py` | topology, inventory, metadata files | build links, areas, SRLGs, addresses | read by orchestrator, controller, data API, replay | octet arithmetic; tables derived again elsewhere | one core fault is survived; derived tables agree |
| Synthetic dataset, `synthetic/generate.py`, `events.py`, `topology_paths.py` | ledger, label dictionaries, metric frames | draw episodes, cascades, near misses; derive tables | export, bridge replay | overlapping episodes; window edges within buckets | labels, signals, counters and tables tell one story |
| Session store, `copilot/memory/session.py` | append-only event files | append under flock, read, history | chats and sessions | concurrent turns of one chat; a torn line | a turn lands whole |
| Copilot API, tools, adapters, retrieval, workspace | requests | stateless request handling | all of the above | text and I/O | - |
| Data API, telemetry, traffic, Grafana plugin, deployment | files | sequential transformations | - | - | - |

### Interactions

* `inject` starts `run_scenario` on a daemon thread; `revert` reaches it only
  through the cancel event.
* `run_scenario` posts an overlay to the controller before the fault and clears
  it after; the controller keeps one overlay per site and drops it by itself at
  its end; the clear names the site, not the injection.
* A campaign runs the same injectors without overlays (`overlay` specs apply
  the physical fault only) and serialises its threads by lock keys.
* The controller's tick and its HTTP threads share two dicts without a lock,
  relying on the atomicity of single dict operations.
* The generator's metadata names the links that core scenarios cut; controller,
  prediction graph and replay derive their tunnels and edges from the inventory
  by rules of their own.
* The bridge polls metrics and events and tails the label file; the predictive
  consumer drains the labels, then windows the metrics; the copilot's consumer
  keeps a ring of incidents.
* Label rows feed the emulator that predicts; predictions reach the forensic
  trigger through the ledger; cases feed the knowledge base.

## 2. Modules

| Module | What it models |
|---|---|
| `Lab` | the set of impaired resources and what one injector call does to it: complete, partial (raised), or silently refused |
| `FaultInjection` | the live API, the workers, the lab, the overlay registry, label rows, restarts of the API process |
| `Campaign` | the main loop, the fault threads with their lock keys, SIGINT, labels and the summary |
| `Injectors` | every injector's probe, apply and revert, command by command; shows that `Lab` is right about them |
| `Topology` | operators: what the generator builds from its knobs, and what controller, prediction graph and replay derive from it |
| `CoreFaults` | the core scenarios on such a lab, alone and in pairs, and what their reverts leave |
| `CoreReach` | what such a fault leaves of the network: OSPF areas and route reflection (operators and properties over `CoreFaults`) |
| `FaultRegistry` | the drift and overlay dicts, their HTTP calls and the tick's pruning, one dict operation per step |
| `PathSelection` | `select_paths` VRF by VRF, metrics changing at each tick, drifts changing at any time |
| `Dataset` | the synthetic generator's ledger with episodes, cascades and near misses; edge, path and event tables, the export's join and the bridge's replay |
| `Streaming` | the bridge's cycle, the topics, the predictive consumer and the copilot's incidents, with restarts |
| `CaseFeed` | what the forensic pipeline promises: alerts, cases and verdicts, without processes or files |
| `Forensic` | predictor, ledger, trigger with its cursor and case creation, follow-ups, crashes of both processes; implements `CaseFeed` |
| `AgentLoop` | the investigation loop with its budgets, the gate and the judge, and the fan-out with its synthesis |
| `*Proofs` | the theorems about a module (section 5) |
| `MC*` | the instances TLC checks |

`FaultInjection` and `Campaign` compose their processes with `Lab`; `Injectors`
has an instance of `Lab` for the comparison; `CoreFaults` extends `Topology`
and `CoreReach` extends it with reachability, a recursive function over sets of
routers;
`Forensic` has an instance of `CaseFeed` with its refinement mapping.

### State and actions against the code

**Lab.**  A resource is whatever an injector puts in a faulty state and takes
out again: an interface's qdisc or admin state, a VRF's route-map, a process.
`Footprint[s][t]` and `ExtraOf[s][t]` say what `spec["injector"]` and
`spec["extra"]` of scenario `s` touch on target `t`.  `ApplyRaised` and
`RevertRaised` are the outcomes of a call that raises between two commands;
`Returned` adds the outcomes of commands that fail without an exception, since
`_sh` never looks at a return code (`injectors.py:42-44`).  `Pulse` is
`LinkFlap`, whose `apply` ends with the link up.  `Daemon` are the killed routing
daemons: watchfrr respawns them (`injectors.py:296-327`), and does not wait for
the revert of the fault, so `FaultInjection`, `Campaign` and `Injectors` have a
step `Respawn` that may come at any time, also during the hold.

**FaultInjection.**  `active` is `_ACTIVE`; `cancel` the events; `pc` the place
of each worker in `run_scenario`; `fired`, `held` (`overlay is not None`) and
`error` its locals; `rows` the label rows; `overlays` the controller's registry
by site.  `Inject` is the critical section of `inject`.  `revert` is two steps,
`RevertPop` under the lock and `RevertSignal` after it.  A worker step is one
external call or one wait.  The wait steps read the cancel event when they
return; the buildup wait reads it again before the injector runs, as the code
does.  `Crash` ends the process: daemon workers stop where they are and no
`finally` block runs.  `error` holds the parts of the error string that the
code distinguishes by text.

**Campaign.**  `targets` is `active_targets`.  `Acquire` is the lock, the test and
the insertion; a thread whose key is taken ends.  `LockKeys` has the fallback
key of a throwaway builder that raised.  `Interrupt` is SIGINT: in the loop it
sets the stop event, in the join the default handler is back and the process
ends (`main = "killed"`), with the threads where they are.  The join's limit of
300 s is never met: holds end after 180 s and ramps after 63 s.

**Injectors.**  `dev` is the state of each resource, `job[i]` what injector `i`
is, `step[i]` the next command of the script it is running.  `Build` is the
constructor, which probes the qdisc; a refused probe reads as "no HTB root".
Each command takes effect (`Work`), is refused without anybody looking
(`Refuse`), or times out and raises, with or without effect (`TimeOut`).
`ApplyScript` and `RevertScript` are the commands of `apply()`/`ramp()` and
`revert()` in their order; repeated commands of a ramp or flap come twice.
`Respawn` is watchfrr.  `CallsMatchLab` compares what a whole call did with what
`Lab` says of it.

**Topology, CoreFaults.**  `Topology` is operators only, over a record of knobs
(POPs, routers per POP, PEs, homing, chords, reflectors, sites): the links of
the core with rank, area, cost and SRLG, the metadata the orchestrator reads,
addresses and the generator's assertions, and then the tunnels of
`controller/topo.py`, the graph of `topology_paths.py`, the interface numbers of
`topologies.py` and the live graph of `topology_edges.py`.  The rounds of the
replay's loops have numbers in the order they run, the built links have ranks;
both only order a node's interfaces.  `Addresses` has every octet that is
computed: those of a site's number (`EdgeAddresses`) and those that are counted
from a first one on (`Counters`: core /31s, loopbacks, management).  `GraphArea`
is the place of a POP among the sorted names, by which the prediction graph
homes the PEs.  In `CoreFaults` a fault is `<<scenario, target>>`; `knobs` is
the lab, `down`, `cost` and `killed` are its state.  The revert of
`path_asymmetry` writes the cost the code guesses from the router's role.  In
`CoreReach` reachability is OSPF with areas, and VPN routes follow reflection;
`Redundant` and `Served` are the knobs that the theorems about it assume, and
the labs that TLC injects faults into have both.  Three assumptions bound the
knobs: `BoundsAssumption` the instance, `SizesAssumption` what `build()` needs
(three routers in a POP) and the ranks allow, `NamesAssumption` what the
generator takes on trust (a chord does not join a POP to itself, reflectors are
PEs, more than one POP).

**FaultRegistry.**  Each dict holds at most one entry per site, with a fresh
number and its end; `asked` remembers what the last answered call of each site
asked for.  The tick is a snapshot (`list(dict.items())`), a pop for each
expired entry of the snapshot, the same for the other dict, then the update of
the tunnels from the live dict.  The GET of the live overlay dict is one step
per item.

**PathSelection.**  `active[v]` is the hub of VRF `v` of one site.  A round
takes any metrics from `Metric` (`Update`), then selects for one VRF after the
other in any order; `PostDrift` and `ClearDrift` come between any two steps.
Losses (per cent) and latencies (milliseconds) are integers here; the 15% band
and the multipliers are compared by cross-multiplication, so no rounding is
introduced.

**Dataset.**  `ledger` has one entry per episode or near miss, `dicts` the label
rows and provenance of each, `active` the per-kind masks, `octets` and `ops` the
two signals that are kept as values.  Time is in ticks, several to a bucket, so
that an impact or an end falls on a bucket or between two.  `pc` is the
generator's stage: roots, the cascade under way, near misses, done.  Every
random draw is a choice.  `near` are the rows flagged as near misses and
`erased` the device rows whose metrics a near miss has set to NaN:
`collector_dropout` writes over cpu, temperature, power and fan
(`generate.py:792-793`), also where a fault moved them; the other near misses
leave what a fault did.  Edge intervals, path segments, session events, the
export's join and the replay's labels are operators of the finished ledger, as
in the code; severity, rank, latencies and the curves of the ramps are left out.

**Streaming.**  Times are in half buckets, so that a fault can begin or end
within one.  `size` is the label file in half rows, so that an odd size is a row
that is being written.  `PumpMetrics`, `PumpEvents`, `PumpFaults` and `Flush` are
the cycle; `MetricsRaise` and `SendRaises` give a cycle up in the middle, after
some rows, `LokiError` skips the events, `RestartBridge` forgets offset, cursor
and what the producer holds.  `PumpFaults` hands rows to the producer (`queued`)
and moves the offset past all of them, since `send` only queues and nobody looks
at a future (`bridge.py:174-176`, `:254`).  The sender thread then delivers a
record (`Deliver`), gives its batch up (`DropBatch`) or makes an attempt again
that may have been written (`RetryBatch`), at once or behind others.  `Flush` ends
the cycle when nothing is queued, whatever became of it.  A metrics cycle arrives
in one step, whole, twice (`ResendMetrics`), or without the rows of a failed batch;
that is enough, as a cycle waits in `Flush` before the next one polls.
`noc.faults` has one sequence per partition (`TOPICS`, `bridge.py:58-63`, has
three; the instance two) and a row goes to that of its device; `noc.metrics` is
the partition of one device; `events` counts how often each event was sent.

The consumer drains the labels (`Start`): to the ends captured before, or any
part of each partition, because the loop also ends when a poll is quiet for five
seconds (`consume.py:208`), or nothing when the client does not know the topic
(`consume.py:209-212`); `whole` says which.  Then it pushes a row (`Consume`),
emits a window and commits the partition's position (`Commit`).  The copilot's
incidents are a function of the rows it has read (`Views`), so its consumer needs
no state of its own; `Readings` are all the orders in which it may have read the
partitions.  Rows are in the order their faults end only where the file is
(`EndsInOrder`): the orchestrator does not lock between taking `t_end` and writing
the label.

**Forensic.**  The predictor, the trigger and the API are processes that share
files only, so the variables are files (`labels`, `ledger`, `disk` the cursor
file, `frozen`, `recorded`, `reported` the files of a case, `chats`, `learnt`
the knowledge base) and what a process holds in memory (`batch`, `ep`, `fan`,
`mem` the `Cursor` object, `req` a follow-up under way).  `at` is the place of
the trigger; it is cut where a file becomes visible, since a reader or a crash
can come in between.  `Truncate` and `Persist` are the two halves of
`advance()`: the file is opened for writing, then dumped.  `Crash` ends the
trigger wherever it is, which is also what an exception of the adapter or of
the LLM does, as nothing catches it; a crash during an append may leave half a
line (`torn`), and a chat with half a line raises at every later read.  `Start`
is `copilot-up.sh` run again.  `Seed` reads the chat and appends to it in one step
(`case.py:306-307`); a follow-up that is appended in between, which the code would
not see, is not modelled.  Time is in the seconds the code's stamps are cut
to, so several records can share one, which is what the tie set of the cursor
is for.  `Ahead` says how far beyond its writing a label's `t_end` may lie: the
orchestrator writes a label at `t_end`, so with it the emulator sees a fault
only in that very second; probes and replayed label files lie ahead.
`Forensic!Feed` maps `alerts` to the alerting episodes with a ledger row, `cases`
to the episodes with `case.md` and `learnt` to the verdicts of alerting episodes;
crashes, restarts, cursor, chats and follow-ups are stutters.

**AgentLoop.**  `run` is the investigation under way, then the master chat.  A
turn is a chat whose reply is any batch of calls or any draft; `todo` are the
calls still to be dispatched, `open` those without a tool message.  `Dispatch`
charges `productive` and `dispatched` as the code does; `CapReturns`,
`StepsSpent`, `AskBack`, `Stop`, `Accept` and `Block` are the ways out of a turn.
A draft is the ids it cites and whether each device it names is anchored; ids
are built as `serve_rows` builds them, by source and index within one call.
`ReplyDraft` is the deterministic gate, `Judge` the second stage.

## 3. Runs

| Run | Shows | Instance | States, time |
|---|---|---|---|
| `injection_safety` | registry, lab, overlays and label rows stay accountable for each other | two injections and two scenarios on one CE, every exception of Lab and of HTTP, watchfrr, one restart | 1,877,112, 50 s |
| `injection_ends` | every injection ends, every overlay drains | two injections over three targets whose link sets overlap, lost posts and clears, fairness | 162,163, 103 s |
| `campaign_safety` | exclusivity, what a held fault may lose | three faults, two CEs, failures of extra, revert and label, watchfrr, one SIGINT | 665,804, 32 s |
| `campaign_ends` | leftovers are labelled, what a held fault may lose, the campaign ends, keys are given back | two core faults with shared links, every exception, one SIGINT, fairness | 255,798, 106 s |
| `injectors` | impairments are undone, calls do what `Lab` says | two injectors of nine jobs, six kinds of resource, every command refused or timed out | 185,819, 10 s |
| `core_faults` | one campaign fault is survived, faults hit what they name, derived tables agree | the lab of `topology-spec.yaml` and a five-POP core, faults in pairs; 64 customer edges around the assertions' limits; cores of 9, 10 and 21 POPs | 19,226, 48 s |
| `registry` | nothing superseded or expired is seen, entries expire | two sites, two posts or clears, three instants, fairness | 73,472, 17 s |
| `paths` | the policy holds in every round, paths settle | three hubs, two VRFs, six metrics around each threshold, drifts of 5 and 99 | 15,888, 14 s |
| `dataset` | labels, signals, counters, ledger and derived tables fit each other | one branch, two hubs, a PE; six buckets of two ticks; four fault types of the three kinds; up to three ledger entries | 71,261, 40 s |
| `streaming` | sends, repeats, windows, commits and the brief are explained; labels arrive | three labels of two partitions, one stream, one series, three cycles, windows of three rows every two, one failure of any sort, fairness | 755,804, 175 s |
| `forensic` | no alert skipped, readers find what they open, one creation run and one verdict per case, alerts become cases, `CaseFeed` implemented | two alerting episodes, one follow-up, two instants, one crash, fairness | 325,530, 32 s |
| `agent` | accepted answers are grounded, synthesis is traceable, transcripts are matched, runs end | two faults, three rows of two devices, pages of one row, three steps, two calls, one retry, every reply, fairness | 62,506, 10 s |

Each property has a mutant: a definition changed as a plausible bug would change
it, under which the run finds the property violated.

**Why the bounds are enough.**  Every conflict the code knows is between two
actors: two injections of a device, two holders of a key, a poster and the tick,
two injectors on an interface.  Two injections reach each of them, and a third
can only wait for one of the first two; the campaign's safety run has three
because a whole-device key can meet two resource keys at once.  The two-scenario
CE has one scenario with overlay and extra and one with neither, the two shapes
the builders produce.  One restart is enough because a restart leaves nothing
but the lab and the controller, both of which a second restart leaves alone.  In
`registry` a second post of the same site is needed to supersede the first; a
third repeats the second.  The metrics of `paths` lie on each side of each
threshold.  In `core_faults` six POPs with chords give the partition a wrap,
ABRs and internal routers; the five-POP core has odd halves, full-mesh iBGP and
several facing routers; the edges lie on either side of each assertion; nine
POPs have names of one digit, ten one of two, and of 21 some sort before "pop2"
and some after.  In `dataset` one span ends on a bucket and one between two,
three entries allow an overlap with a cascade hop or a near miss beside, and one
slice suffices as slices share nothing.  In `streaming` three labels, two of
them of one partition, overfill a brief of two and begin at and between buckets,
the third cycle polls buckets for the second and third time, so that they reach
a window out of order (interval and step are equal, as by default), and windows
of three rows every two overlap; series are windowed one by one, and
`CommittedRows` is proved for any number of them; one failure can come at each
place.  In `forensic` two episodes are what ties in one second, concurrent
faults and the order of a batch need, and two instants let the cursor both stay
in its second and move on.  In `agent` each budget can end a run before the
others, and reads of two devices give two rows one id.

`CHECK_DEADLOCK FALSE` stands in the instances that really stop: their
injections, faults or posts are used up, the dataset is finished, every run is
over, or in `forensic` a crash has left a file the trigger cannot load.  In `paths`,
`registry` and `streaming` something can always happen, and TLC checks that.

**Fairness.**  Workers and fault threads are weakly fair: each external call has
a timeout (docker exec 15 s, HTTP 5 s) and each wait a bound, so a thread that
can step does.  A revert handler that has popped an entry finishes.  The
controller's tick loop is fair, being an endless loop with a sleep
(`controller.py:737-741`), and so are the bridge's cycle and its producer's sender
thread taken together (`bridge.py:459-475`, whose calls have timeouts and whose
exceptions are caught; a cycle waits for the sender), the trigger's loop
and the operator who starts an ended trigger again; the predictor is not, as
what it sees depends on when it ticks, nor are the streaming consumers.  The
agent loop is one thread whose chats and tool calls have timeouts, so its next
step is fair.  Nothing is assumed of callers: nobody has to inject, revert or
post, and no process need crash.  A metric change is not fair either: the
liveness property of `paths` is conditional on a calm.

**Properties worth a word.**
`LeakIsExplained` says that each impaired resource has an injection that touches
it and that will still revert it, or names a failed step, or was killed; it is
how the guaranteed `finally` can be true under failures.
`HeldIsImpaired` says what the active-target guard is worth: a fault in its hold
has its impact, but for a daemon that watchfrr respawned and for resources of
another fault whose lock key is compatible with its own.  On the CEs of
`campaign_safety` no two such faults share a resource; in `campaign_ends`, on the
core's pools, they do.
`LeftoversAreLabelled` is the campaign's counterpart of the first, over link
sets that overlap; a campaign that a second SIGINT kills leaves faults of lost
threads without a label, and nothing else.
`NothingComesBack` excludes the rebinding bug that the comment at
`controller.py:538-542` describes.
`LossyMeansNoBetter`, `OffPreferenceIsJustified` and `LeavesOnlyUnhealthy` relate
the chosen hub to all the others after a round during which drifts changed.
`SettlesWhenCalm` is the absence of flapping.
`ImpairmentsAreUndone` holds however the commands of two injectors on one
resource interleave, which no caller prevents for all of them.
`LabelsAreExact` and `TablesFollowLedger` compare results the code computes apart:
label masks and perturbations, the generator's labels and the export's join,
interface rows and edge intervals.  The first says that a labelled row shows its
signal exactly if no collection gap of the ledger lies on it.
`LabTablesAgree` says below which sizes the octets that nobody checks fit, and from
how many POPs on the prediction graph and the lab part.
`SendsAreAccounted` names the only ways a label that the offset has passed is lost
(a torn line, a failed batch) or repeated (a restart, a raised cycle, a batch sent
again), and bounds the disorder of the metric rows that arrive.
`WindowsAreLabelled` is of drains that reached the ends, and of faults that ran at
the beginning of the window's last bucket.
`BriefIsExplained` holds of every order in which the partitions can be read.
`SynthesisIsTraceable` is why ids are attributed to chats: unattributed, two
runs' first rows are one id.

## 4. Observations

What the models brought to light and no property excludes, because the code
does it:

*Injection and campaign*

* `revert` pops the registry entry before the worker has reverted, so a second
  injection of the device runs beside the first (`faults_api.py:152`).
* `fired` is set after the extra's `apply`, so when that raises, the injector
  that already ran is not reverted (`orchestrator.py:825`).
* The SIGINT handler is restored before the join, so a SIGINT during it ends
  the process over faults that are still in the lab and get no label
  (`orchestrator.py:1211`), against "Always revert, even on exception or SIGINT"
  (`orchestrator.py:1099`).
* A killed daemon can be back long before the hold that its label describes ends
  (`injectors.py:296-327`, `orchestrator.py:239-251`).
* A row whose overlay post failed and whose fault was reverted early carries
  only the overlay's error, since the flag is set only on an empty error
  (`orchestrator.py:858`).
* A label's `t_impact` is `t_start` plus the lead although the overlay's post and
  the precursors delay the fault; an early revert gives `t_end < t_impact` (its
  row has an error).
* The campaign's filter on busy targets compares names with pairs and never
  excludes anything (`orchestrator.py:1189`); the lock keys carry the exclusion.
* `_lock_key` swallows the failure of a device probe and falls back to a key by
  scenario name, which no other scenario on that interface holds
  (`orchestrator.py:999-1008`).
* Commands refused without an exception leave the lab impaired under a row
  without an error (`injectors.py:42-44`); `LeakIsExplained` is therefore stated
  and proved without them.
* An injector whose qdisc probe is refused takes an uplink for a core interface,
  and its revert deletes the QoS root (`injectors.py:103`, `:204`).

*Topology*

* "Each touches a disjoint, recoverable link-set" (`orchestrator.py:936-937`) does
  not hold of `p_node_failure` and `srlg_cut` against ABR faults, which hold other
  keys: the first revert brings up a link the other label still claims.
  `HeldIsImpaired` therefore excepts faults that share a resource.
* Both reflectors are in POP 1, so `pop_isolation` of it ends all reflection.
* Nothing bounds the octets that are counted (`generate.py:195`, `:239`,
  `:413-423`).  Management addresses begin at .101, so a lab of 155 nodes has one that
  is 172.20.20.255 and one of 156 has 172.20.20.256; 64 sites that pass every
  assertion are some 200 hosts.  The lab of `topology-spec.yaml` has 148 nodes.
  With one POP the ring links a router to itself.
* The prediction graph numbers POPs in the order of their names
  (`topology_paths.py:71`), in which "pop10" precedes "pop2": from ten POPs on it joins
  every PE outside the first POP to routers of another, against "PEs homed in this
  pop attach to every P in the pop" (`topology_paths.py:105`).
* The prediction graph has edges the lab has not: a PE to every P of its POP, and
  full-mesh iBGP, since the metadata has no `rr`; an ABR pair's area is the POP
  instead of 0; hub to hub WireGuard pairs have no edge.
* The live API's role `p` accepts ABRs for `mpls_underlay_failure`.

*Controller*

* The tick pops whatever the site holds now, so a post between its snapshot and
  its pop is lost (`controller.py:548`); the overlay GET walks a live dict and
  fails when another thread resizes it (`controller.py:647`).
* A drift POST without a multiplier gets 2.0, below the 3x of the recovery
  test; with it a VRF can flip between two hubs under constant metrics
  (`controller.py:671`).  The orchestrator posts 5 and 99; the theorem
  `OnlyUnhealthyIsLeft` assumes 3 and more.
* A drift suppresses failovers for latency, never for loss
  (`controller.py:508-511`).

*Dataset*

* Near misses carry the kind `hard_negative`, so the hard branch of
  `events._spec` is never taken; `iface_down` announces an OSPF adjacency down
  and never up; LDP and OSPF sessions of two kinds of episode can interleave.
* `collector_dropout` sets the device metrics to NaN without looking whether a fault
  moved them (`generate.py:788-794`); where it did, the row's near-miss flag is
  cleared because "the fault wins" (`generate.py:871-876`), and a row stays that is
  labelled and shows nothing.
* At a bucket that is exactly the impact the edge is out while the row is up, at
  one that is the end the reverse; the first and last bucket of an episode can
  be labelled with no impairment in them.
* Tables of both streams merge their ledgers; parallel links have one edge id
  when the mesh is redundant; an outage of a CE leaves its tunnel rows healthy.
* With a single hub, which `topologies.py:234` allows, a tunnel ramp is a segment of
  its own in the path table but stays on the preferred hub
  (`topology_paths.py:336`).
* The root entry of a cascade keeps an empty motif in the ledger after the label
  rows have got theirs.

*Streaming*

* The offset passes a line that is being written, and the rest of it will not
  parse: the row is lost for good, against the comment at `bridge.py:250`.
* `send` only queues, its future is not looked at and `flush` does not raise, yet the
  offset passes the rows: those of a batch that fails are lost without a trace
  (`bridge.py:174-176`, `:254`), although `bridge.py:136-139` chooses `acks=1` because
  `acks=0` "would drop records silently".  `requirements.txt:9` asks for any
  kafka-python from 2.0 on; where it retries, a batch can arrive twice and behind
  later ones.
* The drain stops "at the offsets captured above, not when the poll goes quiet"
  (`consume.py:217-218`), but the consumer it iterates over also ends when a poll is
  quiet for five seconds (`consume.py:208`), and a client that does not yet know the
  topic gets no labels at all (`consume.py:209-212`).  The run then windows without
  them and says nothing.
* A window's end is the beginning of its last bucket, so a fault that begins inside
  that bucket is not one of its labels (`consume.py:171-186`); the join of the export
  does label that bucket (`export.py:351`), which `consume.py:172-173` says it matches.
* `noc.faults` has three partitions (`bridge.py:61`), so the copilot reads rows of
  different devices in any order: "most recent" is most recently read.
* One cursor serves all Loki streams: lines of a later stream that are older
  than the cursor are dropped (`bridge.py:218`).
* Cycles overlap and metric rows are sent two or three times; the windower does
  not remove duplicates.  Cycles share two buckets, so two neighbouring rows can be
  in the wrong order: a window of two rows can begin after it ends and lose its
  label.  `--window` is free (`consume.py:492-494`); `WindowsLabelled` is proved of
  every other length (the default is 168).
* A failed metrics poll gives up the whole cycle, although the comment at
  `bridge.py:467-468` says that the other topics keep flowing.
* A restarted bridge sends all labels again; `n_concurrent` then counts them
  twice, against "idempotent" at `consume.py:198`.
* The commit covers rows of other series that wait in memory: a restarted
  consumer has lost them (`consume.py:254`).
* After labels have been sent again the copilot's "most recent" resolved
  incidents, and the ones it drops, are not in that order.
* Consumers label by device, so a window of an entity the fault does not touch is
  labelled too.

*Copilot*

* `advance()` truncates the cursor file before it writes it, so a trigger that
  ends in between cannot be started again until somebody repairs the file
  (`trigger.py:69`).
* A crash between `case.md` and the cursor's advance makes the restarted
  trigger create the case again: "exactly once" at `trigger.py:10-12` is of the
  cursor, not of the work.  The second run rewrites `case.md` while the chat and
  the knowledge base keep the first run's verdict.
* A follow-up to the initial chat between a crash and the second run makes the
  chat look seeded, so the run and the verdict never arrive; one to the master
  chat keeps the fan-out from running.  `RunIsKeptOnce` is therefore an upper
  bound.  Two follow-ups of one chat do not see each other (`chat.py:112`).
* The emulator looks for a row with `t_start <= now <= t_end`
  (`emulate.py:305-309`), but the orchestrator writes a row only at `t_end`: a
  live fault is predicted only by a tick in that second, although the timeline
  is fetched at every tick in order that such a fault is seen
  (`predictor.py:45-47`).
* Of several active faults the first row alone gets a record; the others are
  its co-active faults, and get one of their own only if they outlast it.
* A half-written chat line makes every later read of that chat raise
  (`session.py:65`), in the API and in the trigger, which then ends each time it
  is started.
* `copilot/emulator/real_pa.py:20` imports `_alert_id`, which `emulate.py` does
  not define.
* Cite ids restart with every call (`contract.py:137-146`): two reads of one run
  give two rows the same id.  A row read twice counts twice towards the gate's
  sufficiency; one off-topic row of a windowed read blocks every later answer of
  the run; the gate's window check cannot fail for rows of `serve_rows`; the
  setting `COPILOT_GATE_DISABLE` (`config.py:61-65`) is read and used nowhere.
* PA alerts, not modelled: the baseline is frozen while the score is over the
  margin, and a failed tick keeps the old alerts (`pa_alerts/service.py:165`).

## 5. Proofs

All theorems hold for every value of the constants that satisfies the named
assumptions of the modules (finite domains are not assumed, except where
stated).  tlapm checks every leaf.

| Module | Theorem | Argument |
|---|---|---|
| `FaultInjectionProofs` | `TypeCorrect` | inductive |
| | `RegistryIsExclusive` | inductive with the type |
| | `UnregisteredAreCancelled` | inductive; needs that a reverting id is out of the registry and that a registered worker is live |
| | `LeaksAreExplained` | assumes no silent refusals; the invariant says of each injection in which places it may have an impact without an error |
| | `LabIsRestored` | assumes a docker that never fails; the invariant attributes each impaired resource to a worker that owes its revert, so that overlapping footprints do no harm |
| | `OverlaysAreExplained` | the poster of the overlay a site shows is in a place from which it clears it, or has an error |
| `OrchestratorProofs` | `TypeCorrect` | of `Campaign`; inductive |
| | `KeysAreTheHolders` | inductive over the places between `Acquire` and `Release` |
| | `ExclusiveIsAlone` | follows from the keys: a whole-device key excludes every key of the device |
| | `HeldFaultsKeepTheirs` | assumes no silent refusals, and nothing of footprints and keys; `ImpactInv`: from the end of its apply to the end of its hold, what a fault misses was respawned or taken (`Took`) by a thread that has called its injector and keeps its job and key |
| | `LeftoversHaveLabels` | assumes no silent refusals; a thread that has fired and not reverted still owes the revert (`Accounted`), a row keeps the error it was written with (`RowsAreKept`), after the join every thread is done and in a kill alone threads are lost (`ThreadsEnd`) |
| | `RevertsUndo` | of `CoreFaults`, for labs whose OSPF costs are the 10 and 100 in `orchestrator.py:545-556`; `CoreInv`, see below |
| | `OneFaultSurvived` | of `CoreReach`, for labs that are `Redundant`; `LinksInv` and paths through the ring, see below |
| | `FaultsHit` | of `CoreReach`, for labs that are `Redundant` and `Served`; `LinksInv` and islands, see below |
| | `TablesOfTheLab`, `RoomForTheEdge`, `OneLab` | what holds of every knob record holds of the lab; ranks, sites, nodes and addresses are numbered one to one, see below |
| `ControllerProofs` | `RegistryTypes`, `NothingReturns`, `UpdatesAreCurrent` | of `FaultRegistry`; the numbers of entries grow, a snapshot holds only what was current, and between the pruning and the update no time passes |
| | `PathTypes`, `OffPreferenceJustified`, `LossyHasNoBetter` | of `PathSelection`; the selection of one VRF establishes the property for it and the metrics stay until the round is over |
| | `OnlyUnhealthyIsLeft` | arithmetic on the thresholds, for multipliers of 3 and more |
| `ForensicProofs` | `TypeCorrect`, `ReadersAreServed` | `FilesInv`: what the files of the current case hold, by the trigger's place |
| | `NoneIsSkipped`, `FiredForGood` | `CursorInv`: an alert that neither the cursor nor the batch covers is no older than those of the batch, so that an advance passes nothing but the alert itself |
| | `RunsOnce` | `RunInv`: at `learn` the chat shows a run whose verdict was not learnt |
| | `PipelineImplementsFeed` | initial state and step simulation, from `FilesInv` and `RunInv` |
| `AgentLoopProofs` | `TypeCorrect` | inductive with the control part: no counter passes its cap |
| | `ChatsMatched` | `Matched`: outside a batch nothing waits, inside one the open calls are those still to be dispatched |
| | `AnswersGrounded`, `SynthesisTraceable` | `Judged`, `Pending`, `Fresh`, see below |
| | `AcceptedRoundsAreClean` | an action property, from the gate's verdict kept by `Judged` |
| `InjectorsProofs` | `TypeCorrect` | inductive |
| | `ImpairmentsUndone` | what is off its baseline is owed by an injector whose script will restore it or that has failed (`Owed`); scripts touch their own resources in a fixed order, and a lost QoS root has a blind injector |
| | `CallsMatch` | of the property over whole calls: `CallsSoFar`, see below |
| `StreamingProofs` | `CommittedRows` | `Counted`: in a full buffer all rows but the last `since` have been in a window, so what falls out at the front was used; a buffer that is not full has lost nothing |
| | `PassedLabels` | an offset inside a row has torn it (`TornIsKnown`), so the next read need not find it; a row leaves the queue for its topic or for `lost` only |
| | `StreamingTypes`, `SendsAccounted` | `BridgeInv`: a row is on its topic and in the queue at most once for each restart, each cycle that raised and each batch sent again, and once more only if the offset has passed it (`RowsBounded`), in its device's partition (`InTheirPartition`); likewise an event by restarts and the cursor (`EventsBounded`); `BufferInv` for the order of metric rows |
| | `WindowsLabelled` | for windows of any length but two rows; of drains that reached the ends; `WindowInv`, see below |
| | `BriefExplained` | by induction over the rows read a view names no row twice, the one read last, and nothing that was only read before a row it dropped (`Kept`); as long as nothing was sent twice each partition is in file order (`InFileOrder`) and any reading of it takes its rows in their order (`Places`), and then a view is the last rows read (`LastRows`) |
| `DatasetProofs` | `CountersCompose`, `LedgerSound`, `TablesAgree` | `DataInv`, see below |
| | `LabelsExact` | `DataInv` and `Emptied`: the erased rows are those of the collection gaps in the ledger |
| | `TablesFollow` | assumes two hubs at least (`TwoHubs`); `DataInv` and `Shown`, and invariants of the folds, see below |

`NoAlertSkipped` is not inductive: it speaks of what the cursor has passed, and
whether the next advance passes something else depends on the order of the
batch and on alerts that arrived after its scan.  `CursorInv` adds both, and that
the cursor is never ahead of the clock, so that a new record is never behind it.
`AnswersAreGrounded` is not inductive either: an answer is accepted one step
after the gate, so the invariant adds that the gate's verdict stays true until
the judge speaks (`Judged`), that cites of a run come with its end (`Fresh`) and
that a run has no verdict before it (`Pending`).

`CoreInv` is `LinksInv` and `Recosted`.  `LinksInv` has `Drawn` (the running
faults are of the lab's pools, finite, no more than the bound) and `Disturbing`:
what is down or dead is held by a fault that runs; `Recosted` says the same of
costs and is the only part that needs the two cost constants.  `CoreRestored`
alone is not inductive, as it says nothing while a fault runs.  A revert of
`path_asymmetry` keeps it only if the interface the scenario chooses is
inter-POP exactly when the guessed cost is 100: that an ABR has an inter-POP
link and another P has none, and that the first and last interface of a list
belong to the router, are lemmas about the generator's loops.  The overlap
conjunct rests on `SinglesApart`: single interfaces of two different drawn
faults are different, as the lock keys of one router's faults name them and two
routers' interfaces are.

`OneFaultSurvived` and `FaultsHit` need `LinksInv` only, so they hold whatever the
OSPF costs are.  `LinksInv` bounds what is down under one fault: the interfaces of
one router, one link, or the links of one conduit (`CampaignCuts`).  Reachability
is a least set that no link leaves (`SpreadIs`), so two routers reach each other
when every set that no working link leaves holds both or neither (`Tied`); being
tied is transitive, and induction over the recursion is not needed.  Then:

* every P that did not fail is still tied to a border of its POP, in the POP's
  area, and every PE by one of its two uplinks to such a P (`HomesKept`);
* the ring of POPs in the lane of the first borders, or the one of the second,
  misses at most one edge, and a ring less an edge is still one piece
  (`RingTied`); borders of one POP are tied within the area (`SidesTied`), and
  together every border in service is tied to every other (`RingHolds`);
* so area, backbone, area leads anywhere (`AllReach`), all sessions of living PEs
  are up, and of two reflectors one is left (`AllLearn`).

For the regions, a set of POPs all of whose lanes to the others are down is
closed (`CutOff`); that it is one piece follows for one POP from its mesh, and for
the halves of `core_partition` because each is an arc of the ring (`HalfIsArc`), on
which both lanes are whole.

`Redundant` is what "redundant POP mesh + PE dual-homing" (`orchestrator.py:445`)
takes for granted of the knobs.  Each part of it is needed, as TLC shows on such
labs: with one lane per adjacency, with single-homed PEs, or with three routers
in a POP (one PE-facing), `p_node_failure` cuts routers off; with two POPs
`srlg_cut` does; with one reflector `rr_failure` leaves the other PEs without
routes.  The lab of `topology-spec.yaml` has all of it.  `Served` is needed for
`mpls_underlay_failure`, whose link is a PE's only if its router has a PE.

`OneLab` needs that the numberings are one to one: ranks of links (`CoreRanks`),
the linear index of a site (`LinInjective`), the octets of an address by block
(`EdgeApart`, `CoreApart`, `BlocksApart`), that counted blocks are as long as
what they count (`NodesCounted`, `CountersFit`), that sorting the names moves
every POP but the first from ten on and none below (`SortedPlace`), and that the
n-th site in the generator's order is number n - 1 (`OrderIsLin`).  Then the
replay's loops produce the same rounds as the generator's, each with the same
two ends (`EndsReplayed`), so every node's interfaces have the same neighbours
in the same order.

`WindowInv` adds to the bridge's invariant how far apart rows of one series can
be out of order as long as nothing was sent twice (`Bucketed`), that a buffer
holds rows of its own series in their order (`Held`), that a drain that reached
the ends holds what each partition of `noc.faults` held up to them (`Drained`),
and that every window built on one has the labels of the faults that ran at the
beginning of its last bucket (`LabelledBy`); partitions only grow
(`FaultsOnlyGrow`).  A window of one row, or of more than two, begins no later
than it ends.

`DataInv` is one invariant for the four properties of the dataset: entries and
dictionaries pair up by what they are of (`Paired`); the mask of a kind covers
the windows of its episodes (`Marked`), so that the mask's test keeps
episodes of one kind on one device disjoint (`Apart`) and near misses off all of
them (`Cleared` once the slice is done, until then the flags may be stale);
a counter keeps what it has counted and counts nothing in an outage
(`Counting`); and a cascade is a tree that grows (`Trees`), also while it is
under way, when the count of its devices is still to be written (`UnderWay`).

`TablesFollow` adds what no invariant of the state can say: what three folds over a
sorted set of windows compute.  The order that sorting chooses exists, since an
interval's place is the number of those not later (`SortedExists`, `InOrderIs`); a
fold is a sequence of states, each by one element from the one before
(`FoldExists`); and a statement about the state after k elements, carried from k to
k + 1, holds at the end (`Upto`):

* the intervals of an edge so far are in order, apart, end before the cut and hold
  an instant before it exactly when no outage so far covers it (`CutSoFar`, for
  an outage that begins after the cut or within it: `CutOver`, `CutWithin`);
* the reroute windows merged so far are apart, within the bounds of the capture, and
  cover what the windows so far do; the last begins where one of them did, which
  is why a window that begins later joins it or follows it (`JoinSoFar`);
* the legs of a path so far follow on each other from the start of the capture
  without a gap, and are off the preferred hub inside the windows so far and
  nowhere else (`DetourSoFar`).  This needs an alternate hub: `TwoHubs`, which
  every row of `topologies.py:215-228` and `topology-spec.yaml:26` have, and
  `MCDataset` assumes.

`Shown` is inductive beside `DataInv` and ties the outages to the interface rows: a
bucket in an outage of the ledger is down in the rows of its device, and a row that
is down has such an outage or a near miss that flapped it (`Explained`).

`CallsSoFar` is about an injector alone on its resources, in the middle of a call,
and compares the lab with what it was when the call began (`before`): `apply()`, but
for a flap, has mended nothing and `revert()` has impaired nothing, whatever commands
failed (`CallSoFar`); and as long as no command of the injector failed, each that was
passed shows (`ShownSoFar`).  That a command shows rests on `IInv`: splice and
unsplice find the HTB root, since only a blind injector loses it, and a `tc` command
for a core interface is on an uplink only if the injector is blind.  A session reset
is on a daemon nobody kills, by `Owed`; so watchfrr does not disturb it.

Where a proof needs induction over positions or buckets (a counter's carry, a
consumer's view, the first row that breaks an order) it takes the least
counterexample, which exists because the naturals are well founded (`NatMin`, from
`WFMin`), and refutes it; that a recursive function satisfies its equation is shown
the same way, by building its graph up to each argument.

Left to the proofs, and listed by no run: the type invariants, `KeysAreHeld`,
`RegistryExclusive`, `FinallyReverts`, `UpdateSeesNoneExpired`, `FiredStaysFired`
and `AcceptedRoundIsClean`.

Only model-checked:

* Liveness, under fairness: out of the prover's reach.  For the forensic pipeline
  it is `AlertsBecomeCases`, which excepts the two states a crash can leave that
  the code does not recover from: a torn cursor file and a torn chat.

So every invariant and every action property that a run checks is a theorem too.

## 6. Not modelled

* The telemetry model's arithmetic (queueing, AR(1) jitter, smoothing): its
  values are arbitrary inputs of path selection.  The curves of signatures, lead
  priors, ramps and severities are numbers no decision depends on.
* The PA alert service: one sequential tick over a numeric baseline.
* Retrieval, skills, prompts, the workspace executor and the HTTP clients of the
  copilot: text and I/O; what the loop sees of them is an outcome of `Dispatch`.
* The rendering of router, containerlab and WireGuard files by the generator.
* The traffic generator and telemetry sidecars, the Grafana plugin, command
  lines, dry runs, packaging and start scripts.
* The metric and topology views of the copilot's consumer, and the read-only
  queries of the data API.
