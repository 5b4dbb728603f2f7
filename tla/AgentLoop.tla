------------------------------ MODULE AgentLoop ------------------------------
(* The copilot's investigation loop and the gate an answer has to pass     *)
(* (agent/loop.py, agent/gate.py), over the tools it may call              *)
(* (tools/registry.py), and the fan-out that investigates several          *)
(* concurrent faults one after the other and merges their findings in a    *)
(* master chat (forensic/synthesis.py).                                    *)
(*                                                                         *)
(* The model replies whatever it likes: any batch of calls, any draft.  A  *)
(* draft is the set of ids it cites, and whether every sentence that names *)
(* a device carries one.  Evidence is the set of items gathered, and how   *)
(* many the code's list holds: a row read twice counts twice.              *)
EXTENDS Naturals, FiniteSets, Sequences

CONSTANTS
  Faults,      \* how many concurrent faults, each with its investigation
  World,       \* the rows of the window in their order: each one's device
  Devices,     \* devices are 1..Devices
  FocusOf,     \* fault -> the devices its question names
  StepCap, CallCap, MinEvidence, MaxRetries,        \* config.py
  PageSize,    \* bound: rows in one page
  Batches,     \* bound: the batches of calls in one reply
  CiteSets     \* bound: the sets of ids a draft cites

ASSUME AgentAssumption ==
  /\ {Faults, StepCap, CallCap, MinEvidence} \subseteq Nat \ {0}
  /\ {MaxRetries, PageSize, Devices} \subseteq Nat
  /\ World \in Seq(1..Devices)
  /\ FocusOf \in [1..Faults -> SUBSET (1..Devices)]

VARIABLES
  abstain,     \* the prediction record abstains: sufficiency is waived
  run,         \* the fault investigated; Faults + 1 is the master chat
  phase,       \* "turn", "calls", "judge", "over"
  step, productive, dispatched, retries,            \* the loop's counters
  todo,        \* calls of the last reply still to be dispatched
  open,        \* calls of the last reply that have no tool message yet
  evidence, items, failed,
  draft,       \* the answer before the judge
  verdict,     \* how each run ended
  answer,      \* the ids the answer of each run cites
  inherited,   \* the cites runs handed to the master: <<run, item>>
  total        \* how many there are in the code's lists

counters == <<step, productive, dispatched, retries>>
gathered == <<evidence, items, failed>>
outcomes == <<verdict, answer, inherited, total>>
vars == <<abstain, run, phase, counters, todo, open, gathered, draft, outcomes>>

-----------------------------------------------------------------------------
(* Tools.                                                                  *)

Device == 1..Devices
Any == 0                       \* a read narrowed by a pattern, not a device
Id == {"metrics", "topo"} \X Nat
Item == [id : Id, row : Nat, dev : Device]

Call == [kind : {"read"}, dev : Device \cup {Any}, off : {0, 1}]
          \cup [kind : {"walk"}, dev : Device, off : {0}]
          \cup [kind : {"act"}, dev : {Any}, off : {0}]

(* A reply without a call is a draft.                                      *)
ASSUME RepliesAssumption ==
  Batches \subseteq Seq(Call) \ {<<>>} /\ CiteSets \subseteq SUBSET Id

Selects(c, r) == c.dev = Any \/ World[r] = c.dev

(* How many of the rows a call selects come before r.                      *)
Rank(c, r) == Cardinality({q \in 1..(r - 1) : Selects(c, q)})

(* One page of a windowed read.  An item's id is the source and the row's  *)
(* index among those this call selected.                                   *)
Page(c) ==
  {[id |-> <<"metrics", Rank(c, r)>>, row |-> r, dev |-> World[r]] :
     r \in {r \in 1..Len(World) : /\ Selects(c, r)
                                  /\ Rank(c, r) \in c.off..(c.off + PageSize - 1)}}

(* A walk answers with a node's status; its id is the node.                *)
Walk(c) == {[id |-> <<"topo", c.dev>>, row |-> 0, dev |-> c.dev]}

Rows(c) == CASE c.kind = "read" -> Page(c)
             [] c.kind = "walk" -> Walk(c)
             [] OTHER -> {}

Windowed(i) == i.id[1] = "metrics"

-----------------------------------------------------------------------------
(* The gate (gate.py).                                                     *)

Ids(ev) == {i.id : i \in ev}

OnTopic(ev, focus) ==
  \A i \in ev : Windowed(i) /\ focus # {} => i.dev \in focus

Supported(ev, focus) == focus \subseteq {i.dev : i \in ev}

(* Mutant: abstaining waives the whole pre-gate.                           *)
PreGateWaived(ev, n, focus, soft) ==
  soft \/ (OnTopic(ev, focus) /\ n >= MinEvidence /\ Supported(ev, focus))

(* Abstaining waives that there is enough, not that it is on topic.        *)
PreGate(ev, n, focus, soft) ==
  /\ OnTopic(ev, focus)
  /\ soft \/ (n >= MinEvidence /\ Supported(ev, focus))

CitationCheck(d, ids) == d.anchored /\ d.cites # {} /\ d.cites \subseteq ids

RunGate(d) ==
  /\ ~failed
  /\ PreGate(evidence, items, FocusOf[run], abstain)
  /\ CitationCheck(d, Ids(evidence))

-----------------------------------------------------------------------------
Draft == [cites : CiteSets, anchored : BOOLEAN]
NoDraft == [cites |-> {}, anchored |-> FALSE]

Init ==
  /\ abstain \in BOOLEAN
  /\ run = 1 /\ phase = "turn"
  /\ step = 0 /\ productive = 0 /\ dispatched = 0 /\ retries = 0
  /\ todo = <<>> /\ open = 0
  /\ evidence = {} /\ items = 0 /\ failed = FALSE
  /\ draft = NoDraft
  /\ verdict = [r \in 1..(Faults + 1) |-> "none"]
  /\ answer = [r \in 1..Faults |-> {}]
  /\ inherited = {} /\ total = 0

(* investigate returns.  The next run starts from nothing of this one; one *)
(* fault alone has no master chat.                                         *)
Leave(why) ==
  /\ verdict' = [verdict EXCEPT ![run] = why]
  /\ run' = run + 1
  /\ phase' = IF Faults = 1 THEN "over" ELSE "turn"
  /\ step' = 0 /\ productive' = 0 /\ dispatched' = 0 /\ retries' = 0
  /\ todo' = <<>> /\ open' = 0
  /\ evidence' = {} /\ items' = 0 /\ failed' = FALSE
  /\ draft' = NoDraft
  /\ UNCHANGED abstain

(* Mutant: a stopped run hands over what it gathered.                      *)
StopWithCites(why) ==
  /\ Leave(why)
  /\ inherited' = inherited \cup ({run} \X evidence)
  /\ total' = total + items
  /\ UNCHANGED answer

(* An outcome that is no accepted answer carries no cites.                 *)
Stop(why) == Leave(why) /\ UNCHANGED <<answer, inherited, total>>

Accept ==
  /\ Leave("answered")
  /\ answer' = [answer EXCEPT ![run] = draft.cites]
  /\ inherited' = inherited \cup ({run} \X evidence)
  /\ total' = total + items

NextTurn == phase' = "turn" /\ step' = step + 1 /\ draft' = NoDraft

(* Mutant: a retry is a fresh start, and is not counted.                   *)
BlockAfresh ==
  IF retries < MaxRetries
  THEN /\ phase' = "turn" /\ step' = 0 /\ draft' = NoDraft /\ failed' = FALSE
       /\ UNCHANGED <<abstain, run, productive, dispatched, retries, todo, open,
                      evidence, items, outcomes>>
  ELSE Stop("blocked")

(* The gate says no: another round, that keeps the evidence and forgets    *)
(* the errors; or, with no retry left, what is missing is the answer.      *)
Block ==
  IF retries < MaxRetries
  THEN /\ NextTurn
       /\ retries' = retries + 1
       /\ failed' = FALSE
       /\ UNCHANGED <<abstain, run, productive, dispatched, todo, open, evidence,
                      items, outcomes>>
  ELSE Stop("blocked")

-----------------------------------------------------------------------------
(* The loop.  Each turn begins with a chat, which may raise.               *)

Investigating == run <= Faults
Turning == Investigating /\ phase = "turn" /\ step < StepCap

(* A question before any evidence goes to the human, past the gate.        *)
AskBack == Turning /\ evidence = {} /\ Stop("asked")

(* A draft: what survives the gate goes before the judge.                  *)
ReplyDraft(d) ==
  /\ Turning
  /\ IF RunGate(d)
     THEN /\ phase' = "judge" /\ draft' = d
          /\ UNCHANGED <<abstain, run, counters, todo, open, gathered, outcomes>>
     ELSE Block

(* A verdict that is junk passes.  An abstaining record drops "not enough" *)
(* but not a contradiction.                                                *)
Judge(says) ==
  /\ Investigating /\ phase = "judge"
  /\ IF says = "pass" \/ (says = "missing" /\ abstain) THEN Accept ELSE Block

ReplyCalls(batch) ==
  /\ Turning
  /\ phase' = "calls" /\ todo' = batch /\ open' = Len(batch)
  /\ UNCHANGED <<abstain, run, counters, gathered, draft, outcomes>>

BudgetSpent == productive >= CallCap \/ dispatched >= StepCap * CallCap

(* Mutant: the cap leaves the batch and goes on with the next turn.        *)
CapBreaks ==
  /\ Investigating /\ phase = "calls" /\ BudgetSpent
  /\ NextTurn
  /\ todo' = <<>>
  /\ UNCHANGED <<abstain, run, productive, dispatched, retries, open, gathered,
                 outcomes>>

CapReturns ==
  /\ Investigating /\ phase = "calls" /\ BudgetSpent
  /\ Stop("tool_call_cap")

(* What a call is charged for: rows it found, or, of load_skill, bash and  *)
(* present, a skill, a run or an artifact rather than an error.            *)
Gathers(c, got, fails) == got # {} \/ (c.kind = "act" /\ ~fails)

(* One call of the batch.  Only a call that gathered something costs the   *)
(* budget, and only a failed read is held against the answer.              *)
Dispatch(fails) ==
  LET c == Head(todo)
      got == IF fails THEN {} ELSE Rows(c) IN
  /\ Investigating /\ phase = "calls" /\ ~BudgetSpent
  /\ dispatched' = dispatched + 1
  /\ productive' = IF Gathers(c, got, fails) THEN productive + 1 ELSE productive
  /\ evidence' = evidence \cup got
  /\ items' = items + Cardinality(got)
  /\ failed' = (failed \/ (fails /\ c.kind # "act"))
  /\ todo' = Tail(todo)
  /\ open' = open - 1
  /\ IF Len(todo) = 1 THEN NextTurn ELSE UNCHANGED <<phase, step, draft>>
  /\ UNCHANGED <<abstain, run, retries, outcomes>>

StepsSpent ==
  /\ Investigating /\ phase = "turn" /\ step = StepCap
  /\ Stop("step_cap")

-----------------------------------------------------------------------------
(* The master chat: one draft, over the cites it inherits.                 *)

(* Mutant: cites keep the id they had in their chat.                       *)
AttributedBare(r, id) == <<0, id>>

Attributed(r, id) == <<r, id>>

MasterIds == {Attributed(c[1], c[2].id) : c \in inherited}

(* Its question names every device of the cites, so all are on topic.      *)
Synthesise(cites, anchored) ==
  /\ run = Faults + 1 /\ phase = "turn"
  /\ phase' = "over"
  /\ LET d == [cites |-> cites, anchored |-> anchored] IN
     verdict' = [verdict EXCEPT ![run] =
        IF total >= MinEvidence /\ CitationCheck(d, MasterIds)
        THEN "answered" ELSE "blocked"]
  /\ draft' = [cites |-> cites, anchored |-> anchored]
  /\ UNCHANGED <<abstain, run, counters, todo, open, gathered, answer, inherited,
                 total>>

(* A chat with the model's endpoint raises, and with it the whole fan-out. *)
ChatRaises ==
  /\ \/ Turning
     \/ phase = "judge"
     \/ run = Faults + 1 /\ phase = "turn"
  /\ phase' = "over"
  /\ verdict' = [verdict EXCEPT ![run] = "raised"]
  /\ UNCHANGED <<abstain, run, counters, todo, open, gathered, draft, answer,
                 inherited, total>>

(* The ids a synthesis may cite: those of its brief, bare or attributed to *)
(* a chat.                                                                 *)
MasterCites == {{}} \cup {{<<r, id>>} : r \in 0..Faults, id \in UNION CiteSets}
                 \cup {MasterIds}

Next ==
  \/ AskBack \/ CapReturns \/ StepsSpent \/ ChatRaises
  \/ \E d \in Draft : ReplyDraft(d)
  \/ \E says \in {"pass", "missing", "contradiction"} : Judge(says)
  \/ \E batch \in Batches : ReplyCalls(batch)
  \/ \E fails \in BOOLEAN : Dispatch(fails)
  \/ \E cites \in MasterCites, anchored \in BOOLEAN : Synthesise(cites, anchored)

(* One thread runs it all: chats and tool calls have timeouts.             *)
Spec == Init /\ [][Next]_vars
FairSpec == Spec /\ WF_vars(Next)

-----------------------------------------------------------------------------
(* Properties.                                                             *)

Ending == {"none", "asked", "answered", "blocked", "step_cap", "tool_call_cap",
           "raised"}

(* Types, and the caps: no counter passes the cap it is held to.           *)
TypeOK ==
  /\ abstain \in BOOLEAN
  /\ run \in 1..(Faults + 1)
  /\ phase \in {"turn", "calls", "judge", "over"}
  /\ step \in 0..StepCap
  /\ productive \in 0..CallCap
  /\ dispatched \in 0..(StepCap * CallCap)
  /\ retries \in 0..MaxRetries
  /\ todo \in Seq(Call)
  /\ open \in Nat
  /\ evidence \in SUBSET Item
  /\ items \in Nat
  /\ failed \in BOOLEAN
  /\ verdict \in [1..(Faults + 1) -> Ending]
  /\ answer \in [1..Faults -> SUBSET Id]
  /\ inherited \in SUBSET ((1..Faults) \X Item)
  /\ total \in Nat

(* The model's endpoint is never shown a transcript with a call that has   *)
(* no tool message: such a request is refused (loop.py:361-366).           *)
ChatsSeeMatchedCalls == phase \in {"turn", "judge"} => open = 0

(* The evidence an accepted answer hands over is on topic to the last item *)
(* and holds every id it cites; unless the record abstained, every device  *)
(* of the question is supported.                                           *)
AnswersAreGrounded ==
  \A r \in 1..Faults : verdict[r] = "answered" =>
    LET ev == {c[2] : c \in {c \in inherited : c[1] = r}} IN
    /\ answer[r] # {} /\ answer[r] \subseteq Ids(ev)
    /\ OnTopic(ev, FocusOf[r])
    /\ abstain \/ Supported(ev, FocusOf[r])

(* A run hands over evidence only with an accepted answer.                 *)
OnlyAnswersAreInherited ==
  \A c \in inherited : verdict[c[1]] = "answered"

(* An accepted synthesis cites only what runs with an accepted answer      *)
(* gathered, and each of its ids tells which of the runs that was.         *)
SynthesisIsTraceable ==
  /\ OnlyAnswersAreInherited
  /\ verdict[Faults + 1] = "answered" =>
       /\ draft.cites # {}
       /\ \A id \in draft.cites : \E r \in 1..Faults :
            /\ verdict[r] = "answered"
            /\ {c[1] : c \in {c \in inherited : Attributed(c[1], c[2].id) = id}}
                 = {r}

(* Nothing is accepted out of a round with a failed call, or with a call   *)
(* still unanswered, whatever the judge made of it.                        *)
AcceptedRoundIsClean ==
  [][verdict'[run] = "answered" /\ run <= Faults => ~failed /\ open = 0]_vars

(* The loop ends, and the fan-out with it: whatever the model replies, one *)
(* of the caps is met.                                                     *)
RunsEnd == <>(phase = "over")
=============================================================================
