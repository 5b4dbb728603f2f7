---------------------------- MODULE AgentLoopProofs ----------------------------
(***************************************************************************)
(* Proofs about AgentLoop, for any faults, window, budgets, replies of the *)
(* model and outcomes of its tools.                                        *)
(***************************************************************************)
EXTENDS AgentLoop, FiniteSetTheorems, TLAPS

(* Outside a batch nothing waits for a tool message; inside one the calls  *)
(* still to be dispatched are those without.                               *)
Matched ==
  /\ phase = "calls" => todo # <<>> /\ open = Len(todo)
  /\ phase # "calls" => todo = <<>> /\ open = 0

(* A batch or a draft belongs to an investigation with a turn left.        *)
Running == phase \in {"calls", "judge"} => run <= Faults /\ step < StepCap

(* Nothing changes what the gate looked at before the judge has spoken.    *)
Judged == phase = "judge" => draft \in Draft /\ RunGate(draft)

(* A run has no verdict before it ends.                                    *)
Pending == phase # "over" => \A r \in run..(Faults + 1) : verdict[r] = "none"

(* Cites are handed over by runs that have ended.                          *)
Fresh == \A c \in inherited : c[1] < run

Control == Matched /\ Running /\ Judged /\ Pending /\ Fresh

Content == AnswersAreGrounded /\ SynthesisIsTraceable

IInv == TypeOK /\ Control /\ Content

-----------------------------------------------------------------------------
(* Tools and their rows.                                                   *)

LEMMA CapType == StepCap * CallCap \in Nat
BY AgentAssumption

LEMMA RankType ==
  ASSUME NEW c, NEW r \in Nat
  PROVE  Rank(c, r) \in Nat
<1> DEFINE below == 1..(r - 1)
           before == {q \in below : Selects(c, q)}
<1>1. IsFiniteSet(below)
  BY FS_Interval
<1>2. before \in SUBSET below
  OBVIOUS
<1> HIDE DEF below, before
<1>3. Cardinality(before) \in Nat
  BY <1>1, <1>2, FS_Subset, FS_CardinalityType
<1> QED
  BY <1>3 DEF Rank, before, below

LEMMA PageType == ASSUME NEW c PROVE Page(c) \in SUBSET Item
<1> SUFFICES ASSUME NEW r \in 1..Len(World)
             PROVE  [id |-> <<"metrics", Rank(c, r)>>, row |-> r,
                     dev |-> World[r]] \in Item
  BY DEF Page
<1>1. World \in Seq(Device) /\ r \in Nat
  BY AgentAssumption DEF Device
<1>2. World[r] \in Device
  BY <1>1
<1>3. <<"metrics", Rank(c, r)>> \in Id
  BY <1>1, RankType DEF Id
<1> QED
  BY <1>1, <1>2, <1>3 DEF Item

LEMMA RowsType == ASSUME NEW c \in Call PROVE Rows(c) \in SUBSET Item
<1>1. CASE c.kind = "read"
  BY <1>1, PageType DEF Rows
<1>2. CASE c.kind = "walk"
  <2>1. c.dev \in Device
    BY <1>2 DEF Call
  <2>2. Device \subseteq Nat
    BY AgentAssumption DEF Device
  <2>3. <<"topo", c.dev>> \in Id
    BY <2>1, <2>2 DEF Id
  <2>4. Walk(c) \in SUBSET Item
    BY <2>1, <2>3 DEF Walk, Item
  <2> QED
    BY <1>2, <2>4 DEF Rows
<1>3. CASE c.kind \notin {"read", "walk"}
  BY <1>3 DEF Rows
<1> QED
  BY <1>1, <1>2, <1>3

(* A page is finite: it is the image of row numbers of the window.         *)
LEMMA PageFinite == ASSUME NEW c PROVE IsFiniteSet(Page(c))
<1> DEFINE Hit(r) == Selects(c, r) /\ Rank(c, r) \in c.off..(c.off + PageSize - 1)
           Mk(r) == [id |-> <<"metrics", Rank(c, r)>>, row |-> r, dev |-> World[r]]
           all == 1..Len(World)
           hits == {r \in all : Hit(r)}
           f == [r \in hits |-> Mk(r)]
<1>1. Len(World) \in Nat
  BY AgentAssumption
<1>2. IsFiniteSet(all)
  BY <1>1, FS_Interval
<1>3. hits \in SUBSET all
  OBVIOUS
<1>4. Page(c) = {f[r] : r \in hits}
  BY DEF Page
<1> HIDE DEF all, hits
<1>5. IsFiniteSet(hits)
  BY <1>2, <1>3, FS_Subset
<1>6. f \in [hits -> Page(c)] /\ \A i \in Page(c) : \E r \in hits : f[r] = i
  BY <1>4
<1>7. f \in Surjection(hits, Page(c))
  <2> HIDE DEF f
  <2> QED BY <1>6 DEF Surjection
<1> QED
  BY <1>5, <1>7, FS_Surjection

LEMMA RowsFinite == ASSUME NEW c PROVE Cardinality(Rows(c)) \in Nat
<1>1. CASE c.kind = "read"
  BY <1>1, PageFinite, FS_CardinalityType DEF Rows
<1>2. CASE c.kind = "walk"
  <2>1. Rows(c) = {[id |-> <<"topo", c.dev>>, row |-> 0, dev |-> c.dev]}
    BY <1>2 DEF Rows, Walk
  <2>2. Cardinality(Rows(c)) = 1
    BY <2>1, FS_Singleton, Zenon
  <2> QED
    BY <2>2
<1>3. CASE c.kind \notin {"read", "walk"}
  BY <1>3, FS_EmptySet DEF Rows
<1> QED
  BY <1>1, <1>2, <1>3

-----------------------------------------------------------------------------
(* The ways a run ends.                                                    *)

LEMMA InitInv == Init => IInv
<1> SUFFICES ASSUME Init PROVE IInv
  OBVIOUS
<1> USE DEF Init
<1>1. TypeOK
  <2>1. {Faults, StepCap, CallCap} \subseteq Nat \ {0} /\ MaxRetries \in Nat
    BY AgentAssumption
  <2>2. StepCap * CallCap \in Nat
    BY CapType
  <2>3. <<>> \in Seq(Call)
    OBVIOUS
  <2> HIDE DEF Init
  <2>4. run \in 1..(Faults + 1) /\ step \in 0..StepCap /\ productive \in 0..CallCap
        /\ dispatched \in 0..(StepCap * CallCap) /\ retries \in 0..MaxRetries
    BY <2>1, <2>2 DEF Init
  <2>5. verdict \in [1..(Faults + 1) -> Ending]
    BY DEF Init, Ending
  <2> QED
    BY <2>3, <2>4, <2>5 DEF Init, TypeOK
<1>2. Control
  BY AgentAssumption DEF Control, Matched, Running, Judged, Pending, Fresh
<1>3. Content
  BY AgentAssumption
  DEF Content, AnswersAreGrounded, SynthesisIsTraceable, OnlyAnswersAreInherited
<1> QED
  BY <1>1, <1>2, <1>3 DEF IInv

(* Whatever the reason, a run that ends leaves a clean place to the next.  *)
LEMMA LeaveControl ==
  ASSUME IInv, Investigating, phase # "over", NEW why \in Ending, Leave(why),
         inherited' \in SUBSET ((1..Faults) \X Item), total' \in Nat,
         answer' \in [1..Faults -> SUBSET Id],
         \A c \in inherited' : c \in inherited \/ c[1] = run
  PROVE  TypeOK' /\ Control'
<1>1. /\ run \in 1..Faults /\ run' = run + 1 /\ run' \in 1..(Faults + 1)
      /\ Faults \in Nat
  BY SMTT(20), AgentAssumption DEF IInv, TypeOK, Investigating, Leave
<1>2. verdict' \in [1..(Faults + 1) -> Ending]
  BY <1>1 DEF IInv, TypeOK, Leave
<1>3. TypeOK'
  <2>1. /\ 0 \in 0..StepCap /\ 0 \in 0..CallCap /\ 0 \in 0..MaxRetries
        /\ 0 \in 0..(StepCap * CallCap)
    BY AgentAssumption, CapType
  <2>2. phase' \in {"turn", "calls", "judge", "over"} /\ abstain' \in BOOLEAN
    BY DEF Leave, IInv, TypeOK
  <2>3. todo' \in Seq(Call) /\ evidence' \in SUBSET Item
    BY DEF Leave
  <2> QED
    BY <1>1, <1>2, <2>1, <2>2, <2>3 DEF TypeOK, Leave
<1>4. phase' \in {"turn", "over"} /\ todo' = <<>> /\ open' = 0
  BY DEF Leave
<1>5. Pending'
  <2> SUFFICES ASSUME NEW r \in run'..(Faults + 1)
               PROVE  verdict'[r] = "none"
    BY DEF Pending
  <2>1. r \in run..(Faults + 1) /\ r # run
    BY <1>1
  <2>2. verdict[r] = "none"
    BY <2>1 DEF IInv, Control, Pending
  <2>3. r \in 1..(Faults + 1)
    BY <1>1
  <2> QED
    BY <1>1, <2>1, <2>2, <2>3 DEF Leave, IInv, TypeOK
<1>6. Fresh'
  <2> SUFFICES ASSUME NEW c \in inherited' PROVE c[1] < run'
    BY DEF Fresh
  <2>1. c[1] \in 1..Faults
    OBVIOUS
  <2>2. CASE c \in inherited
    BY <1>1, <2>1, <2>2 DEF IInv, Control, Fresh
  <2>3. CASE c[1] = run
    BY <1>1, <2>3
  <2> QED
    BY <2>2, <2>3
<1> QED
  BY <1>3, <1>4, <1>5, <1>6 DEF Control, Matched, Running, Judged

(* The synthesis is still to come when a run ends.                         *)
LEMMA LeaveSynthesis ==
  ASSUME IInv, Investigating, phase # "over", NEW why, Leave(why)
  PROVE  verdict'[Faults + 1] = "none"
<1>1. Faults + 1 \in run..(Faults + 1) /\ Faults + 1 # run
  BY SMTT(20), AgentAssumption DEF IInv, TypeOK, Investigating
<1>2. verdict[Faults + 1] = "none"
  BY <1>1 DEF IInv, Control, Pending
<1> QED
  BY <1>1, <1>2, AgentAssumption DEF Leave, IInv, TypeOK

(* Without an answer nothing is handed over and nothing new is claimed.    *)
LEMMA StopInv ==
  ASSUME IInv, Investigating, phase # "over", NEW why \in Ending \ {"answered"},
         Stop(why)
  PROVE  IInv'
<1>1. Leave(why) /\ UNCHANGED <<answer, inherited, total>>
  BY DEF Stop
<1>2. TypeOK' /\ Control'
  BY <1>1, LeaveControl DEF IInv, TypeOK
<1>3. /\ run \in 1..Faults /\ abstain' = abstain
      /\ \A r \in 1..(Faults + 1) : r # run => verdict'[r] = verdict[r]
      /\ verdict'[run] # "answered"
  BY <1>1, AgentAssumption DEF IInv, TypeOK, Investigating, Leave, Ending
<1>4. AnswersAreGrounded'
  <2> SUFFICES ASSUME NEW r \in 1..Faults, verdict'[r] = "answered"
               PROVE  LET ev == {c[2] : c \in {c \in inherited' : c[1] = r}} IN
                      /\ answer'[r] # {} /\ answer'[r] \subseteq Ids(ev)
                      /\ OnTopic(ev, FocusOf[r])
                      /\ abstain' \/ Supported(ev, FocusOf[r])
    BY DEF AnswersAreGrounded
  <2>1. r \in 1..(Faults + 1) /\ r # run
    BY <1>3, AgentAssumption
  <2>2. verdict[r] = "answered"
    BY <1>3, <2>1
  <2> QED
    BY <1>1, <1>3, <2>2 DEF IInv, Content, AnswersAreGrounded
<1>5. OnlyAnswersAreInherited'
  <2> SUFFICES ASSUME NEW c \in inherited PROVE verdict'[c[1]] = "answered"
    BY <1>1 DEF OnlyAnswersAreInherited
  <2>1. verdict[c[1]] = "answered" /\ c[1] < run /\ c[1] \in 1..Faults
    BY DEF IInv, TypeOK, Control, Fresh, Content, SynthesisIsTraceable,
           OnlyAnswersAreInherited
  <2>2. c[1] \in 1..(Faults + 1) /\ c[1] # run
    BY <1>3, <2>1, AgentAssumption
  <2> QED
    BY <1>3, <2>1, <2>2
<1>6. SynthesisIsTraceable'
  BY <1>1, <1>5, LeaveSynthesis DEF SynthesisIsTraceable
<1> QED
  BY <1>2, <1>4, <1>6 DEF IInv, Content

(* The cites of a run are what it hands over now, and no other run's.      *)
LEMMA HandedOver ==
  ASSUME IInv, inherited' = inherited \cup ({run} \X evidence), NEW r \in 1..Faults
  PROVE  {c[2] : c \in {c \in inherited' : c[1] = r}} =
           IF r = run THEN evidence
           ELSE {c[2] : c \in {c \in inherited : c[1] = r}}
<1>1. \A c \in inherited : c[1] # run
  BY DEF IInv, TypeOK, Control, Fresh
<1>2. CASE r = run
  <2>1. {c \in inherited' : c[1] = r} = {run} \X evidence
    BY <1>1, <1>2
  <2>2. {c[2] : c \in {run} \X evidence} = evidence
    <3>1. \A e \in evidence : <<run, e>> \in {run} \X evidence /\ <<run, e>>[2] = e
      OBVIOUS
    <3>2. \A c \in {run} \X evidence : c[2] \in evidence
      OBVIOUS
    <3> QED
      BY <3>1, <3>2
  <2> QED
    BY <1>2, <2>1, <2>2
<1>3. CASE r # run
  <2>1. {c \in inherited' : c[1] = r} = {c \in inherited : c[1] = r}
    BY <1>3
  <2> QED
    BY <1>3, <2>1
<1> QED
  BY <1>2, <1>3

(* An accepted draft has been through both halves of the gate.             *)
LEMMA AcceptInv ==
  ASSUME IInv, Investigating, phase = "judge", Accept
  PROVE  IInv'
<1>1. /\ Leave("answered")
      /\ answer' = [answer EXCEPT ![run] = draft.cites]
      /\ inherited' = inherited \cup ({run} \X evidence)
      /\ total' = total + items
  BY DEF Accept
<1>2. /\ run \in 1..Faults /\ abstain' = abstain
      /\ \A r \in 1..(Faults + 1) : r # run => verdict'[r] = verdict[r]
      /\ verdict'[run] = "answered"
  BY <1>1, AgentAssumption DEF IInv, TypeOK, Investigating, Leave
<1>3. TypeOK' /\ Control'
  <2>1. inherited' \in SUBSET ((1..Faults) \X Item)
    BY <1>1, <1>2 DEF IInv, TypeOK
  <2>2. total' \in Nat
    BY <1>1 DEF IInv, TypeOK
  <2>3. \A c \in inherited' : c \in inherited \/ c[1] = run
    BY <1>1
  <2>4. "answered" \in Ending
    BY DEF Ending
  <2>5. answer' \in [1..Faults -> SUBSET Id]
    <3>1. draft.cites \in SUBSET Id
      BY RepliesAssumption DEF IInv, Control, Judged, Draft
    <3> QED
      BY <1>1, <3>1 DEF IInv, TypeOK
  <2> QED
    BY <1>1, <2>1, <2>2, <2>3, <2>4, <2>5, LeaveControl
<1>4. /\ draft.cites # {} /\ draft.cites \subseteq Ids(evidence)
      /\ OnTopic(evidence, FocusOf[run])
      /\ abstain \/ Supported(evidence, FocusOf[run])
  BY DEF IInv, Control, Judged, RunGate, PreGate, CitationCheck
<1>5. AnswersAreGrounded'
  <2> DEFINE Ev(r) == {c[2] : c \in {c \in inherited' : c[1] = r}}
  <2> SUFFICES ASSUME NEW r \in 1..Faults, verdict'[r] = "answered"
               PROVE  /\ answer'[r] # {} /\ answer'[r] \subseteq Ids(Ev(r))
                      /\ OnTopic(Ev(r), FocusOf[r])
                      /\ abstain' \/ Supported(Ev(r), FocusOf[r])
    BY DEF AnswersAreGrounded
  <2>1. CASE r = run
    <3>1. Ev(r) = evidence
      BY <1>1, <2>1, HandedOver
    <3>2. answer'[r] = draft.cites
      BY <1>1, <1>2, <2>1 DEF IInv, TypeOK
    <3> QED
      BY <1>2, <1>4, <2>1, <3>1, <3>2
  <2>2. CASE r # run
    <3>1. Ev(r) = {c[2] : c \in {c \in inherited : c[1] = r}}
      BY <1>1, <2>2, HandedOver
    <3>2. answer'[r] = answer[r] /\ verdict[r] = "answered"
      BY <1>1, <1>2, <2>2, AgentAssumption DEF IInv, TypeOK
    <3> HIDE DEF Ev
    <3> QED
      BY <1>2, <3>1, <3>2 DEF IInv, Content, AnswersAreGrounded
  <2> QED
    BY <2>1, <2>2
<1>6. OnlyAnswersAreInherited'
  <2> SUFFICES ASSUME NEW c \in inherited' PROVE verdict'[c[1]] = "answered"
    BY DEF OnlyAnswersAreInherited
  <2>1. CASE c \in inherited
    <3>1. verdict[c[1]] = "answered"
      BY <2>1 DEF IInv, Content, SynthesisIsTraceable, OnlyAnswersAreInherited
    <3>2. c[1] < run
      BY <2>1 DEF IInv, Control, Fresh
    <3>3. c[1] \in 1..Faults
      <4>1. inherited \in SUBSET ((1..Faults) \X Item)
        BY DEF IInv, TypeOK
      <4> QED
        BY <2>1, <4>1
    <3>4. c[1] \in 1..(Faults + 1) /\ c[1] # run
      <4>1. Faults \in Nat
        BY AgentAssumption
      <4> QED
        BY <1>2, <3>2, <3>3, <4>1
    <3> QED
      BY <1>2, <3>1, <3>4
  <2>2. CASE c \in {run} \X evidence
    BY <1>2, <2>2
  <2> QED
    BY <1>1, <2>1, <2>2
<1>7. SynthesisIsTraceable'
  BY <1>1, <1>6, LeaveSynthesis DEF SynthesisIsTraceable
<1> QED
  BY <1>3, <1>5, <1>7 DEF IInv, Content

-----------------------------------------------------------------------------
(* The steps of a run.                                                     *)

(* Where verdicts, answers and cites stay, what was said of them stays.    *)
LEMMA ContentStays ==
  ASSUME IInv, UNCHANGED <<abstain, outcomes>>,
         verdict[Faults + 1] # "answered" \/ draft' = draft
  PROVE  Content'
BY DEF IInv, Content, AnswersAreGrounded, SynthesisIsTraceable,
       OnlyAnswersAreInherited, MasterIds, outcomes

(* A run under way leaves no verdict behind it.                            *)
LEMMA StillPending ==
  ASSUME IInv, Investigating, phase # "over"
  PROVE  verdict[Faults + 1] = "none" /\ verdict[run] = "none"
<1>1. Faults + 1 \in run..(Faults + 1) /\ run \in run..(Faults + 1)
  BY AgentAssumption DEF IInv, TypeOK, Investigating
<1> QED
  BY <1>1 DEF IInv, Control, Pending

(* One more round, with the evidence and the budget of the rounds before.  *)
LEMMA BlockInv ==
  ASSUME IInv, Investigating, phase \in {"turn", "judge"}, step < StepCap, Block
  PROVE  IInv'
<1>1. CASE retries < MaxRetries
  <2>1. /\ NextTurn /\ retries' = retries + 1 /\ failed' = FALSE
        /\ UNCHANGED <<abstain, run, productive, dispatched, todo, open,
                        evidence, items, outcomes>>
    BY <1>1 DEF Block
  <2>2. step' \in 0..StepCap /\ retries' \in 0..MaxRetries
    BY <1>1, <2>1, AgentAssumption DEF IInv, TypeOK, NextTurn
  <2>3. TypeOK'
    BY <2>1, <2>2 DEF IInv, TypeOK, NextTurn, outcomes
  <2>4. Control'
    BY <2>1 DEF IInv, Control, Matched, Running, Judged, Pending, Fresh, NextTurn,
                outcomes
  <2>5. Content'
    BY <2>1, StillPending, ContentStays
  <2> QED
    BY <2>3, <2>4, <2>5 DEF IInv
<1>2. CASE ~(retries < MaxRetries)
  BY <1>2, StopInv DEF Block, Ending
<1> QED
  BY <1>1, <1>2

LEMMA AskBackInv == IInv /\ AskBack => IInv'
BY StopInv DEF AskBack, Turning, Ending

LEMMA StepsSpentInv == IInv /\ StepsSpent => IInv'
BY StopInv DEF StepsSpent, Ending

LEMMA CapReturnsInv == IInv /\ CapReturns => IInv'
BY StopInv DEF CapReturns, Ending

LEMMA ReplyDraftInv ==
  ASSUME IInv, NEW d \in Draft, ReplyDraft(d)
  PROVE  IInv'
<1>1. Investigating /\ phase = "turn" /\ step < StepCap
  BY DEF ReplyDraft, Turning
<1>2. CASE RunGate(d)
  <2>1. /\ phase' = "judge" /\ draft' = d
        /\ UNCHANGED <<abstain, run, counters, todo, open, gathered, outcomes>>
    BY <1>2 DEF ReplyDraft
  <2>2. TypeOK'
    BY <2>1 DEF IInv, TypeOK, counters, gathered, outcomes
  <2>3. RunGate(draft)'
    BY <1>2, <2>1 DEF RunGate, gathered
  <2>4. Control'
    BY <1>1, <2>1, <2>3 DEF IInv, Control, Matched, Running, Judged, Pending, Fresh,
       counters, outcomes, Investigating
  <2>5. Content'
    BY <1>1, <2>1, StillPending, ContentStays
  <2> QED
    BY <2>2, <2>4, <2>5 DEF IInv
<1>3. CASE ~RunGate(d)
  BY <1>1, <1>3, BlockInv DEF ReplyDraft
<1> QED
  BY <1>2, <1>3

LEMMA JudgeInv ==
  ASSUME IInv, NEW says, Judge(says)
  PROVE  IInv'
<1>1. Investigating /\ phase = "judge" /\ step < StepCap
  BY DEF Judge, IInv, Control, Running
<1>2. Accept \/ Block
  BY DEF Judge
<1> QED
  BY <1>1, <1>2, AcceptInv, BlockInv

LEMMA ReplyCallsInv ==
  ASSUME IInv, NEW batch \in Batches, ReplyCalls(batch)
  PROVE  IInv'
<1>1. /\ Investigating /\ phase = "turn" /\ step < StepCap
      /\ phase' = "calls" /\ todo' = batch /\ open' = Len(batch)
      /\ UNCHANGED <<abstain, run, counters, gathered, draft, outcomes>>
  BY DEF ReplyCalls, Turning
<1>2. batch \in Seq(Call) /\ batch # <<>> /\ Len(batch) \in Nat
  BY RepliesAssumption
<1>3. TypeOK'
  BY <1>1, <1>2 DEF IInv, TypeOK, counters, gathered, outcomes
<1>4. Control'
  BY <1>1, <1>2 DEF IInv, Control, Matched, Running, Judged, Pending, Fresh, counters,
     outcomes, Investigating
<1>5. Content'
  BY <1>1, StillPending, ContentStays
<1> QED
  BY <1>3, <1>4, <1>5 DEF IInv

(* A call that is dispatched has its tool message, and stays below the caps.*)
LEMMA DispatchInv ==
  ASSUME IInv, NEW fails \in BOOLEAN, Dispatch(fails)
  PROVE  IInv'
<1> DEFINE c == Head(todo)
           got == IF fails THEN {} ELSE Rows(c)
<1>1. /\ Investigating /\ phase = "calls" /\ ~BudgetSpent
      /\ dispatched' = dispatched + 1
      /\ productive' = IF Gathers(c, got, fails) THEN productive + 1 ELSE productive
      /\ evidence' = evidence \cup got
      /\ items' = items + Cardinality(got)
      /\ failed' = (failed \/ (fails /\ c.kind # "act"))
      /\ todo' = Tail(todo) /\ open' = open - 1
      /\ IF Len(todo) = 1 THEN NextTurn ELSE UNCHANGED <<phase, step, draft>>
      /\ UNCHANGED <<abstain, run, retries, outcomes>>
  BY DEF Dispatch
<1>2. /\ todo \in Seq(Call) /\ todo # <<>> /\ open = Len(todo)
      /\ run <= Faults /\ step < StepCap
  BY <1>1 DEF IInv, TypeOK, Control, Matched, Running
<1>3. /\ c \in Call /\ Tail(todo) \in Seq(Call)
      /\ Len(todo) \in Nat /\ Len(Tail(todo)) = Len(todo) - 1
      /\ (Len(todo) = 1 <=> Tail(todo) = <<>>)
  <2>1. c \in Call
    BY <1>2
  <2>2. /\ Tail(todo) \in Seq(Call) /\ Len(todo) \in Nat
        /\ Len(Tail(todo)) = Len(todo) - 1
    BY <1>2
  <2>3. \A t \in Seq(Call) : Len(t) = 0 <=> t = <<>>
    OBVIOUS
  <2> QED
    BY <2>1, <2>2, <2>3
<1>4. got \in SUBSET Item /\ Cardinality(got) \in Nat
  BY <1>3, RowsType, RowsFinite, FS_EmptySet
<1> HIDE DEF got, c
<1>5. TypeOK'
  <2>1. dispatched' \in 0..(StepCap * CallCap)
    BY <1>1, CapType DEF BudgetSpent, IInv, TypeOK
  <2>2. productive' \in 0..CallCap
    BY SMTT(20), <1>1, AgentAssumption DEF BudgetSpent, IInv, TypeOK
  <2>3. phase' \in {"turn", "calls"} /\ step' \in 0..StepCap
    <3>1. StepCap \in Nat /\ step \in 0..StepCap
      BY AgentAssumption DEF IInv, TypeOK
    <3>2. CASE Len(todo) = 1
      BY <1>1, <1>2, <3>1, <3>2 DEF NextTurn
    <3>3. CASE Len(todo) # 1
      BY <1>1, <3>1, <3>3
    <3> QED
      BY <3>2, <3>3
  <2>4. open' \in Nat /\ items' \in Nat /\ evidence' \in SUBSET Item
    BY SMTT(20), <1>1, <1>2, <1>3, <1>4 DEF IInv, TypeOK
  <2>5. failed' \in BOOLEAN
    BY <1>1
  <2>6. /\ abstain' \in BOOLEAN /\ run' \in 1..(Faults + 1)
        /\ retries' \in 0..MaxRetries /\ verdict' \in [1..(Faults + 1) -> Ending]
        /\ answer' \in [1..Faults -> SUBSET Id]
        /\ inherited' \in SUBSET ((1..Faults) \X Item) /\ total' \in Nat
    BY <1>1 DEF IInv, TypeOK, outcomes
  <2> QED
    BY <1>1, <1>3, <2>1, <2>2, <2>3, <2>4, <2>5, <2>6 DEF TypeOK
<1>6. Control'
  <2>1. Matched'
    BY <1>1, <1>2, <1>3 DEF Matched, NextTurn
  <2>2. Running' /\ Judged'
    BY <1>1, <1>2 DEF Running, Judged, NextTurn
  <2>3. Pending' /\ Fresh'
    BY <1>1 DEF IInv, Control, Pending, Fresh, outcomes
  <2> QED
    BY <2>1, <2>2, <2>3 DEF Control
<1>7. Content'
  BY <1>1, StillPending, ContentStays
<1> QED
  BY <1>5, <1>6, <1>7 DEF IInv

(* An attributed id names one run, whatever ids the runs gave their items. *)
LEMMA SynthesiseInv ==
  ASSUME IInv, NEW cites, NEW anchored, Synthesise(cites, anchored)
  PROVE  IInv'
<1> DEFINE d == [cites |-> cites, anchored |-> anchored]
<1>1. /\ run = Faults + 1 /\ phase = "turn" /\ phase' = "over"
      /\ verdict' = [verdict EXCEPT ![run] =
            IF total >= MinEvidence /\ CitationCheck(d, MasterIds)
            THEN "answered" ELSE "blocked"]
      /\ draft' = d
      /\ UNCHANGED <<abstain, run, counters, todo, open, gathered, answer,
                      inherited, total>>
  BY DEF Synthesise
<1>2. /\ Faults \in Nat /\ run \in 1..(Faults + 1)
      /\ \A r \in 1..Faults : r \in 1..(Faults + 1) /\ r # run
  BY SMTT(20), <1>1, AgentAssumption DEF IInv, TypeOK
<1>3. TypeOK'
  <2>1. verdict' \in [1..(Faults + 1) -> Ending]
    BY <1>1, <1>2 DEF IInv, TypeOK, Ending
  <2> QED
    BY <1>1, <2>1 DEF IInv, TypeOK, counters, gathered
<1>4. Control'
  BY <1>1 DEF IInv, Control, Matched, Running, Judged, Pending, Fresh
<1>5. \A r \in 1..Faults : verdict'[r] = verdict[r]
  BY <1>1, <1>2 DEF IInv, TypeOK
<1>6. AnswersAreGrounded'
  BY <1>1, <1>5 DEF IInv, Content, AnswersAreGrounded
<1>7. OnlyAnswersAreInherited'
  <2> SUFFICES ASSUME NEW c \in inherited PROVE verdict'[c[1]] = "answered"
    BY <1>1 DEF OnlyAnswersAreInherited
  <2>1. verdict[c[1]] = "answered" /\ c[1] \in 1..Faults
    BY DEF IInv, TypeOK, Content, SynthesisIsTraceable, OnlyAnswersAreInherited
  <2> QED
    BY <1>5, <2>1
<1>8. SynthesisIsTraceable'
  <2> SUFFICES ASSUME verdict'[Faults + 1] = "answered"
               PROVE  /\ draft'.cites # {}
                      /\ \A id \in draft'.cites : \E r \in 1..Faults :
                           /\ verdict'[r] = "answered"
                           /\ {c[1] : c \in {c \in inherited' :
                                  Attributed(c[1], c[2].id) = id}} = {r}
    BY <1>7 DEF SynthesisIsTraceable
  <2>1. CitationCheck(d, MasterIds)
    BY <1>1, <1>2 DEF IInv, TypeOK
  <2>2. cites # {} /\ cites \subseteq MasterIds
    BY <2>1 DEF CitationCheck
  <2>3. ASSUME NEW id \in cites
        PROVE  \E r \in 1..Faults :
                 /\ verdict'[r] = "answered"
                 /\ {c[1] : c \in {c \in inherited' :
                        Attributed(c[1], c[2].id) = id}} = {r}
    <3>1. PICK k \in inherited : id = <<k[1], k[2].id>>
      BY <2>2, <2>3 DEF MasterIds, Attributed
    <3>2. k[1] \in 1..Faults /\ verdict'[k[1]] = "answered"
      BY <1>1, <1>7, <3>1 DEF OnlyAnswersAreInherited, IInv, TypeOK
    <3>3. \A c \in inherited : <<c[1], c[2].id>> = id => c[1] = k[1]
      BY <3>1
    <3>4. {c[1] : c \in {c \in inherited' : Attributed(c[1], c[2].id) = id}}
             = {k[1]}
      BY <1>1, <3>1, <3>3 DEF Attributed
    <3> QED
      BY <3>2, <3>4
  <2> QED
    BY <1>1, <2>2, <2>3
<1> QED
  BY <1>3, <1>4, <1>6, <1>8 DEF IInv, Content

(* An endpoint that raises ends the fan-out where it stands.               *)
LEMMA ChatRaisesInv ==
  ASSUME IInv, ChatRaises
  PROVE  IInv'
<1>1. /\ phase \in {"turn", "judge"} /\ phase' = "over"
      /\ verdict' = [verdict EXCEPT ![run] = "raised"]
      /\ UNCHANGED <<abstain, run, counters, todo, open, gathered, draft, answer,
                      inherited, total>>
  BY DEF ChatRaises, Turning
<1>2. run \in 1..(Faults + 1) /\ Faults \in Nat
  BY AgentAssumption DEF IInv, TypeOK
<1>3. TypeOK'
  <2>1. verdict' \in [1..(Faults + 1) -> Ending]
    BY <1>1, <1>2 DEF IInv, TypeOK, Ending
  <2> QED
    BY <1>1, <2>1 DEF IInv, TypeOK, counters, gathered
<1>4. Control'
  BY <1>1 DEF IInv, Control, Matched, Running, Judged, Pending, Fresh
<1>5. \A r \in 1..(Faults + 1) :
        /\ r # run => verdict'[r] = verdict[r]
        /\ verdict'[r] = "answered" => verdict[r] = "answered"
  BY <1>1, <1>2 DEF IInv, TypeOK
<1>6. AnswersAreGrounded'
  <2>1. \A r \in 1..Faults : r \in 1..(Faults + 1)
    BY <1>2
  <2> QED
    BY <1>1, <1>5, <2>1 DEF IInv, Content, AnswersAreGrounded
<1>7. OnlyAnswersAreInherited'
  <2> SUFFICES ASSUME NEW c \in inherited PROVE verdict'[c[1]] = "answered"
    BY <1>1 DEF OnlyAnswersAreInherited
  <2>1. verdict[c[1]] = "answered" /\ c[1] < run /\ c[1] \in 1..Faults
    BY DEF IInv, TypeOK, Control, Fresh, Content, SynthesisIsTraceable,
           OnlyAnswersAreInherited
  <2>2. c[1] \in 1..(Faults + 1) /\ c[1] # run
    BY <1>2, <2>1
  <2> QED
    BY <1>5, <2>1, <2>2
<1>8. SynthesisIsTraceable'
  <2>1. Faults + 1 \in run..(Faults + 1) /\ Faults + 1 \in 1..(Faults + 1)
    BY <1>2
  <2>2. verdict[Faults + 1] = "none"
    BY <1>1, <2>1 DEF IInv, Control, Pending
  <2>3. verdict'[Faults + 1] # "answered"
    BY <1>5, <2>1, <2>2
  <2> QED
    BY <1>7, <2>3 DEF SynthesisIsTraceable
<1> QED
  BY <1>3, <1>4, <1>6, <1>8 DEF IInv, Content

LEMMA Stutter == IInv /\ UNCHANGED vars => IInv'
<1> SUFFICES ASSUME IInv, UNCHANGED vars PROVE IInv'
  OBVIOUS
<1> USE DEF vars, counters, gathered, outcomes
<1>1. TypeOK'
  BY DEF IInv, TypeOK
<1>2. Matched' /\ Running' /\ Pending' /\ Fresh'
  BY DEF IInv, Control, Matched, Running, Pending, Fresh
<1>3. Judged'
  BY DEF IInv, Control, Judged, RunGate
<1>4. Content'
  BY ContentStays
<1> QED
  BY <1>1, <1>2, <1>3, <1>4 DEF IInv, Control

LEMMA NextInv == IInv /\ [Next]_vars => IInv'
<1> SUFFICES ASSUME IInv, [Next]_vars PROVE IInv'
  OBVIOUS
<1>1. CASE AskBack \/ CapReturns \/ StepsSpent
  BY <1>1, AskBackInv, CapReturnsInv, StepsSpentInv
<1>2. CASE ChatRaises
  BY <1>2, ChatRaisesInv
<1>3. CASE \E d \in Draft : ReplyDraft(d)
  BY <1>3, ReplyDraftInv
<1>4. CASE \E says \in {"pass", "missing", "contradiction"} : Judge(says)
  BY <1>4, JudgeInv
<1>5. CASE \E batch \in Batches : ReplyCalls(batch)
  BY <1>5, ReplyCallsInv
<1>6. CASE \E fails \in BOOLEAN : Dispatch(fails)
  BY <1>6, DispatchInv
<1>7. CASE \E cites \in MasterCites, anchored \in BOOLEAN :
             Synthesise(cites, anchored)
  BY <1>7, SynthesiseInv
<1>8. CASE UNCHANGED vars
  BY <1>8, Stutter
<1> QED
  BY <1>1, <1>2, <1>3, <1>4, <1>5, <1>6, <1>7, <1>8 DEF Next

-----------------------------------------------------------------------------
(* Theorems.                                                               *)

THEOREM Invariance == Spec => []IInv
<1> QED
  BY InitInv, NextInv, PTL DEF Spec

(* Every variable keeps its type, and no counter passes its cap, whatever  *)
(* the model replies (loop.py:294-301, 370-376, 407-410).                  *)
THEOREM TypeCorrect == Spec => []TypeOK
<1>1. IInv => TypeOK
  BY DEF IInv
<1> QED
  BY <1>1, Invariance, PTL

(* No transcript with an unanswered call is ever sent to the model         *)
(* (loop.py:361-376, 464).                                                 *)
THEOREM ChatsMatched == Spec => []ChatsSeeMatchedCalls
<1>1. IInv => ChatsSeeMatchedCalls
  BY DEF IInv, Control, Matched, ChatsSeeMatchedCalls
<1> QED
  BY <1>1, Invariance, PTL

(* An accepted answer rests on evidence that is on topic, holds its cites  *)
(* and, unless the record abstained, covers the question (gate.py:79-147). *)
THEOREM AnswersGrounded == Spec => []AnswersAreGrounded
<1>1. IInv => AnswersAreGrounded
  BY DEF IInv, Content
<1> QED
  BY <1>1, Invariance, PTL

(* Each id an accepted synthesis cites tells one run, and that run had an  *)
(* accepted answer (synthesis.py:55-145).                                  *)
THEOREM SynthesisTraceable == Spec => []SynthesisIsTraceable
<1>1. IInv => SynthesisIsTraceable
  BY DEF IInv, Content
<1> QED
  BY <1>1, Invariance, PTL

(* An answer is accepted only by the judge's step, which the gate has let  *)
(* the draft through to: no call of the round failed or is unanswered      *)
(* (loop.py:319-358).                                                      *)
THEOREM AcceptedRoundsAreClean == Spec => AcceptedRoundIsClean
<1> DEFINE Clean ==
      verdict'[run] = "answered" /\ run <= Faults => ~failed /\ open = 0
<1>1. IInv /\ [Next]_vars => [Clean]_vars
  <2> SUFFICES ASSUME IInv, Next, verdict'[run] = "answered", run <= Faults
               PROVE  ~failed /\ open = 0
    OBVIOUS
  <2>1. phase # "over" /\ (Investigating \/ run = Faults + 1)
    BY DEF Next, AskBack, CapReturns, StepsSpent, ChatRaises, ReplyDraft, Judge,
           ReplyCalls, Dispatch, Synthesise, Turning, Investigating
  <2>2. /\ run \in 1..(Faults + 1) /\ Faults \in Nat
        /\ run # Faults + 1 /\ Investigating
    BY AgentAssumption DEF IInv, TypeOK, Investigating
  <2>3. verdict[run] = "none"
    BY <2>1, <2>2, StillPending
  <2>4. \A why : Leave(why) => why = "answered"
    BY <2>2 DEF IInv, TypeOK, Leave
  <2>5. \A why : Stop(why) => why = "answered"
    BY <2>4 DEF Stop
  <2>6. ~UNCHANGED outcomes
    BY <2>3 DEF outcomes
  <2>7. ~Block
    BY <2>5, <2>6 DEF Block
  <2>8. ~AskBack /\ ~CapReturns /\ ~StepsSpent
    BY <2>5 DEF AskBack, CapReturns, StepsSpent
  <2>9. ~ChatRaises
    BY <2>2 DEF ChatRaises, IInv, TypeOK
  <2>10. \A d \in Draft : ~ReplyDraft(d)
    BY <2>6, <2>7 DEF ReplyDraft
  <2>11. \A batch \in Batches : ~ReplyCalls(batch)
    BY <2>6 DEF ReplyCalls
  <2>12. \A fails \in BOOLEAN : ~Dispatch(fails)
    BY <2>6 DEF Dispatch
  <2>13. \A cites, anchored : ~Synthesise(cites, anchored)
    BY <2>2 DEF Synthesise
  <2>14. \E says \in {"pass", "missing", "contradiction"} : Judge(says)
    BY <2>8, <2>9, <2>10, <2>11, <2>12, <2>13 DEF Next
  <2>15. phase = "judge"
    BY <2>14 DEF Judge
  <2> QED
    BY <2>15 DEF IInv, Control, Matched, Judged, RunGate
<1>2. AcceptedRoundIsClean <=> [][Clean]_vars
  BY DEF AcceptedRoundIsClean
<1> HIDE DEF Clean
<1> QED
  BY <1>1, <1>2, Invariance, PTL DEF Spec
=============================================================================
