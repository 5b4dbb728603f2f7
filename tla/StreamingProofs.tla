--------------------------- MODULE StreamingProofs ---------------------------
(* What the bridge sends, what a commit of the predictive consumer         *)
(* promises, which labels a window carries and what the copilot's brief    *)
(* names, for every value of the constants.                                *)
EXTENDS Streaming, FiniteSetTheorems, NaturalsInduction, WellFoundedInduction,
        TLAPS

-----------------------------------------------------------------------------
(* Least counterexamples: what stands here for induction over the numbers. *)

LEMMA NatMin ==
  ASSUME NEW T \in SUBSET Nat, T # {}
  PROVE  \E x \in T : \A y \in T : x <= y
<1> DEFINE R == OpToRel(<, Nat)
<1>1. IsWellFoundedOn(R, Nat)
  BY NatLessThanWellFounded
<1> HIDE DEF R
<1>2. PICK x \in T : \A y \in T : <<y, x>> \notin R
  BY <1>1, WFMin
<1>3. \A y \in T : ~ (y < x)
  BY <1>2 DEF R, OpToRel
<1> QED
  BY <1>3

(* Sequences, with whatever they are sequences of.                         *)
LEMMA SeqElements ==
  ASSUME NEW S, NEW s \in Seq(S)
  PROVE  Len(s) \in Nat /\ \A i \in 1..Len(s) : s[i] \in S
OBVIOUS

LEMMA SeqSubset ==
  ASSUME NEW S, NEW T, NEW s \in Seq(S), \A i \in 1..Len(s) : s[i] \in T
  PROVE  s \in Seq(T)
OBVIOUS

LEMMA SeqAppended ==
  ASSUME NEW S, NEW s \in Seq(S), NEW t \in Seq(S)
  PROVE  /\ s \o t \in Seq(S) /\ Len(s \o t) = Len(s) + Len(t)
         /\ Len(s) \in Nat /\ Len(t) \in Nat
         /\ \A i \in 1..Len(s) : (s \o t)[i] = s[i]
         /\ \A i \in (Len(s) + 1)..(Len(s) + Len(t)) : (s \o t)[i] = t[i - Len(s)]
OBVIOUS

Joined(r, s, t) ==
  /\ Len(r) = Len(s) + Len(t)
  /\ \A i \in 1..Len(s) : r[i] = s[i]
  /\ \A i \in (Len(s) + 1)..(Len(s) + Len(t)) : r[i] = t[i - Len(s)]

LEMMA SeqJoined ==
  ASSUME NEW S, NEW s \in Seq(S), NEW t \in Seq(S)
  PROVE  s \o t \in Seq(S) /\ Joined(s \o t, s, t)
BY SeqAppended DEF Joined

LEMMA SeqEqual ==
  ASSUME NEW S, NEW s \in Seq(S), NEW t \in Seq(S), Len(s) = Len(t),
         \A i \in 1..Len(s) : s[i] = t[i]
  PROVE  s = t
OBVIOUS

LEMMA Division ==
  ASSUME NEW s \in Nat \ {0}, NEW x \in Nat
  PROVE  x % s \in 0..(s - 1) /\ (x \div s) \in Nat /\ x = s * (x \div s) + (x % s)
OBVIOUS

LEMMA Multiples ==
  ASSUME NEW s \in Nat \ {0}, NEW a \in Nat, NEW b \in Nat, a < b
  PROVE  s * a + s <= s * b
<1>1. PICK d \in Nat : b = a + 1 + d
  <2>1. b - a - 1 \in Nat /\ b = a + 1 + (b - a - 1)
    OBVIOUS
  <2> QED
    BY <2>1
<1>2. s * b = s * a + s + s * d /\ s * d >= 0
  BY <1>1
<1> QED
  BY <1>2

-----------------------------------------------------------------------------
(* The rows of noc.metrics.                                                *)

(* What the constants are, but for the labels' spans.                      *)
LEMMA Sizes ==
  /\ Series \in Nat \ {0} /\ L \in Nat \ {0} /\ Stride \in 1..L
  /\ Keep \in Nat \ {0}
  /\ {Recent, MaxTime, MaxEvents, MaxFailures} \subseteq Nat
BY StreamingAssumption

Sample == [ent : Ent, bucket : Nat]
Samples(t) == [ent : Ent, bucket : 1..t]

LEMMA SamplesGrow ==
  ASSUME NEW t \in Nat
  PROVE  /\ Samples(t) \subseteq Samples(t + 1) /\ Samples(t) \subseteq Sample
         /\ \A r \in Samples(t) : r.ent \in Ent /\ r.bucket \in 1..t
         /\ \A r \in Sample : r.bucket \in 1..t => r \in Samples(t)
BY DEF Samples, Sample

(* One cycle sends the last three buckets, of each series in their order.  *)
Ordered(m, t) ==
  /\ m \in Seq(Samples(t))
  /\ \A k \in 1..Len(m) : m[k].bucket + 2 >= t
  /\ \A i, j \in 1..Len(m) :
       i < j /\ m[i].ent = m[j].ent => m[i].bucket < m[j].bucket

LEMMA PolledIsOrdered ==
  ASSUME NEW t \in Nat \ {0}
  PROVE  Ordered(Polled(t), t)
<1> Series \in Nat \ {0}
  BY Sizes
<1>1. PICK n \in 1..3 : n = (IF t < 3 THEN t ELSE 3) /\ n <= t
  OBVIOUS
<1>2. PICK m : m = Polled(t)
  OBVIOUS
<1>3. PICK total \in Nat : total = n * Series
  OBVIOUS
<1>4. m = [k \in 1..total |->
             [ent |-> ((k - 1) % Series) + 1,
              bucket |-> t - n + ((k - 1) \div Series) + 1]]
  BY <1>1, <1>2, <1>3 DEF Polled
<1>5. ASSUME NEW k \in 1..total
      PROVE  /\ (k - 1) % Series \in 0..(Series - 1)
             /\ ((k - 1) \div Series) \in 0..(n - 1)
             /\ k - 1 = Series * ((k - 1) \div Series) + ((k - 1) % Series)
  <2>1. PICK x \in Nat : x = k - 1 /\ x < n * Series
    <3>1. k - 1 \in Nat /\ k - 1 < n * Series
      BY <1>3
    <3> QED
      BY <3>1
  <2>2. PICK q, r : q = (x \div Series) /\ r = x % Series
    OBVIOUS
  <2>3. r \in 0..(Series - 1) /\ q \in Nat /\ x = Series * q + r
    BY <2>1, <2>2, Division
  <2>4. q < n
    <3> SUFFICES ASSUME n <= q PROVE FALSE
      BY <2>3
    <3>1. Series * n <= Series * q
      <4>1. CASE n = q
        BY <4>1, <2>3
      <4>2. CASE n < q
        <5>1. Series * n + Series <= Series * q
          BY <4>2, <2>3, Multiples
        <5>2. PICK a, b \in Nat : a = Series * n /\ b = Series * q
          BY <2>3
        <5> QED
          BY <5>1, <5>2
      <4> QED
        BY <4>1, <4>2, <2>3
    <3>2. PICK a, b \in Nat : a = Series * n /\ b = Series * q
      BY <2>3
    <3>3. n * Series = a
      BY <3>2
    <3> QED
      BY <3>1, <3>2, <3>3, <2>1, <2>3
  <2> QED
    BY <2>1, <2>2, <2>3, <2>4
<1>6. \A k \in 1..total : /\ m[k].ent = ((k - 1) % Series) + 1
                          /\ m[k].bucket = t - n + ((k - 1) \div Series) + 1
  BY <1>4
<1>7. ASSUME NEW k \in 1..total
      PROVE  m[k] \in Samples(t) /\ m[k].bucket + 2 >= t
  <2>1. PICK q, r : q = ((k - 1) \div Series) /\ r = (k - 1) % Series
    OBVIOUS
  <2>2. q \in 0..(n - 1) /\ r \in 0..(Series - 1)
    BY <1>5, <2>1
  <2>3. m[k] = [ent |-> r + 1, bucket |-> t - n + q + 1]
    BY <1>4, <2>1
  <2>4. r + 1 \in Ent /\ t - n + q + 1 \in 1..t /\ (t - n + q + 1) + 2 >= t
    BY <1>1, <2>2 DEF Ent
  <2> QED
    BY <2>3, <2>4 DEF Samples
<1>8. m \in Seq(Samples(t)) /\ Len(m) = total
  <2>1. m \in [1..total -> Samples(t)]
    BY <1>4, <1>7
  <2> QED
    BY <2>1, <1>3
<1>9. ASSUME NEW i \in 1..total, NEW j \in 1..total, i < j, m[i].ent = m[j].ent
      PROVE  m[i].bucket < m[j].bucket
  <2>1. PICK q, r, p, s : /\ q = ((i - 1) \div Series) /\ r = (i - 1) % Series
                          /\ p = ((j - 1) \div Series) /\ s = (j - 1) % Series
    OBVIOUS
  <2>2. /\ q \in Nat /\ p \in Nat /\ r \in Nat /\ s \in Nat
        /\ i - 1 = Series * q + r /\ j - 1 = Series * p + s
    BY <2>1, <1>5
  <2>3. r + 1 = s + 1
    BY <2>1, <1>6, <1>9
  <2>4. PICK a, b \in Nat : a = Series * q /\ b = Series * p
    BY <2>2
  <2>5. a < b
    BY <2>2, <2>3, <2>4, <1>9
  <2>6. q < p
    <3> SUFFICES ASSUME p <= q PROVE FALSE
      BY <2>2
    <3>1. CASE p = q
      BY <3>1, <2>4, <2>5
    <3>2. CASE p < q
      <4>1. b + Series <= a
        BY <3>2, <2>2, <2>4, Multiples
      <4> QED
        BY <4>1, <2>4, <2>5
    <3> QED
      BY <3>1, <3>2, <2>2
  <2>7. m[i].bucket = t - n + q + 1 /\ m[j].bucket = t - n + p + 1
    BY <2>1, <1>6
  <2> QED
    BY <2>2, <2>6, <2>7
<1> QED
  BY <1>2, <1>7, <1>8, <1>9 DEF Ordered

(* What is picked of such rows is as ordered.                              *)
LEMMA PickedIsOrdered ==
  ASSUME NEW t \in Nat, NEW m, Ordered(m, t), NEW f \in Picks(Len(m)),
         NEW p, p = [i \in DOMAIN f |-> m[f[i]]]
  PROVE  Ordered(p, t)
<1>1. m \in Seq(Samples(t))
  BY DEF Ordered
<1>2. PICK n \in Nat : n = Len(m)
  BY <1>1, SeqElements
<1>3. PICK c \in 0..n : f \in [1..c -> 1..n] /\ \A i, j \in 1..c : i < j => f[i] < f[j]
  BY <1>2 DEF Picks
<1>4. DOMAIN f = 1..c /\ c \in Nat
  BY <1>3
<1>5. p = [i \in 1..c |-> m[f[i]]]
  BY <1>4
<1>6. \A i \in 1..c : f[i] \in 1..Len(m) /\ m[f[i]] \in Samples(t) /\ p[i] = m[f[i]]
  BY <1>1, <1>2, <1>3, <1>5, SeqElements
<1>7. p \in Seq(Samples(t)) /\ Len(p) = c
  <2>1. p \in [1..c -> Samples(t)]
    BY <1>5, <1>6
  <2> QED
    BY <2>1, <1>4
<1>8. \A i \in 1..c : p[i].bucket + 2 >= t
  BY <1>6 DEF Ordered
<1>9. ASSUME NEW i \in 1..c, NEW j \in 1..c, i < j, p[i].ent = p[j].ent
      PROVE  p[i].bucket < p[j].bucket
  <2>1. f[i] < f[j]
    BY <1>3, <1>9
  <2> QED
    BY <2>1, <1>6, <1>9 DEF Ordered
<1> QED
  BY <1>7, <1>8, <1>9 DEF Ordered

-----------------------------------------------------------------------------
(* The steps of the predictive consumer and of its topic.                  *)

(* A cycle appends rows of the last three buckets, in order unless they    *)
(* are there twice.                                                        *)
Cycle(p) ==
  /\ now < MaxTime /\ now' = now + 1 /\ metrics' = metrics \o p
  /\ p \in Seq(Samples(now + 1))
  /\ \/ retries' = retries /\ Ordered(p, now + 1)
     \/ retries' = retries + 1
  /\ UNCHANGED <<lab, offset, cursor, torn, restarts, queued, lost, events, faults,
                 consumer>>
  /\ aborts' \in {aborts, aborts + 1} /\ pc' \in {"events", "asleep"}

LEMMA CycleSteps ==
  ASSUME now \in Nat, PumpMetrics \/ ResendMetrics \/ MetricsRaise
  PROVE  \/ \E p : Cycle(p)
         \/ /\ pc' = "events"
            /\ UNCHANGED <<now, metrics, lab, offset, cursor, torn, restarts,
                           aborts, producer, events, faults, consumer>>
<1>1. PICK rows : rows = Polled(now + 1)
  OBVIOUS
<1>2. Ordered(rows, now + 1) /\ rows \in Seq(Samples(now + 1)) /\ now + 1 \in Nat
  <2>1. now + 1 \in Nat \ {0}
    OBVIOUS
  <2>2. Ordered(rows, now + 1)
    BY <2>1, <1>1, PolledIsOrdered
  <2> QED
    BY <2>1, <2>2 DEF Ordered
<1>3. ASSUME NEW f \in Picks(Len(rows)), NEW p, p = [i \in DOMAIN f |-> rows[f[i]]]
      PROVE  Ordered(p, now + 1) /\ p \in Seq(Samples(now + 1))
  <2>1. Ordered(p, now + 1)
    BY <1>2, <1>3, PickedIsOrdered
  <2> QED
    BY <2>1 DEF Ordered
<1>4. CASE PumpMetrics /\ now < MaxTime
  <2>1. PICK f \in Picks(Len(rows)) :
          /\ now' = now + 1
          /\ metrics' = metrics \o [i \in DOMAIN f |-> rows[f[i]]]
    BY <1>1, <1>4 DEF PumpMetrics
  <2>2. PICK p : p = [i \in DOMAIN f |-> rows[f[i]]]
    OBVIOUS
  <2>3. Cycle(p)
    BY <1>3, <1>4, <2>1, <2>2 DEF PumpMetrics, Cycle
  <2> QED
    BY <2>3
<1>5. CASE PumpMetrics /\ ~(now < MaxTime)
  BY <1>5 DEF PumpMetrics, producer
<1>6. CASE ResendMetrics
  <2>1. rows \o rows \in Seq(Samples(now + 1))
    BY <1>2, SeqAppended
  <2>2. Cycle(rows \o rows)
    BY <1>1, <1>6, <2>1 DEF ResendMetrics, Cycle
  <2> QED
    BY <2>2
<1>7. CASE MetricsRaise
  <2>1. PICK f \in Picks(Len(rows)) :
          metrics' = metrics \o [i \in DOMAIN f |-> rows[f[i]]]
    BY <1>1, <1>7 DEF MetricsRaise
  <2>2. PICK p : p = [i \in DOMAIN f |-> rows[f[i]]]
    OBVIOUS
  <2>3. pc = "asleep" /\ pc' = pc
    BY <1>7 DEF MetricsRaise
  <2>4. Cycle(p)
    BY <1>3, <1>7, <2>1, <2>2, <2>3 DEF MetricsRaise, Cycle, producer
  <2> QED
    BY <2>4
<1> QED
  BY <1>4, <1>5, <1>6, <1>7

(* The lab, the other topics and the bridge's memory are not mentioned.    *)
Elsewhere ==
  UNCHANGED <<now, metrics, consumer>> /\ retries' \in {retries, retries + 1}

(* A step either leaves the consumer and its topic alone or is one of      *)
(* these.                                                                  *)
LEMMA Steps ==
  ASSUME now \in Nat, [Next]_vars
  PROVE  \/ Elsewhere \/ (\E p : Cycle(p))
         \/ Start \/ Consume \/ Commit \/ CrashConsumer
<1>1. AppendHalf \/ (\E s \in Stream : LogLine(s)) => Elsewhere
  BY DEF AppendHalf, LogLine, Elsewhere, bridge, producer, topics
<1>2. PumpFaults \/ Flush \/ (\E order \in Orders : PumpEvents(order)) => Elsewhere
  BY DEF PumpFaults, Flush, PumpEvents, Elsewhere, producer, topics
<1>3. LokiError \/ SendRaises \/ RestartBridge => Elsewhere
  BY DEF LokiError, SendRaises, RestartBridge, Elsewhere, producer, topics
<1>4. Deliver \/ DropBatch \/ RetryBatch => Elsewhere
  BY DEF Deliver, DropBatch, RetryBatch, Elsewhere, bridge, topics
<1>5. UNCHANGED vars => Elsewhere
  BY DEF vars, bridge, producer, topics, consumer, Elsewhere
<1>6. PumpMetrics \/ ResendMetrics \/ MetricsRaise => Elsewhere \/ \E p : Cycle(p)
  BY CycleSteps DEF Elsewhere, producer
<1> QED
  BY <1>1, <1>2, <1>3, <1>4, <1>5, <1>6 DEF Next, Pump

-----------------------------------------------------------------------------
(* The invariant.  It says of a consumer that has not crashed what its     *)
(* counters know: a buffer that is not full holds every row since the      *)
(* last window; in a full one the rows before the last since[e] have been  *)
(* in a window, so that what falls out at the front has been used.         *)

Emitted(k) == \E w \in windows : k \in ToSet(w.rows)

Typed ==
  /\ now \in Nat
  /\ metrics \in Seq(Sample)
  /\ pos \in 0..Len(metrics) /\ committed \in 0..pos
  /\ up \in {"down", "poll", "commit"}
  /\ buf \in [Ent -> Seq(Nat)] /\ since \in [Ent -> Nat]
  /\ crashes \in Nat /\ retries \in Nat

Fresh == up = "down" => pos = 0

Counted(e) ==
  /\ Len(buf[e]) < L => since[e] = Len(buf[e])
  /\ Len(buf[e]) >= L =>
       /\ Len(buf[e]) = L /\ since[e] < Stride
       /\ \A i \in 1..(L - since[e]) : Emitted(buf[e][i])

Used(k) == Emitted(k) \/ k \in ToSet(buf[metrics[k].ent])

Consumed ==
  /\ Fresh
  /\ \A e \in Ent : Counted(e)
  /\ \A k \in 1..pos : Used(k)

Inv == Typed /\ (crashes = 0 => Consumed)

(* At the start nothing has been read.                                     *)
LEMMA InitInv == Init => Inv
<1> SUFFICES ASSUME Init PROVE Inv
  OBVIOUS
<1> USE Sizes DEF Init
<1>1. Typed
  BY DEF Typed, Ent
<1>2. Consumed
  <2>1. Fresh
    BY DEF Fresh
  <2>2. \A e \in Ent : Counted(e)
    BY DEF Counted
  <2>3. \A k \in 1..pos : Used(k)
    OBVIOUS
  <2> QED
    BY <2>1, <2>2, <2>3 DEF Consumed
<1> QED
  BY <1>1, <1>2 DEF Inv

(* A full buffer loses its first row, any other one grows.                 *)
Grows(b, p, q) ==
  /\ q \in Seq(Nat)
  /\ Len(q) = IF Len(b) = L THEN L ELSE Len(b) + 1
  /\ q[Len(q)] = p
  /\ Len(b) < L => \A i \in 1..Len(b) : q[i] = b[i]
  /\ Len(b) = L => \A i \in 1..(L - 1) : q[i] = b[i + 1]

LEMMA PushedRows ==
  ASSUME NEW b \in Seq(Nat), NEW p \in Nat, Len(b) <= L
  PROVE  Grows(b, p, Pushed(b, p))
<1> USE DEF Grows
<1> L \in Nat \ {0}
  BY Sizes
<1>1. CASE Len(b) = L
  <2> DEFINE c == Tail(b)
  <2>1. c \in Seq(Nat) /\ Len(c) = L - 1 /\ \A i \in 1..(L - 1) : c[i] = b[i + 1]
    BY <1>1
  <2>2. Pushed(b, p) = Append(c, p)
    BY <1>1 DEF Pushed
  <2> HIDE DEF c
  <2>3. /\ Append(c, p) \in Seq(Nat) /\ Len(Append(c, p)) = L
        /\ Append(c, p)[L] = p
        /\ \A i \in 1..(L - 1) : Append(c, p)[i] = c[i]
    BY <2>1
  <2> QED
    BY <1>1, <2>1, <2>2, <2>3
<1>2. CASE Len(b) # L
  <2>1. Pushed(b, p) = Append(b, p)
    BY <1>2 DEF Pushed
  <2>2. /\ Append(b, p) \in Seq(Nat) /\ Len(Append(b, p)) = Len(b) + 1
        /\ Append(b, p)[Len(b) + 1] = p
        /\ \A i \in 1..Len(b) : Append(b, p)[i] = b[i]
    OBVIOUS
  <2> QED
    BY <1>2, <2>1, <2>2
<1> QED
  BY <1>1, <1>2

(* A window is due when the buffer is full, and at once when it has just   *)
(* filled; what falls out of a full buffer has been in a window.           *)
LEMMA ConsumeKeeps ==
  ASSUME Typed, Consumed, Consume
  PROVE  Consumed'
<1> USE Sizes
<1>1. /\ pos + 1 \in 1..Len(metrics)
      /\ metrics[pos + 1].ent \in Ent
      /\ since[metrics[pos + 1].ent] + 1 \in Nat
  <2>1. pos + 1 \in 1..Len(metrics)
    BY DEF Consume, Typed
  <2>2. metrics[pos + 1] \in Sample
    BY <2>1 DEF Typed
  <2>3. metrics[pos + 1].ent \in Ent
    BY <2>2 DEF Sample
  <2> QED
    BY <2>1, <2>3 DEF Typed
<1>2. PICK e, p, q, n :
        p = pos + 1 /\ e = metrics[p].ent /\ q = Pushed(buf[e], p)
        /\ n = since[e] + 1
  OBVIOUS
<1>3. /\ up = "poll" /\ pos' = p /\ UNCHANGED metrics
      /\ buf' = [buf EXCEPT ![e] = q]
      /\ Due(q, n) => /\ since' = [since EXCEPT ![e] = 0]
                      /\ windows' = windows \cup {Window(e, q)}
                      /\ up' = "commit"
      /\ ~Due(q, n) => /\ since' = [since EXCEPT ![e] = n]
                       /\ UNCHANGED windows /\ up' = up
  <2>1. since' = [since EXCEPT ![e] = @ + 1] => since' = [since EXCEPT ![e] = n]
    BY <1>2
  <2> QED
    BY <1>2, <2>1 DEF Consume, topics
<1>4. /\ e \in Ent /\ p \in 1..Len(metrics) /\ n \in Nat /\ pos \in Nat
      /\ buf[e] \in Seq(Nat) /\ since[e] \in Nat
      /\ metrics \in Seq(Sample)
  BY <1>1, <1>2 DEF Typed
<1>5. /\ Len(buf[e]) \in 0..L
      /\ Len(buf[e]) < L => since[e] = Len(buf[e])
      /\ Len(buf[e]) = L =>
           /\ since[e] < Stride
           /\ \A i \in 1..(L - since[e]) : Emitted(buf[e][i])
  BY SMTT(30), <1>4 DEF Consumed, Counted
<1>6. /\ q \in Seq(Nat)
      /\ Len(q) = IF Len(buf[e]) = L THEN L ELSE Len(buf[e]) + 1
      /\ q[Len(q)] = p
      /\ Len(buf[e]) < L => \A i \in 1..Len(buf[e]) : q[i] = buf[e][i]
      /\ Len(buf[e]) = L => \A i \in 1..(L - 1) : q[i] = buf[e][i + 1]
  <2>1. buf[e] \in Seq(Nat) /\ p \in Nat /\ Len(buf[e]) <= L
    BY <1>4, <1>5
  <2>2. Grows(buf[e], p, q)
    BY <2>1, <1>2, PushedRows
  <2> QED
    BY <2>2 DEF Grows
<1>7. \A k : Emitted(k) => Emitted(k)'
  <2>1. windows \subseteq windows'
    BY <1>3
  <2> QED
    BY <2>1 DEF Emitted
<1>8. Due(q, n) => \A k \in ToSet(q) : Emitted(k)'
  <2> SUFFICES ASSUME Due(q, n), NEW k \in ToSet(q) PROVE Emitted(k)'
    OBVIOUS
  <2>1. PICK w : w = Window(e, q)
    OBVIOUS
  <2>2. w \in windows'
    BY <2>1, <1>3
  <2>3. w.rows = q
    BY <2>1 DEF Window
  <2> QED
    BY <2>2, <2>3 DEF Emitted
<1>9. Due(q, n) <=> Len(q) = L /\ n >= Stride
  BY DEF Due
<1>10. buf'[e] = q /\ \A f \in Ent \ {e} : buf'[f] = buf[f] /\ since'[f] = since[f]
  BY <1>3, <1>4 DEF Typed
<1>11. since'[e] = IF Due(q, n) THEN 0 ELSE n
  BY <1>3, <1>4 DEF Typed
<1>12. Fresh'
  BY <1>3 DEF Fresh
<1>13. ASSUME NEW f \in Ent PROVE Counted(f)'
  <2>1. CASE f # e
    <3>1. Counted(f) /\ buf'[f] = buf[f] /\ since'[f] = since[f]
      BY <1>10, <2>1 DEF Consumed
    <3> QED
      BY <3>1, <1>7 DEF Counted
  <2>2. CASE f = e
    <3>1. CASE Due(q, n)
      <4>1. buf'[e] = q /\ since'[e] = 0 /\ Len(q) = L
        BY <3>1, <1>9, <1>10, <1>11
      <4>2. \A i \in 1..L : q[i] \in ToSet(q)
        BY <4>1, <1>6 DEF ToSet
      <4>3. \A i \in 1..L : Emitted(q[i])'
        BY <4>2, <1>8, <3>1
      <4> QED
        BY <4>1, <4>3, <2>2 DEF Counted
    <3>2. CASE ~Due(q, n) /\ Len(buf[e]) = L
      <4>1. buf'[e] = q /\ since'[e] = n /\ Len(q) = L /\ n < Stride
        BY <3>2, <1>4, <1>6, <1>9, <1>10, <1>11
      <4>2. ASSUME NEW i \in 1..(L - n) PROVE Emitted(q[i])'
        <5>1. i + 1 \in 1..(L - since[e]) /\ i \in 1..(L - 1)
          <6>1. PICK m \in Nat : m = since[e] /\ n = m + 1
            BY <1>2, <1>4
          <6>2. i + 1 \in 1..(L - m) /\ i \in 1..(L - 1)
            BY <6>1
          <6> QED
            BY <6>1, <6>2
        <5>2. q[i] = buf[e][i + 1] /\ Emitted(buf[e][i + 1])
          BY <5>1, <3>2, <1>5, <1>6
        <5> QED
          BY <5>2, <1>7
      <4> QED
        BY <4>1, <4>2, <2>2 DEF Counted
    <3>3. CASE ~Due(q, n) /\ Len(buf[e]) < L
      <4>1. buf'[e] = q /\ since'[e] = n /\ Len(q) = n
        <5>1. Len(q) = Len(buf[e]) + 1 /\ since[e] = Len(buf[e])
          BY <3>3, <1>5, <1>6
        <5> QED
          BY <3>3, <5>1, <1>2, <1>10, <1>11
      <4>2. Len(q) < L
        <5>1. PICK m : m = Len(buf[e])
          OBVIOUS
        <5>2. m \in 0..L /\ m < L
          BY <5>1, <3>3, <1>5
        <5>3. Len(q) = m + 1
          BY <5>1, <5>2, <1>6
        <5>4. Len(q) # L
          BY <3>3, <4>1, <5>2, <5>3, <1>9
        <5> QED
          BY <5>2, <5>3, <5>4
      <4> QED
        BY <4>1, <4>2, <2>2 DEF Counted
    <3> QED
      BY <3>1, <3>2, <3>3, <1>5
  <2> QED
    BY <2>1, <2>2
<1>14. ASSUME NEW k \in 1..pos' PROVE Used(k)'
  <2> DEFINE f == metrics[k].ent
  <2>1. CASE k = p
    <3>1. p \in ToSet(q)
      <4>1. Len(q) \in 1..Len(q)
        BY <1>5, <1>6
      <4> QED
        BY <4>1, <1>6 DEF ToSet
    <3> QED
      BY <3>1, <2>1, <1>2, <1>3, <1>10 DEF Used
  <2>2. CASE k # p
    <3>1. k \in 1..pos /\ Used(k)
      BY <2>2, <1>2, <1>3, <1>4 DEF Consumed
    <3>2. f \in Ent
      <4>1. metrics[k] \in Sample
        BY <3>1, <1>1, <1>4
      <4> QED
        BY <4>1 DEF Sample
    <3>3. CASE Emitted(k)
      BY <3>3, <1>7 DEF Used
    <3>4. CASE k \in ToSet(buf[f]) /\ f # e
      BY <3>2, <3>4, <1>3, <1>10 DEF Used
    <3>5. CASE k \in ToSet(buf[e]) /\ f = e
      <4>1. PICK i \in 1..Len(buf[e]) : k = buf[e][i]
        BY <3>5, <1>4 DEF ToSet
      <4>2. CASE Len(buf[e]) < L
        <5>1. i \in 1..Len(q) /\ q[i] = k
          BY SMTT(30), <4>1, <4>2, <1>5, <1>6
        <5>2. k \in ToSet(q)
          BY SMTT(30), <5>1, <1>6 DEF ToSet
        <5> QED
          BY <5>2, <3>5, <1>3, <1>10 DEF Used
      <4>3. CASE Len(buf[e]) = L /\ i = 1
        <5>1. 1 \in 1..(L - since[e])
          BY <4>3, <1>4, <1>5
        <5>2. Emitted(k)
          BY <5>1, <4>1, <4>3, <1>5
        <5> QED
          BY <5>2, <1>7 DEF Used
      <4>4. CASE Len(buf[e]) = L /\ i # 1
        <5>1. i - 1 \in 1..(L - 1) /\ (i - 1) + 1 = i
          BY <4>1, <4>4
        <5>2. Len(q) = L /\ q[i - 1] = k
          <6>1. PICK j : j = i - 1
            OBVIOUS
          <6>2. q[j] = buf[e][j + 1]
            BY <5>1, <6>1, <4>4, <1>6
          <6> QED
            BY <5>1, <6>1, <6>2, <4>1, <4>4, <1>6
        <5>3. i - 1 \in DOMAIN q
          BY SMTT(30), <5>1, <5>2, <1>6
        <5>4. k \in ToSet(q)
          BY <5>2, <5>3 DEF ToSet
        <5> QED
          BY <5>4, <3>5, <1>3, <1>10 DEF Used
      <4> QED
        BY <4>2, <4>3, <4>4, <1>5
    <3> QED
      BY <3>1, <3>3, <3>4, <3>5 DEF Used
  <2> QED
    BY <2>1, <2>2
<1> QED
  BY <1>12, <1>13, <1>14 DEF Consumed

-----------------------------------------------------------------------------
(* Every step keeps the types.                                             *)

LEMMA TypedNext ==
  ASSUME Typed, [Next]_vars
  PROVE  Typed'
<1> USE Sizes
<1>1. ASSUME Elsewhere PROVE Typed'
  BY <1>1 DEF Elsewhere, Typed, consumer
<1>2. ASSUME NEW p, Cycle(p) PROVE Typed'
  <2>1. now \in Nat /\ metrics \in Seq(Sample)
    BY DEF Typed
  <2>2. p \in Seq(Samples(now + 1)) /\ now + 1 \in Nat
    BY <1>2, <2>1 DEF Cycle
  <2>3. \A i \in 1..Len(p) : p[i] \in Sample
    BY <2>2, SeqElements, SamplesGrow
  <2>4. p \in Seq(Sample)
    BY <2>2, <2>3, SeqSubset
  <2>5. metrics \o p \in Seq(Sample) /\ Len(metrics \o p) = Len(metrics) + Len(p)
        /\ Len(metrics) \in Nat /\ Len(p) \in Nat
    BY <2>1, <2>4, SeqAppended
  <2>6. metrics' \in Seq(Sample) /\ Len(metrics) <= Len(metrics')
    BY <1>2, <2>5 DEF Cycle
  <2>7. retries' \in Nat
    BY SMTT(30), <1>2 DEF Cycle, Typed
  <2>8. UNCHANGED consumer /\ now' = now + 1
    BY <1>2 DEF Cycle
  <2> QED
    BY <2>2, <2>5, <2>6, <2>7, <2>8 DEF Typed, consumer
<1>3. ASSUME Start PROVE Typed'
  <2>1. /\ up' = "poll" /\ pos' = committed
        /\ buf' = [e \in Ent |-> <<>>] /\ since' = [e \in Ent |-> 0]
        /\ UNCHANGED <<now, metrics, committed, crashes, retries>>
    BY <1>3 DEF Start, bridge, producer, topics
  <2> QED
    BY <2>1 DEF Typed
<1>4. ASSUME Consume PROVE Typed'
  <2> DEFINE e == metrics[pos + 1].ent
  <2>1. pos + 1 \in 1..Len(metrics)
    BY <1>4 DEF Consume, Typed
  <2>2. metrics[pos + 1] \in Sample
    BY <2>1 DEF Typed
  <2>3. e \in Ent
    BY <2>2 DEF Sample
  <2>4. buf[e] \in Seq(Nat) /\ since[e] \in Nat /\ pos + 1 \in Nat
    BY <2>1, <2>3 DEF Typed
  <2>5. PICK q : q = Pushed(buf[e], pos + 1)
    OBVIOUS
  <2>6. q \in Seq(Nat)
    <3> DEFINE b == buf[e]
    <3>1. b \in Seq(Nat)
      BY <2>4
    <3> HIDE DEF b
    <3>2. Append(b, pos + 1) \in Seq(Nat)
      BY <3>1, <2>4
    <3>3. Len(b) = L => Append(Tail(b), pos + 1) \in Seq(Nat)
      <4> SUFFICES ASSUME Len(b) = L PROVE Append(Tail(b), pos + 1) \in Seq(Nat)
        OBVIOUS
      <4>1. Tail(b) \in Seq(Nat)
        BY <3>1
      <4> QED
        BY <4>1, <2>4
    <3>4. q = Pushed(b, pos + 1)
      BY <2>5 DEF b
    <3> QED
      BY <3>2, <3>3, <3>4 DEF Pushed
  <2>7. /\ pos' = pos + 1 /\ buf' = [buf EXCEPT ![e] = q]
        /\ \/ since' = [since EXCEPT ![e] = 0]
           \/ since' = [since EXCEPT ![e] = @ + 1]
        /\ up' \in {"poll", "commit"}
        /\ UNCHANGED <<now, metrics, committed, crashes, retries>>
    BY <1>4, <2>5 DEF Consume, bridge, producer, topics
  <2> HIDE DEF e
  <2>8. buf' \in [Ent -> Seq(Nat)]
    BY <2>3, <2>6, <2>7 DEF Typed
  <2>9. since' \in [Ent -> Nat]
    <3>1. since \in [Ent -> Nat]
      BY DEF Typed
    <3>2. CASE since' = [since EXCEPT ![e] = 0]
      BY <2>3, <3>1, <3>2
    <3>3. CASE since' = [since EXCEPT ![e] = @ + 1]
      <4>1. since[e] + 1 \in Nat
        BY <2>3, <3>1
      <4> QED
        BY <2>3, <3>1, <3>3, <4>1
    <3> QED
      BY <2>7, <3>2, <3>3
  <2> QED
    BY <2>1, <2>7, <2>8, <2>9 DEF Typed
<1>5. ASSUME Commit PROVE Typed'
  BY <1>5 DEF Commit, Typed, bridge, producer, topics
<1>6. ASSUME CrashConsumer PROVE Typed'
  <2>1. /\ up' = "down" /\ crashes' = crashes + 1
        /\ buf' = [e \in Ent |-> <<>>] /\ since' = [e \in Ent |-> 0]
        /\ UNCHANGED <<now, metrics, pos, committed, retries>>
    BY <1>6 DEF CrashConsumer, bridge, producer, topics
  <2> QED
    BY <2>1 DEF Typed
<1> QED
  BY <1>1, <1>2, <1>3, <1>4, <1>5, <1>6, Steps DEF Typed

-----------------------------------------------------------------------------
(* Every step of a consumer that has not crashed keeps what it knows.      *)

LEMMA ConsumedNext ==
  ASSUME Typed, Consumed, [Next]_vars, crashes = 0, crashes' = 0
  PROVE  Consumed'
<1> USE Sizes
<1>1. ASSUME UNCHANGED consumer, \A k \in 1..pos : metrics'[k] = metrics[k]
      PROVE  Consumed'
  <2>1. Fresh'
    BY <1>1 DEF Consumed, Fresh, consumer
  <2>2. \A k : Emitted(k)' <=> Emitted(k)
    BY <1>1 DEF Emitted, consumer
  <2>3. ASSUME NEW e \in Ent PROVE Counted(e)'
    <3>1. Counted(e) /\ buf' = buf /\ since' = since
      BY <1>1 DEF Consumed, consumer
    <3> QED
      BY <2>2, <3>1 DEF Counted
  <2>4. ASSUME NEW k \in 1..pos' PROVE Used(k)'
    <3>1. k \in 1..pos /\ Used(k) /\ buf' = buf /\ metrics'[k] = metrics[k]
      BY <1>1 DEF Consumed, consumer
    <3> QED
      BY <2>2, <3>1 DEF Used
  <2> QED
    BY <2>1, <2>3, <2>4 DEF Consumed
<1>2. CASE Elsewhere
  <2>1. UNCHANGED consumer /\ metrics' = metrics
    BY <1>2 DEF Elsewhere
  <2> QED
    BY <1>1, <2>1
<1>3. ASSUME NEW p, Cycle(p) PROVE Consumed'
  <2>1. UNCHANGED consumer /\ metrics' = metrics \o p
    BY <1>3 DEF Cycle
  <2>2. metrics \in Seq(Sample) /\ p \in Seq(Samples(now + 1)) /\ now + 1 \in Nat
        /\ pos \in 0..Len(metrics)
    BY <1>3 DEF Typed, Cycle
  <2>3. \A i \in 1..Len(p) : p[i] \in Sample
    BY <2>2, SeqElements, SamplesGrow
  <2>4. p \in Seq(Sample)
    BY <2>2, <2>3, SeqSubset
  <2>5. Len(metrics) \in Nat /\ \A k \in 1..Len(metrics) : (metrics \o p)[k] = metrics[k]
    BY <2>2, <2>4, SeqAppended
  <2>6. \A k \in 1..pos : metrics'[k] = metrics[k]
    BY <2>1, <2>2, <2>5
  <2> QED
    BY <1>1, <2>1, <2>6
<1>4. CASE Start
  <2>1. pos = 0 /\ committed = 0
    BY <1>4 DEF Start, Consumed, Fresh, Typed
  <2>2. /\ up' = "poll" /\ pos' = 0
        /\ buf' = [e \in Ent |-> <<>>] /\ since' = [e \in Ent |-> 0]
    BY <1>4, <2>1 DEF Start
  <2>3. Fresh'
    BY <2>2 DEF Fresh
  <2>4. \A e \in Ent : Counted(e)'
    BY <2>2 DEF Counted
  <2>5. \A k \in 1..pos' : Used(k)'
    BY <2>2
  <2> QED
    BY <2>3, <2>4, <2>5 DEF Consumed
<1>5. CASE Consume
  BY <1>5, ConsumeKeeps
<1>6. CASE Commit
  <2>1. /\ up' = "poll"
        /\ UNCHANGED <<metrics, pos, buf, since, windows>>
    BY <1>6 DEF Commit, topics
  <2>2. Fresh'
    BY <2>1 DEF Fresh
  <2>3. \A k : Emitted(k)' <=> Emitted(k)
    BY <2>1 DEF Emitted
  <2>4. ASSUME NEW e \in Ent PROVE Counted(e)'
    BY <2>1, <2>3 DEF Consumed, Counted
  <2>5. ASSUME NEW k \in 1..pos' PROVE Used(k)'
    BY <2>1, <2>3 DEF Consumed, Used
  <2> QED
    BY <2>2, <2>4, <2>5 DEF Consumed
<1>7. CASE CrashConsumer
  BY <1>7 DEF CrashConsumer, Typed
<1> QED
  BY <1>2, <1>3, <1>4, <1>5, <1>6, <1>7, Steps DEF Typed

LEMMA InvNext ==
  ASSUME Inv, [Next]_vars
  PROVE  Inv'
<1>1. Typed'
  BY TypedNext DEF Inv
<1>2. crashes' = 0 => crashes = 0
  <2>1. CASE CrashConsumer
    BY <2>1 DEF CrashConsumer, Inv, Typed
  <2>2. CASE ~CrashConsumer
    BY <2>2, Steps DEF Inv, Typed, Elsewhere, Cycle, Start, Consume, Commit, consumer
  <2> QED
    BY <2>1, <2>2
<1>3. crashes' = 0 => Consumed'
  BY <1>2, ConsumedNext DEF Inv
<1> QED
  BY <1>1, <1>3 DEF Inv

(* A consumer that has not crashed has used, or still holds, every row     *)
(* below the offset it has committed, for any series, window length,       *)
(* stride and schedule of the bridge.                                      *)
THEOREM CommittedRows == Spec => []CommittedRowsAreUsed
<1>1. Inv => CommittedRowsAreUsed
  <2> SUFFICES ASSUME Inv, crashes = 0, NEW k \in 1..committed
               PROVE  Used(k)
    BY DEF CommittedRowsAreUsed, Used, Emitted
  <2>1. k \in 1..pos
    BY DEF Inv, Typed
  <2> QED
    BY <2>1 DEF Inv, Consumed
<1> QED
  BY <1>1, InitInv, InvNext, PTL DEF Spec

-----------------------------------------------------------------------------
(* How often a row is in a sequence.                                       *)

LEMMA TimesIsNat ==
  ASSUME NEW S, NEW s \in Seq(S), NEW x
  PROVE  /\ Times(s, x) \in Nat
         /\ IsFiniteSet({i \in 1..Len(s) : s[i] = x})
<1> DEFINE A == {i \in 1..Len(s) : s[i] = x}
<1>1. IsFiniteSet(1..Len(s))
  <2>1. Len(s) \in Int
    OBVIOUS
  <2> QED
    BY <2>1, FS_Interval
<1>2. A \subseteq 1..Len(s)
  OBVIOUS
<1>3. Times(s, x) = Cardinality(A)
  BY DEF Times
<1> HIDE DEF A
<1>4. IsFiniteSet(A) /\ Times(s, x) \in Nat
  BY <1>1, <1>2, <1>3, FS_Subset, FS_CardinalityType
<1> QED
  BY <1>4 DEF A

LEMMA TimesConcat ==
  ASSUME NEW S, NEW s \in Seq(S), NEW t \in Seq(S), NEW x
  PROVE  Times(s \o t, x) = Times(s, x) + Times(t, x)
<1> DEFINE A == {i \in 1..Len(s) : s[i] = x}
           B == {i \in 1..Len(t) : t[i] = x}
           C == {i \in 1..Len(s \o t) : (s \o t)[i] = x}
           D == C \ A
<1>1. PICK a, b \in Nat : a = Len(s) /\ b = Len(t)
  BY SeqElements
<1>2. /\ Len(s \o t) = a + b
      /\ \A i \in 1..a : (s \o t)[i] = s[i]
      /\ \A i \in 1..b : (s \o t)[a + i] = t[i]
  BY <1>1
<1>3. Times(s, x) = Cardinality(A) /\ Times(t, x) = Cardinality(B)
      /\ Times(s \o t, x) = Cardinality(C)
  BY DEF Times
<1>4. IsFiniteSet(A) /\ IsFiniteSet(B)
  BY TimesIsNat
<1>5. A \subseteq C
  BY <1>1, <1>2
<1>6. \A i \in D : i - a \in B /\ a + (i - a) = i
  <2> SUFFICES ASSUME NEW i \in D PROVE i - a \in B /\ a + (i - a) = i
    OBVIOUS
  <2>1. i \in 1..(a + b) /\ (s \o t)[i] = x /\ ~(i \in 1..a /\ s[i] = x)
    BY <1>1, <1>2
  <2>2. i \notin 1..a
    BY <2>1, <1>2
  <2>3. PICK j \in 1..b : j = i - a /\ i = a + j
    <3>1. i - a \in 1..b /\ i = a + (i - a)
      BY <2>1, <2>2
    <3> QED
      BY <3>1
  <2> QED
    BY <2>1, <2>3, <1>1, <1>2
<1>7. \A j \in B : a + j \in D
  BY <1>1, <1>2
<1>8. PICK f : f = [j \in B |-> a + j]
  OBVIOUS
<1>9. f \in Bijection(B, D)
  <2>1. f \in [B -> D]
    BY <1>7, <1>8
  <2>2. \A i, j \in B : f[i] = f[j] => i = j
    BY <1>8
  <2>3. \A i \in D : \E j \in B : f[j] = i
    BY <1>6, <1>8
  <2> HIDE DEF B, D
  <2>4. f \in Injection(B, D) /\ f \in Surjection(B, D)
    BY <2>1, <2>2, <2>3 DEF Injection, Surjection, IsInjective
  <2> QED
    BY <2>4 DEF Bijection
<1>10. C = A \cup D /\ A \cap D = {}
  BY <1>5
<1> HIDE DEF A, B, C, D
<1>11. IsFiniteSet(D) /\ Cardinality(D) = Cardinality(B)
  BY <1>4, <1>9, FS_Bijection DEF ExistsBijection
<1>12. Cardinality(C) = Cardinality(A) + Cardinality(D)
  <2>1. Cardinality(C) = Cardinality(A) + Cardinality(D) - 0
    BY <1>4, <1>10, <1>11, FS_Union, FS_EmptySet
  <2> QED
    BY <2>1, <1>4, <1>11, FS_CardinalityType
<1> QED
  BY <1>3, <1>11, <1>12

(* What occurs at most once counts for at most one.                        *)
LEMMA TimesAtMostOnce ==
  ASSUME NEW S, NEW s \in Seq(S), NEW x,
         \A i, j \in 1..Len(s) : s[i] = x /\ s[j] = x => i = j
  PROVE  Times(s, x) = IF x \in ToSet(s) THEN 1 ELSE 0
<1> DEFINE A == {i \in 1..Len(s) : s[i] = x}
<1>1. Times(s, x) = Cardinality(A)
  BY DEF Times
<1>2. CASE x \in ToSet(s)
  <2>1. PICK i \in 1..Len(s) : s[i] = x
    BY <1>2 DEF ToSet
  <2>2. A = {i}
    BY <2>1
  <2> QED
    BY <1>1, <1>2, <2>2, FS_Singleton
<1>3. CASE x \notin ToSet(s)
  <2>1. A = {}
    BY <1>3 DEF ToSet
  <2> QED
    BY <1>1, <1>3, <2>1, FS_EmptySet
<1> QED
  BY <1>2, <1>3

(* A row is put at the end.                                                *)
OneMore(s, r, k) ==
  /\ Len(r) = Len(s) + 1 /\ r[Len(s) + 1] = k
  /\ \A i \in 1..Len(s) : r[i] = s[i]
  /\ ToSet(s) \cup {k} \subseteq ToSet(r)
  /\ \A x : Times(r, x) = Times(s, x) + IF x = k THEN 1 ELSE 0

LEMMA AppendedRow ==
  ASSUME NEW S, NEW s \in Seq(S), NEW k \in S, NEW r, r = Append(s, k)
  PROVE  r \in Seq(S) /\ OneMore(s, r, k)
<1>1. PICK n \in Nat : n = Len(s)
  BY SeqElements
<1>2. /\ r \in Seq(S) /\ Len(r) = n + 1 /\ r[n + 1] = k
      /\ \A i \in 1..n : r[i] = s[i]
  BY <1>1
<1>3. ToSet(s) \cup {k} \subseteq ToSet(r)
  <2>1. \A i \in 1..(n + 1) : r[i] \in ToSet(r)
    BY <1>2 DEF ToSet
  <2>2. \A y \in ToSet(s) : \E i \in 1..n : y = s[i]
    BY <1>1 DEF ToSet
  <2>3. n + 1 \in 1..(n + 1) /\ 1..n \subseteq 1..(n + 1)
    OBVIOUS
  <2> QED
    BY <1>2, <2>1, <2>2, <2>3
<1>4. ASSUME NEW x PROVE Times(r, x) = Times(s, x) + IF x = k THEN 1 ELSE 0
  <2>1. PICK t : t = <<k>>
    OBVIOUS
  <2>2. t \in Seq(S) /\ Len(t) = 1 /\ t[1] = k /\ r = s \o t
    BY <2>1
  <2>3. x \in ToSet(t) <=> x = k
    BY <2>2 DEF ToSet
  <2>4. Times(t, x) = IF x \in ToSet(t) THEN 1 ELSE 0
    BY <2>2, TimesAtMostOnce
  <2> QED
    BY <2>2, <2>3, <2>4, TimesConcat
<1> QED
  BY <1>1, <1>2, <1>3, <1>4 DEF OneMore

(* The place in s of what stands at j when the row at i is gone.           *)
Behind(i, j) == IF j < i THEN j ELSE j + 1

OneLess(s, r, i) ==
  /\ Len(r) = Len(s) - 1
  /\ \A j \in 1..Len(r) :
       Behind(i, j) \in 1..Len(s) /\ Behind(i, j) # i /\ r[j] = s[Behind(i, j)]
  /\ ToSet(s) \subseteq ToSet(r) \cup {s[i]}
  /\ \A x : Times(s, x) = Times(r, x) + IF x = s[i] THEN 1 ELSE 0

LEMMA RemovedRow ==
  ASSUME NEW S, NEW s \in Seq(S), NEW i \in 1..Len(s), NEW r, r = RemoveAt(s, i)
  PROVE  r \in Seq(S) /\ OneLess(s, r, i)
<1>1. PICK n \in Nat : n = Len(s) /\ i \in 1..n
  BY SeqElements
<1>2. PICK a, b, c : a = SubSeq(s, 1, i - 1) /\ b = SubSeq(s, i + 1, n) /\ c = <<s[i]>>
  OBVIOUS
<1>3. /\ a \in Seq(S) /\ Len(a) = i - 1 /\ \A j \in 1..(i - 1) : a[j] = s[j]
  BY <1>1, <1>2
<1>4. /\ b \in Seq(S) /\ Len(b) = n - i /\ \A j \in 1..(n - i) : b[j] = s[i + j]
  <2>1. b \in Seq(S) /\ Len(b) = n - i
    BY <1>1, <1>2
  <2>2. ASSUME NEW j \in 1..(n - i) PROVE b[j] = s[i + j]
    <3>1. j \in 1..(n - (i + 1) + 1) /\ (i + 1) + j - 1 = i + j
      BY <1>1
    <3>2. b[j] = s[(i + 1) + j - 1]
      BY <3>1, <1>1, <1>2
    <3> QED
      BY <3>1, <3>2
  <2> QED
    BY <2>1, <2>2
<1>5. c \in Seq(S) /\ Len(c) = 1 /\ c[1] = s[i]
  BY <1>1, <1>2
<1>6. r = a \o b
  BY <1>1, <1>2 DEF RemoveAt
<1>7. r \in Seq(S) /\ Len(r) = n - 1
      /\ (\A j \in 1..(i - 1) : r[j] = a[j])
      /\ \A j \in i..(n - 1) : r[j] = b[j - (i - 1)]
  <2>1. r \in Seq(S) /\ Len(r) = Len(a) + Len(b)
        /\ (\A j \in 1..Len(a) : r[j] = a[j])
        /\ \A j \in (Len(a) + 1)..(Len(a) + Len(b)) : r[j] = b[j - Len(a)]
    <3>1. a \in Seq(S) /\ b \in Seq(S)
      BY <1>3, <1>4
    <3>2. r \in Seq(S) /\ Joined(r, a, b)
      BY <3>1, <1>6, SeqJoined, Zenon
    <3> QED
      BY <3>2 DEF Joined
  <2>2. Len(a) + Len(b) = n - 1 /\ Len(a) + 1 = i
    BY <1>1, <1>3, <1>4
  <2> QED
    BY <2>1, <2>2, <1>3
<1>8. ASSUME NEW j \in 1..(n - 1)
      PROVE  Behind(i, j) \in 1..n /\ Behind(i, j) # i /\ r[j] = s[Behind(i, j)]
  <2>1. CASE j < i
    <3>1. j \in 1..(i - 1)
      BY <2>1
    <3> QED
      BY <2>1, <3>1, <1>1, <1>3, <1>7 DEF Behind
  <2>2. CASE j >= i
    <3>1. PICK l \in 1..(n - i) : l = j - (i - 1)
      <4>1. j - (i - 1) \in 1..(n - i)
        BY <2>2, <1>1
      <4> QED
        BY <4>1
    <3>2. r[j] = b[l] /\ b[l] = s[i + l]
      <4>1. j \in i..(n - 1)
        BY <2>2, <1>1
      <4> QED
        BY <3>1, <4>1, <1>4, <1>7
    <3>3. i + l = j + 1
      BY <3>1, <1>1
    <3> QED
      BY <2>2, <3>2, <3>3, <1>1 DEF Behind
  <2> QED
    BY <2>1, <2>2, <1>1
<1>9. ASSUME NEW m \in 1..n, m # i PROVE \E j \in 1..(n - 1) : r[j] = s[m]
  <2>1. CASE m < i
    <3>1. m \in 1..(n - 1) /\ Behind(i, m) = m
      BY <2>1, <1>1 DEF Behind
    <3> QED
      BY <3>1, <1>8
  <2>2. CASE m > i
    <3>1. PICK j \in 1..(n - 1) : m = j + 1
      <4>1. m - 1 \in 1..(n - 1) /\ m = (m - 1) + 1
        BY <2>2, <1>1
      <4> QED
        BY <4>1
    <3>2. Behind(i, j) = m
      BY <3>1, <2>2 DEF Behind
    <3> QED
      BY <3>2, <1>8
  <2> QED
    BY <1>9, <2>1, <2>2, <1>1
<1>10. ToSet(s) \subseteq ToSet(r) \cup {s[i]}
  <2> SUFFICES ASSUME NEW x \in ToSet(s), x # s[i] PROVE x \in ToSet(r)
    OBVIOUS
  <2>1. PICK m \in 1..n : x = s[m]
    BY <1>1 DEF ToSet
  <2>2. PICK j \in 1..(n - 1) : r[j] = s[m]
    BY <2>1, <1>9
  <2> QED
    BY <2>1, <2>2, <1>7 DEF ToSet
<1>11. ASSUME NEW x PROVE Times(s, x) = Times(r, x) + IF x = s[i] THEN 1 ELSE 0
  <2>1. s = (a \o c) \o b
    <3>1. PICK d : d = a \o c
      OBVIOUS
    <3>2. /\ d \in Seq(S) /\ Len(d) = i /\ d[i] = s[i]
          /\ \A j \in 1..(i - 1) : d[j] = s[j]
      <4>1. d \in Seq(S) /\ Len(d) = Len(a) + Len(c)
            /\ (\A j \in 1..Len(a) : d[j] = a[j])
            /\ \A j \in (Len(a) + 1)..(Len(a) + Len(c)) : d[j] = c[j - Len(a)]
        <5>1. a \in Seq(S) /\ c \in Seq(S)
          BY <1>3, <1>5
        <5>2. d \in Seq(S) /\ Joined(d, a, c)
          BY <5>1, <3>1, SeqJoined, Zenon
        <5> QED
          BY <5>2 DEF Joined
      <4>2. Len(a) + 1 = i /\ Len(a) + Len(c) = i /\ i - Len(a) = 1
        BY <1>1, <1>3, <1>5
      <4>3. i \in (Len(a) + 1)..(Len(a) + Len(c))
        BY <4>2, <1>1
      <4> QED
        BY <4>1, <4>2, <4>3, <1>3, <1>5
    <3>3. PICK e : e = d \o b
      OBVIOUS
    <3>4. /\ e \in Seq(S) /\ Len(e) = n
          /\ \A j \in 1..i : e[j] = d[j]
          /\ \A j \in (i + 1)..n : e[j] = b[j - i]
      <4>1. e \in Seq(S) /\ Len(e) = Len(d) + Len(b)
            /\ (\A j \in 1..Len(d) : e[j] = d[j])
            /\ \A j \in (Len(d) + 1)..(Len(d) + Len(b)) : e[j] = b[j - Len(d)]
        <5>1. d \in Seq(S) /\ b \in Seq(S)
          BY <3>2, <1>4
        <5>2. e \in Seq(S) /\ Joined(e, d, b)
          BY <5>1, <3>3, SeqJoined, Zenon
        <5> QED
          BY <5>2 DEF Joined
      <4>2. Len(d) + Len(b) = n
        BY <3>2, <1>1, <1>4
      <4> QED
        BY <4>1, <4>2, <3>2
    <3>5. ASSUME NEW j \in 1..n PROVE e[j] = s[j]
      <4>1. CASE j < i
        <5>1. j \in 1..i /\ j \in 1..(i - 1)
          BY <4>1, <1>1
        <5> QED
          BY <5>1, <3>2, <3>4
      <4>2. CASE j = i
        <5>1. j \in 1..i
          BY <4>2, <1>1
        <5> QED
          BY <5>1, <4>2, <3>2, <3>4
      <4>3. CASE j > i
        <5>1. PICK l \in 1..(n - i) : l = j - i /\ i + l = j
          <6>1. j - i \in 1..(n - i) /\ i + (j - i) = j
            BY <4>3, <1>1
          <6> QED
            BY <6>1
        <5>2. j \in (i + 1)..n
          BY <4>3, <1>1
        <5> QED
          BY <5>1, <5>2, <3>4, <1>4
      <4> QED
        BY <4>1, <4>2, <4>3, <1>1
    <3>6. e = s
      <4>1. Len(e) = Len(s) /\ \A j \in 1..Len(e) : e[j] = s[j]
        BY <3>4, <3>5, <1>1
      <4> QED
        BY <4>1, <3>4, SeqEqual, Zenon
    <3> QED
      BY <3>1, <3>3, <3>6
  <2>2. a \o c \in Seq(S)
    BY <1>3, <1>5, SeqAppended
  <2>3. Times(s, x) = Times(a, x) + Times(c, x) + Times(b, x)
    <3>1. PICK d : d = a \o c
      OBVIOUS
    <3>2. Times(d, x) = Times(a, x) + Times(c, x)
      BY <3>1, <1>3, <1>5, TimesConcat
    <3>3. Times(d \o b, x) = Times(d, x) + Times(b, x)
      BY <3>1, <2>2, <1>4, TimesConcat
    <3>4. s = d \o b
      BY <2>1, <3>1
    <3> QED
      BY <3>2, <3>3, <3>4
  <2>4. Times(r, x) = Times(a, x) + Times(b, x)
    BY <1>3, <1>4, <1>6, TimesConcat
  <2>5. Times(c, x) = IF x = s[i] THEN 1 ELSE 0
    <3>1. x \in ToSet(c) <=> x = s[i]
      BY <1>5 DEF ToSet
    <3>2. Times(c, x) = IF x \in ToSet(c) THEN 1 ELSE 0
      BY <1>5, TimesAtMostOnce
    <3> QED
      BY <3>1, <3>2
  <2>6. Times(a, x) \in Nat /\ Times(b, x) \in Nat
    BY <1>3, <1>4, TimesIsNat
  <2> QED
    BY <2>3, <2>4, <2>5, <2>6
<1> QED
  BY <1>1, <1>7, <1>8, <1>10, <1>11 DEF OneLess

-----------------------------------------------------------------------------
(* The label rows between two offsets.                                     *)

(* Between two offsets lie the rows that begin after the first and end     *)
(* before the second.                                                      *)
LEMMA WholeRowsBetween ==
  ASSUME NEW from \in Nat, NEW to \in Nat, from <= to
  PROVE  /\ WholeRows(from, to) \in Seq(Nat)
         /\ \A k \in Nat : 2 * k <= to /\ 2 * k > from + 1 =>
              k \in ToSet(WholeRows(from, to))
<1>1. PICK before : before = (from + 1) \div 2
  OBVIOUS
<1>2. PICK count : count = (to \div 2) - before
  OBVIOUS
<1>3. before \in Nat /\ count \in Int /\ 2 * before <= from + 1
      /\ count + before = (to \div 2)
  BY <1>1, <1>2
<1>4. WholeRows(from, to) = [n \in 1..count |-> before + n]
  BY <1>1, <1>2 DEF WholeRows
<1>5. WholeRows(from, to) \in Seq(Nat)
  <2>1. CASE count >= 0
    BY <2>1, <1>3, <1>4
  <2>2. CASE count < 0
    <3>1. 1..count = 1..0
      BY <2>2, <1>3
    <3>2. WholeRows(from, to) \in [1..0 -> Nat]
      BY <3>1, <1>3, <1>4
    <3> QED
      BY <3>2
  <2> QED
    BY <2>1, <2>2, <1>3
<1>6. WholeRows(from, to) \in Seq(Nat)
      /\ DOMAIN WholeRows(from, to) = 1..count
  BY <1>4, <1>5
<1>7. ASSUME NEW k \in Nat, 2 * k <= to, 2 * k > from + 1
      PROVE  k \in ToSet(WholeRows(from, to))
  <2>1. k <= (to \div 2)
    BY <1>7
  <2>2. k > before
    BY <1>7, <1>3
  <2>3. k - before \in 1..count
    BY <2>1, <2>2, <1>3
  <2>4. WholeRows(from, to)[k - before] = k
    BY <2>3, <1>3, <1>4
  <2> QED
    BY <2>3, <2>4, <1>6 DEF ToSet
<1> QED
  BY <1>6, <1>7

(* Rows that follow one another and lie whole between two offsets.         *)
Consecutive(s, from, to) ==
  /\ s \in Seq(Nat)
  /\ \A i, j \in 1..Len(s) : s[i] = s[j] => i = j
  /\ \A i, j \in 1..Len(s) : i < j => s[i] < s[j]
  /\ \A i \in 1..Len(s) : 2 * s[i] > from + 1 /\ 2 * s[i] <= to

LEMMA WholeRowsConsecutive ==
  ASSUME NEW from \in Nat, NEW to \in Nat, from <= to
  PROVE  Consecutive(WholeRows(from, to), from, to)
<1>1. PICK before : before = (from + 1) \div 2
  OBVIOUS
<1>2. PICK count : count = (to \div 2) - before
  OBVIOUS
<1>3. before \in Nat /\ count \in Int /\ 2 * before >= from
      /\ count + before = (to \div 2) /\ 2 * (count + before) <= to
  BY <1>1, <1>2
<1>4. WholeRows(from, to) = [n \in 1..count |-> before + n]
  BY <1>1, <1>2 DEF WholeRows
<1>5. PICK s : s = WholeRows(from, to)
  OBVIOUS
<1>6. s \in Seq(Nat)
  BY <1>5, WholeRowsBetween
<1>7. 1..Len(s) = 1..count
  <2>1. DOMAIN s = 1..count
    BY <1>4, <1>5
  <2>2. DOMAIN s = 1..Len(s)
    BY <1>6
  <2> QED
    BY <2>1, <2>2
<1>8. \A i \in 1..Len(s) : s[i] = before + i
  BY <1>4, <1>5, <1>7
<1>9. \A i \in 1..Len(s) : 2 * s[i] > from + 1 /\ 2 * s[i] <= to
  <2> SUFFICES ASSUME NEW i \in 1..Len(s)
               PROVE  2 * s[i] > from + 1 /\ 2 * s[i] <= to
    OBVIOUS
  <2>1. i \in Int /\ 1 <= i /\ i <= count
    BY <1>7, <1>3
  <2> QED
    BY <2>1, <1>8, <1>3
<1>10. \A i, j \in 1..Len(s) : s[i] = s[j] => i = j
  BY <1>8, <1>3, <1>7
<1>11. \A i, j \in 1..Len(s) : i < j => s[i] < s[j]
  BY <1>8, <1>3, <1>7
<1> QED
  BY <1>5, <1>6, <1>9, <1>10, <1>11 DEF Consecutive

LEMMA FirstRowsConsecutive ==
  ASSUME NEW s, NEW from \in Nat, NEW to \in Nat, Consecutive(s, from, to),
         NEW n \in 0..Len(s)
  PROVE  Consecutive(SubSeq(s, 1, n), from, to)
<1>1. s \in Seq(Nat)
  BY DEF Consecutive
<1>2. PICK t : t = SubSeq(s, 1, n)
  OBVIOUS
<1>3. t \in Seq(Nat) /\ Len(t) = n /\ \A i \in 1..n : t[i] = s[i]
  BY <1>1, <1>2
<1>4. 1..n \subseteq 1..Len(s)
  BY <1>1
<1> QED
  BY <1>2, <1>3, <1>4 DEF Consecutive

LEMMA LatestIsIn ==
  ASSUME NEW n \in Nat, NEW S \in SUBSET (0..n), S # {}
  PROVE  Latest(S) \in S /\ \A u \in S : u <= Latest(S)
<1> DEFINE T == {n - t : t \in S}
<1>1. T \in SUBSET Nat /\ T # {}
  <2>1. PICK t : t \in S
    OBVIOUS
  <2>2. n - t \in T
    BY <2>1
  <2>3. ASSUME NEW y \in T PROVE y \in Nat
    OBVIOUS
  <2> QED
    BY <2>2, <2>3
<1>2. PICK x \in T : \A y \in T : x <= y
  <2> HIDE DEF T
  <2> QED
    BY <1>1, NatMin
<1>3. PICK t \in S : x = n - t
  OBVIOUS
<1>4. \A u \in S : u <= t
  <2> SUFFICES ASSUME NEW u \in S PROVE u <= t
    OBVIOUS
  <2>1. x <= n - u
    BY <1>2
  <2> QED
    BY <2>1, <1>3
<1> QED
  BY <1>4 DEF Latest

-----------------------------------------------------------------------------
(* What the bridge sends, and how often.                                   *)

BridgeTyped ==
  /\ now \in 0..MaxTime
  /\ size \in 0..(2 * Len(Span)) /\ offset \in 0..size
  /\ logged \in SUBSET Event /\ IsFiniteSet(logged) /\ cursor \in 0..MaxEvents
  /\ pc \in {"asleep", "events", "faults", "flush"}
  /\ torn \in SUBSET Row /\ lost \in SUBSET Row /\ labels \in SUBSET Row
  /\ queued \in Seq(Row) /\ whole \in BOOLEAN
  /\ events \in [Event -> Nat] /\ faults \in [Partition -> Seq(Row)]
  /\ restarts \in Nat /\ aborts \in Nat /\ retries \in Nat

(* An offset inside a row has torn it.                                     *)
TornIsKnown == \A k \in Row : offset = 2 * k - 1 => k \in torn

InTheirPartition ==
  \A p \in Partition : \A i \in 1..Len(faults[p]) : PartOf[faults[p][i]] = p

(* A row is on the topic or in the producer once if the offset has passed  *)
(* it, and once more for each life of the bridge, or cycle, that did not   *)
(* end well, and for each batch that was sent again.                       *)
Copies(k) == Times(Log(k), k) + Times(queued, k)
RowBound(k) == restarts + aborts + retries + IF 2 * k <= offset THEN 1 ELSE 0
RowsBounded == \A k \in Row : Copies(k) <= RowBound(k)

(* An event above the cursor was sent only in an earlier life.             *)
EventBound(e) == restarts + IF e.ts <= cursor THEN 1 ELSE 0
EventsBounded == \A e \in Event : events[e] <= EventBound(e)

RowsInv ==
  PassedLabelsAreSent /\ TornIsKnown /\ InTheirPartition /\ RowsBounded

BridgeInv == BridgeTyped /\ RowsInv /\ EventsBounded

LEMMA SpanIsTyped ==
  /\ Len(Span) \in Nat /\ Row = 1..Len(Span) /\ Row \subseteq Nat
  /\ \A k \in Row : PartOf[k] \in Partition
<1>1. Len(Span) \in Nat
  BY StreamingAssumption
<1>2. Row = 1..Len(Span) /\ Row \subseteq Nat
  BY <1>1 DEF Row
<1>3. PartOf \in [1..Len(Span) -> Partition]
  BY StreamingAssumption
<1> QED
  BY <1>1, <1>2, <1>3

LEMMA CopiesAreNat ==
  ASSUME BridgeTyped, NEW k \in Row
  PROVE  Times(Log(k), k) \in Nat /\ Times(queued, k) \in Nat
<1>1. Log(k) \in Seq(Row) /\ queued \in Seq(Row)
  BY SpanIsTyped DEF BridgeTyped, Log
<1> QED
  BY <1>1, TimesIsNat

LEMMA BridgeInit == Init => BridgeInv
<1> SUFFICES ASSUME Init PROVE BridgeInv
  OBVIOUS
<1> USE Sizes, SpanIsTyped
<1>0. /\ queued = <<>> /\ faults = [p \in Partition |-> <<>>] /\ offset = 0
      /\ restarts = 0 /\ aborts = 0 /\ retries = 0 /\ torn = {}
  BY DEF Init
<1>1. BridgeTyped
  <2>1. IsFiniteSet({})
    BY FS_EmptySet
  <2>2. <<>> \in Seq(Row)
    OBVIOUS
  <2> QED
    BY <2>1, <2>2 DEF Init, BridgeTyped
<1>2. RowsBounded
  <2> SUFFICES ASSUME NEW k \in Row PROVE Copies(k) <= RowBound(k)
    BY DEF RowsBounded
  <2>1. Log(k) = <<>>
    BY <1>0 DEF Log
  <2>2. {i \in 1..Len(<<>>) : <<>>[i] = k} = {}
    OBVIOUS
  <2>3. Times(<<>>, k) = 0
    BY <2>2, FS_EmptySet DEF Times
  <2> QED
    BY <1>0, <2>1, <2>3 DEF RowBound, Copies
<1>3. EventsBounded
  BY DEF Init, EventsBounded, EventBound, Event
<1>4. \A k \in Row : ~(2 * k <= offset) /\ offset # 2 * k - 1
  BY <1>0
<1>5. PassedLabelsAreSent /\ TornIsKnown
  BY <1>4 DEF PassedLabelsAreSent, TornIsKnown
<1>6. InTheirPartition
  BY <1>0 DEF InTheirPartition
<1> QED
  BY <1>1, <1>2, <1>3, <1>5, <1>6 DEF BridgeInv, RowsInv

(* The rows are left alone.                                                *)
LEMMA RowsKept ==
  ASSUME BridgeTyped, RowsInv, UNCHANGED <<offset, restarts, faults, queued, torn>>,
         lost \subseteq lost', aborts' \in {aborts, aborts + 1},
         retries' \in {retries, retries + 1}
  PROVE  RowsInv'
<1>1. RowsBounded'
  <2> SUFFICES ASSUME NEW k \in Row PROVE Copies(k)' <= RowBound(k)'
    BY DEF RowsBounded
  <2>1. PICK m : m = Copies(k)
    OBVIOUS
  <2>2. m <= RowBound(k) /\ m \in Nat
    BY <2>1, CopiesAreNat DEF RowsInv, RowsBounded, Copies
  <2>3. PICK b \in {0, 1} : b = IF 2 * k <= offset THEN 1 ELSE 0
    OBVIOUS
  <2>4. PICK a, r : a = aborts' /\ r = retries'
    OBVIOUS
  <2>5. restarts \in Nat /\ a \in Nat /\ r \in Nat /\ aborts <= a /\ retries <= r
        /\ aborts \in Nat /\ retries \in Nat
    BY <2>4 DEF BridgeTyped
  <2>6. m <= restarts + aborts + retries + b
    BY <2>2, <2>3 DEF RowBound
  <2>7. m <= restarts + a + r + b
    BY <2>2, <2>5, <2>6
  <2>8. Copies(k)' = m
    BY <2>1 DEF Copies, Log
  <2>9. RowBound(k)' = restarts + a + r + b
    BY <2>3, <2>4 DEF RowBound
  <2> QED
    BY <2>7, <2>8, <2>9
<1>2. PassedLabelsAreSent'
  BY DEF RowsInv, PassedLabelsAreSent, Log
<1>3. TornIsKnown'
  BY DEF RowsInv, TornIsKnown
<1>4. InTheirPartition'
  BY DEF RowsInv, InTheirPartition
<1> QED
  BY <1>1, <1>2, <1>3, <1>4 DEF RowsInv

LEMMA Appended ==
  ASSUME NEW S, NEW s \in Seq(S), NEW t \in Seq(S)
  PROVE  s \o t \in Seq(S) /\ ToSet(s) \cup ToSet(t) \subseteq ToSet(s \o t)
<1>1. PICK u : u = s \o t
  OBVIOUS
<1>2. /\ u \in Seq(S) /\ Len(u) = Len(s) + Len(t)
      /\ Len(s) \in Nat /\ Len(t) \in Nat
      /\ \A i \in 1..Len(s) : u[i] = s[i]
      /\ \A i \in 1..Len(t) : u[Len(s) + i] = t[i]
  BY <1>1
<1>3. ASSUME NEW i \in 1..Len(u) PROVE u[i] \in ToSet(u)
  <2>1. i \in DOMAIN u
    BY <1>2
  <2> QED
    BY <2>1 DEF ToSet
<1>4. ASSUME NEW x \in ToSet(s) PROVE x \in ToSet(u)
  <2>1. PICK i \in 1..Len(s) : x = s[i]
    BY DEF ToSet
  <2>2. i \in 1..Len(u) /\ u[i] = x
    BY <1>2, <2>1
  <2> QED
    BY <1>3, <2>2
<1>5. ASSUME NEW x \in ToSet(t) PROVE x \in ToSet(u)
  <2>1. PICK i \in 1..Len(t) : x = t[i]
    BY DEF ToSet
  <2>2. Len(s) + i \in 1..Len(u)
    BY <1>2
  <2>3. u[Len(s) + i] = x
    BY <1>2, <2>1
  <2> QED
    BY <1>3, <2>2, <2>3
<1> QED
  BY <1>1, <1>2, <1>4, <1>5

(* The rows that are handed over count once each, and only above the       *)
(* offset.                                                                 *)
LEMMA SendBounds ==
  ASSUME BridgeTyped, NEW s, Consecutive(s, offset, size)
  PROVE  /\ s \in Seq(Row) /\ queued \o s \in Seq(Row)
         /\ ToSet(queued) \cup ToSet(s) \subseteq ToSet(queued \o s)
         /\ \A k \in ToSet(s) : 2 * k > offset /\ 2 * k <= size
         /\ \A k \in Row : Times(queued \o s, k) = Times(queued, k) +
              IF k \in ToSet(s) THEN 1 ELSE 0
<1> USE SpanIsTyped
<1>1. s \in Seq(Nat) /\ queued \in Seq(Row)
  BY DEF BridgeTyped, Consecutive
<1>2. \A i \in 1..Len(s) : s[i] \in Row /\ 2 * s[i] > offset /\ 2 * s[i] <= size
  <2> SUFFICES ASSUME NEW i \in 1..Len(s)
               PROVE  s[i] \in Row /\ 2 * s[i] > offset /\ 2 * s[i] <= size
    OBVIOUS
  <2>1. 2 * s[i] > offset + 1 /\ 2 * s[i] <= size /\ s[i] \in Nat
    BY <1>1 DEF Consecutive
  <2>2. offset \in Nat /\ size \in Nat /\ size <= 2 * Len(Span)
    BY DEF BridgeTyped
  <2>3. PICK k \in Nat : k = s[i]
    BY <2>1
  <2>4. 1 <= k /\ k <= Len(Span) /\ 2 * k > offset
    BY <2>1, <2>2, <2>3
  <2> QED
    BY <2>1, <2>3, <2>4
<1>3. s \in Seq(Row)
  BY <1>1, <1>2, SeqSubset
<1>4. queued \o s \in Seq(Row) /\ ToSet(queued) \cup ToSet(s) \subseteq ToSet(queued \o s)
  BY <1>1, <1>3, Appended
<1>5. ASSUME NEW k \in Row
      PROVE  Times(queued \o s, k) = Times(queued, k) + IF k \in ToSet(s) THEN 1 ELSE 0
  <2>1. Times(queued \o s, k) = Times(queued, k) + Times(s, k)
    BY <1>1, <1>3, TimesConcat
  <2>2. Times(s, k) = IF k \in ToSet(s) THEN 1 ELSE 0
    <3>1. \A i, j \in 1..Len(s) : s[i] = k /\ s[j] = k => i = j
      BY DEF Consecutive
    <3> QED
      BY <3>1, <1>3, TimesAtMostOnce
  <2> QED
    BY <2>1, <2>2
<1>6. \A k \in ToSet(s) : 2 * k > offset /\ 2 * k <= size
  BY <1>1, <1>2 DEF ToSet
<1> QED
  BY <1>3, <1>4, <1>5, <1>6

(* The file is read to its end.                                            *)
LEMMA PumpFaultsBridge ==
  ASSUME BridgeInv, PumpFaults
  PROVE  BridgeInv'
<1> USE Sizes, SpanIsTyped
<1>1. BridgeTyped /\ RowsInv /\ EventsBounded
  BY DEF BridgeInv
<1>2. PICK s : s = WholeRows(offset, size)
  OBVIOUS
<1>3. /\ offset \in Nat /\ size \in Nat /\ offset <= size
      /\ restarts \in Nat /\ aborts \in Nat /\ retries \in Nat
  BY <1>1 DEF BridgeTyped
<1>4. Consecutive(s, offset, size)
  BY <1>2, <1>3, WholeRowsConsecutive
<1>5. /\ queued' = queued \o s /\ offset' = size /\ pc' = "flush"
      /\ torn' = torn \cup {k \in Row : size = 2 * k - 1 /\ offset # size}
      /\ UNCHANGED <<logged, size, now, cursor, restarts, aborts, events, labels,
                     faults, lost, retries, whole>>
  BY <1>2 DEF PumpFaults, lab, topics, consumer
<1>6. /\ s \in Seq(Row) /\ queued' \in Seq(Row)
      /\ ToSet(queued) \cup ToSet(s) \subseteq ToSet(queued')
      /\ \A k \in ToSet(s) : 2 * k > offset /\ 2 * k <= size
      /\ \A k \in Row : Times(queued', k) = Times(queued, k) +
           IF k \in ToSet(s) THEN 1 ELSE 0
  BY <1>1, <1>4, <1>5, SendBounds
<1>7. BridgeTyped'
  <2>1. torn' \in SUBSET Row
    BY <1>1, <1>5 DEF BridgeTyped
  <2> QED
    BY SMTT(30), <2>1, <1>1, <1>5, <1>6 DEF BridgeTyped
<1>8. RowsBounded'
  <2> SUFFICES ASSUME NEW k \in Row PROVE Copies(k)' <= RowBound(k)'
    BY DEF RowsBounded
  <2>1. PICK n, m, c : /\ n = Times(Log(k), k) /\ m = Times(queued, k)
                       /\ c = IF k \in ToSet(s) THEN 1 ELSE 0
    OBVIOUS
  <2>2. n \in Nat /\ m \in Nat /\ c \in {0, 1}
    BY <2>1, <1>1, CopiesAreNat
  <2>3. n + m <= restarts + aborts + retries + IF 2 * k <= offset THEN 1 ELSE 0
    BY <2>1, <1>1 DEF RowsInv, RowsBounded, RowBound, Copies
  <2>4. Copies(k)' = n + (m + c)
    BY <2>1, <1>5, <1>6 DEF Copies, Log
  <2>5. c = 1 => 2 * k > offset /\ 2 * k <= size
    BY <2>1, <1>6
  <2>6. n + (m + c) <= restarts + aborts + retries + IF 2 * k <= size THEN 1 ELSE 0
    BY <2>2, <2>3, <2>5, <1>3
  <2> QED
    BY <2>4, <2>6, <1>5 DEF RowBound
<1>9. TornIsKnown'
  BY <1>1, <1>5 DEF RowsInv, TornIsKnown
<1>10. PassedLabelsAreSent'
  <2> SUFFICES ASSUME NEW k \in Row, 2 * k <= offset'
               PROVE  k \in ToSet(Log(k)') \cup ToSet(queued') \cup torn' \cup lost'
    BY DEF PassedLabelsAreSent
  <2>1. k \in Nat /\ Log(k)' = Log(k)
    BY <1>5 DEF Log
  <2>2. CASE 2 * k <= offset
    <3>1. k \in ToSet(Log(k)) \cup ToSet(queued) \cup torn \cup lost
      BY <2>2, <1>1 DEF RowsInv, PassedLabelsAreSent
    <3> QED
      BY <3>1, <2>1, <1>5, <1>6
  <2>3. CASE 2 * k = offset + 1
    <3>1. offset = 2 * k - 1
      BY <2>1, <2>3, <1>3
    <3>2. k \in torn
      BY <3>1, <1>1 DEF RowsInv, TornIsKnown
    <3> QED
      BY <3>2, <1>5
  <2>4. CASE 2 * k > offset + 1
    <3>1. k \in ToSet(s)
      BY <2>1, <2>4, <1>2, <1>3, <1>5, WholeRowsBetween
    <3> QED
      BY <3>1, <1>6
  <2> QED
    BY <2>1, <2>2, <2>3, <2>4, <1>3
<1>11. InTheirPartition'
  BY <1>1, <1>5 DEF RowsInv, InTheirPartition
<1>12. EventsBounded'
  BY <1>1, <1>5 DEF EventsBounded, EventBound
<1> QED
  BY <1>7, <1>8, <1>9, <1>10, <1>11, <1>12 DEF BridgeInv, RowsInv

(* A send raises.                                                          *)
LEMMA SendRaisesBridge ==
  ASSUME BridgeInv, SendRaises
  PROVE  BridgeInv'
<1> USE Sizes, SpanIsTyped
<1>1. BridgeTyped /\ RowsInv /\ EventsBounded
  BY DEF BridgeInv
<1>2. PICK n \in 0..Len(WholeRows(offset, size)) :
        queued' = queued \o SubSeq(WholeRows(offset, size), 1, n)
  BY DEF SendRaises
<1>3. /\ offset \in Nat /\ size \in Nat /\ offset <= size
      /\ restarts \in Nat /\ aborts \in Nat /\ retries \in Nat
  BY <1>1 DEF BridgeTyped
<1>4. PICK s : s = SubSeq(WholeRows(offset, size), 1, n)
  OBVIOUS
<1>5. Consecutive(s, offset, size)
  BY <1>2, <1>3, <1>4, WholeRowsConsecutive, FirstRowsConsecutive
<1>6. /\ queued' = queued \o s /\ pc' = "asleep" /\ aborts' = aborts + 1
      /\ UNCHANGED <<logged, size, now, offset, cursor, torn, restarts, events,
                     labels, faults, lost, retries, whole>>
  BY <1>2, <1>4 DEF SendRaises, lab, topics, consumer
<1>7. /\ s \in Seq(Row) /\ queued' \in Seq(Row)
      /\ ToSet(queued) \cup ToSet(s) \subseteq ToSet(queued')
      /\ \A k \in ToSet(s) : 2 * k > offset /\ 2 * k <= size
      /\ \A k \in Row : Times(queued', k) = Times(queued, k) +
           IF k \in ToSet(s) THEN 1 ELSE 0
  BY <1>1, <1>5, <1>6, SendBounds
<1>8. BridgeTyped'
  BY SMTT(30), <1>1, <1>6, <1>7 DEF BridgeTyped
<1>9. RowsBounded'
  <2> SUFFICES ASSUME NEW k \in Row PROVE Copies(k)' <= RowBound(k)'
    BY DEF RowsBounded
  <2>1. PICK i, m, c : /\ i = Times(Log(k), k) /\ m = Times(queued, k)
                       /\ c = IF k \in ToSet(s) THEN 1 ELSE 0
    OBVIOUS
  <2>2. i \in Nat /\ m \in Nat /\ c \in {0, 1}
    BY <2>1, <1>1, CopiesAreNat
  <2>3. i + m <= restarts + aborts + retries + IF 2 * k <= offset THEN 1 ELSE 0
    BY <2>1, <1>1 DEF RowsInv, RowsBounded, RowBound, Copies
  <2>4. Copies(k)' = i + (m + c)
    BY <2>1, <1>6, <1>7 DEF Copies, Log
  <2>5. i + (m + c) <= restarts + (aborts + 1) + retries +
                         IF 2 * k <= offset THEN 1 ELSE 0
    BY <2>2, <2>3, <1>3
  <2> QED
    BY <2>4, <2>5, <1>6 DEF RowBound
<1>10. TornIsKnown'
  BY <1>1, <1>6 DEF RowsInv, TornIsKnown
<1>11. PassedLabelsAreSent'
  BY <1>1, <1>6, <1>7 DEF RowsInv, PassedLabelsAreSent, Log
<1>12. InTheirPartition'
  BY <1>1, <1>6 DEF RowsInv, InTheirPartition
<1>13. EventsBounded'
  BY <1>1, <1>6 DEF EventsBounded, EventBound
<1> QED
  BY <1>8, <1>9, <1>10, <1>11, <1>12, <1>13 DEF BridgeInv, RowsInv

-----------------------------------------------------------------------------
(* The producer's sender thread.                                           *)

(* A row arrives in its partition.                                         *)
Arrivals(x, k) == Times(Log(x)', x) = Times(Log(x), x) + IF x = k THEN 1 ELSE 0

LEMMA ArriveEffect ==
  ASSUME BridgeTyped, NEW k \in Row, Arrive(k)
  PROVE  /\ faults' \in [Partition -> Seq(Row)]
         /\ \A p \in Partition : p # PartOf[k] => faults'[p] = faults[p]
         /\ faults'[PartOf[k]] = Append(Log(k), k)
         /\ \A x \in Row : ToSet(Log(x)) \subseteq ToSet(Log(x)')
         /\ k \in ToSet(Log(k)')
         /\ \A x \in Row : Arrivals(x, k)
         /\ InTheirPartition => InTheirPartition'
<1> USE SpanIsTyped
<1>1. PICK p, s, r : p = PartOf[k] /\ s = faults[p] /\ r = Append(s, k)
  OBVIOUS
<1>2. p \in Partition /\ s \in Seq(Row) /\ faults \in [Partition -> Seq(Row)]
  BY <1>1 DEF BridgeTyped
<1>3. /\ r \in Seq(Row) /\ Len(r) = Len(s) + 1 /\ r[Len(s) + 1] = k
      /\ \A i \in 1..Len(s) : r[i] = s[i]
      /\ ToSet(s) \cup {k} \subseteq ToSet(r)
      /\ \A x : Times(r, x) = Times(s, x) + IF x = k THEN 1 ELSE 0
  <2>1. k \in Row /\ s \in Seq(Row) /\ r = Append(s, k)
    BY <1>1, <1>2
  <2>2. r \in Seq(Row) /\ OneMore(s, r, k)
    BY <2>1, AppendedRow, Zenon
  <2> QED
    BY <2>2 DEF OneMore
<1>4. faults' = [faults EXCEPT ![p] = r]
  BY <1>1, <1>2 DEF Arrive
<1>5. /\ faults' \in [Partition -> Seq(Row)] /\ faults'[p] = r
      /\ \A o \in Partition : o # p => faults'[o] = faults[o]
  BY <1>2, <1>3, <1>4
<1>6. \A x \in Row : Log(x)' = IF PartOf[x] = p THEN r ELSE Log(x)
  BY <1>5 DEF Log
<1>7. Log(k) = s /\ Log(k)' = r
  BY <1>1, <1>5 DEF Log
<1>8. ASSUME NEW x \in Row
      PROVE  /\ ToSet(Log(x)) \subseteq ToSet(Log(x)')
             /\ Arrivals(x, k)
  <2> USE DEF Arrivals
  <2>1. CASE PartOf[x] = p
    <3>1. Log(x) = s /\ Log(x)' = r
      BY <2>1, <1>1, <1>6 DEF Log
    <3> QED
      BY <3>1, <1>3
  <2>2. CASE PartOf[x] # p
    <3>1. Log(x)' = Log(x) /\ x # k
      BY <2>2, <1>1, <1>6
    <3>2. Times(Log(x), x) \in Nat
      BY CopiesAreNat
    <3> QED
      BY <3>1, <3>2
  <2> QED
    BY <2>1, <2>2
<1>9. ASSUME InTheirPartition PROVE InTheirPartition'
  <2> SUFFICES ASSUME NEW o \in Partition, NEW i \in 1..Len(faults'[o])
               PROVE  PartOf[faults'[o][i]] = o
    BY DEF InTheirPartition
  <2>1. CASE o # p
    BY <2>1, <1>5, <1>9 DEF InTheirPartition
  <2>2. CASE o = p
    <3>1. PICK n \in Nat : n = Len(s)
      BY <1>2, SeqElements
    <3>2. i \in 1..(n + 1) /\ faults'[o] = r
      BY <2>2, <3>1, <1>3, <1>5
    <3>3. CASE i = n + 1
      BY <2>2, <3>1, <3>2, <3>3, <1>1, <1>3
    <3>4. CASE i \in 1..n
      <4>1. r[i] = s[i] /\ PartOf[s[i]] = p
        BY <3>1, <3>4, <1>1, <1>2, <1>3, <1>9 DEF InTheirPartition
      <4> QED
        BY <4>1, <2>2, <3>2
    <3> QED
      BY <3>2, <3>3, <3>4
  <2> QED
    BY <2>1, <2>2
<1> QED
  BY <1>1, <1>3, <1>5, <1>7, <1>8, <1>9

(* Every step of the sender keeps the account.                             *)
LEMMA DeliverBridge ==
  ASSUME BridgeInv, Deliver
  PROVE  BridgeInv'
<1> USE Sizes, SpanIsTyped
<1>1. BridgeTyped /\ RowsInv /\ EventsBounded
  BY DEF BridgeInv
<1>2. PICK i \in DOMAIN queued :
        /\ Arrive(queued[i]) /\ queued' = RemoveAt(queued, i)
        /\ UNCHANGED <<lab, bridge, lost, drops, retries, metrics, events, consumer>>
  BY DEF Deliver
<1>3. PICK k : k = queued[i]
  OBVIOUS
<1>4. queued \in Seq(Row) /\ i \in 1..Len(queued) /\ k \in Row
  BY SMTT(30), <1>1, <1>2, <1>3 DEF BridgeTyped
<1>5. /\ queued' \in Seq(Row) /\ ToSet(queued) \subseteq ToSet(queued') \cup {k}
      /\ \A x : Times(queued, x) = Times(queued', x) + IF x = k THEN 1 ELSE 0
  <2>1. PICK r : r = RemoveAt(queued, i)
    OBVIOUS
  <2>2. r \in Seq(Row) /\ OneLess(queued, r, i)
    BY <2>1, <1>4, RemovedRow, Zenon
  <2>3. queued' = r
    BY <2>1, <1>2
  <2> QED
    BY <2>2, <2>3, <1>3 DEF OneLess
<1>6. /\ faults' \in [Partition -> Seq(Row)]
      /\ \A x \in Row : ToSet(Log(x)) \subseteq ToSet(Log(x)')
      /\ k \in ToSet(Log(k)')
      /\ \A x \in Row : Arrivals(x, k)
      /\ InTheirPartition'
  <2>1. Arrive(k) /\ InTheirPartition
    BY <1>1, <1>2, <1>3 DEF RowsInv
  <2> QED
    BY <2>1, <1>1, <1>4, ArriveEffect
<1>7. UNCHANGED <<now, size, logged, pc, offset, cursor, torn, restarts, aborts, lost,
                  retries, events, labels, whole>>
  BY <1>2 DEF lab, bridge, consumer
<1>8. BridgeTyped'
  BY <1>1, <1>5, <1>6, <1>7 DEF BridgeTyped
<1>9. RowsBounded'
  <2> SUFFICES ASSUME NEW x \in Row PROVE Copies(x)' <= RowBound(x)'
    BY DEF RowsBounded
  <2>1. PICK n, m, c : /\ n = Times(Log(x), x) /\ m = Times(queued', x)
                       /\ c = IF x = k THEN 1 ELSE 0
    OBVIOUS
  <2>2. n \in Nat /\ m \in Nat /\ c \in {0, 1}
    BY <2>1, <1>1, <1>5, CopiesAreNat, TimesIsNat
  <2>3. Copies(x) = n + (m + c) /\ Copies(x)' = (n + c) + m
    BY <2>1, <1>5, <1>6 DEF Copies, Arrivals
  <2>4. Copies(x)' = Copies(x)
    BY <2>2, <2>3
  <2>5. Copies(x) <= RowBound(x)
    BY <1>1 DEF RowsInv, RowsBounded
  <2> QED
    BY <2>4, <2>5, <1>7 DEF RowBound
<1>10. TornIsKnown'
  BY <1>1, <1>7 DEF RowsInv, TornIsKnown
<1>11. PassedLabelsAreSent'
  <2> SUFFICES ASSUME NEW x \in Row, 2 * x <= offset
               PROVE  x \in ToSet(Log(x)') \cup ToSet(queued') \cup torn \cup lost
    BY <1>7 DEF PassedLabelsAreSent
  <2>1. x \in ToSet(Log(x)) \cup ToSet(queued) \cup torn \cup lost
    BY <1>1 DEF RowsInv, PassedLabelsAreSent
  <2> QED
    BY <2>1, <1>5, <1>6
<1>12. EventsBounded'
  BY <1>1, <1>7 DEF EventsBounded, EventBound
<1> QED
  BY <1>6, <1>8, <1>9, <1>10, <1>11, <1>12 DEF BridgeInv, RowsInv

LEMMA DropBatchBridge ==
  ASSUME BridgeInv, DropBatch
  PROVE  BridgeInv'
<1> USE Sizes, SpanIsTyped
<1>1. BridgeTyped /\ RowsInv /\ EventsBounded
  BY DEF BridgeInv
<1>2. PICK i \in DOMAIN queued :
        /\ queued' = RemoveAt(queued, i) /\ lost' = lost \cup {queued[i]}
        /\ UNCHANGED <<lab, bridge, retries, topics, consumer>>
  BY DEF DropBatch
<1>3. PICK k : k = queued[i]
  OBVIOUS
<1>4. queued \in Seq(Row) /\ i \in 1..Len(queued) /\ k \in Row
  BY <1>1, <1>2, <1>3 DEF BridgeTyped
<1>5. /\ queued' \in Seq(Row) /\ ToSet(queued) \subseteq ToSet(queued') \cup {k}
      /\ \A x : Times(queued, x) = Times(queued', x) + IF x = k THEN 1 ELSE 0
  <2>1. PICK r : r = RemoveAt(queued, i)
    OBVIOUS
  <2>2. r \in Seq(Row) /\ OneLess(queued, r, i)
    BY <2>1, <1>4, RemovedRow, Zenon
  <2>3. queued' = r
    BY <2>1, <1>2
  <2> QED
    BY <2>2, <2>3, <1>3 DEF OneLess
<1>6. UNCHANGED <<now, size, logged, pc, offset, cursor, torn, restarts, aborts,
                  retries, events, faults, labels, whole>>
      /\ lost' = lost \cup {k}
  BY <1>2, <1>3 DEF lab, bridge, topics, consumer
<1>7. BridgeTyped'
  BY <1>1, <1>4, <1>5, <1>6 DEF BridgeTyped
<1>8. RowsBounded'
  <2> SUFFICES ASSUME NEW x \in Row PROVE Copies(x)' <= RowBound(x)'
    BY DEF RowsBounded
  <2>1. PICK n, m, c : /\ n = Times(Log(x), x) /\ m = Times(queued', x)
                       /\ c = IF x = k THEN 1 ELSE 0
    OBVIOUS
  <2>2. n \in Nat /\ m \in Nat /\ c \in {0, 1}
    BY <2>1, <1>1, <1>5, CopiesAreNat, TimesIsNat
  <2>3. Copies(x) = n + (m + c) /\ Copies(x)' = n + m
    BY <2>1, <1>5, <1>6 DEF Copies, Log
  <2>4. PICK b : b = RowBound(x)
    OBVIOUS
  <2>5. n + (m + c) <= b /\ b \in Nat
    <3>1. RowBound(x) \in Nat
      <4>1. restarts \in Nat /\ aborts \in Nat /\ retries \in Nat
        BY <1>1 DEF BridgeTyped
      <4>2. (IF 2 * x <= offset THEN 1 ELSE 0) \in Nat
        OBVIOUS
      <4> QED
        BY <4>1, <4>2 DEF RowBound
    <3>2. Copies(x) <= RowBound(x)
      BY <1>1 DEF RowsInv, RowsBounded
    <3> QED
      BY <3>1, <3>2, <2>3, <2>4
  <2>6. RowBound(x)' = b
    BY <2>4, <1>6 DEF RowBound
  <2> QED
    BY <2>2, <2>3, <2>5, <2>6
<1>9. TornIsKnown'
  BY <1>1, <1>6 DEF RowsInv, TornIsKnown
<1>10. PassedLabelsAreSent'
  <2> SUFFICES ASSUME NEW x \in Row, 2 * x <= offset
               PROVE  x \in ToSet(Log(x)') \cup ToSet(queued') \cup torn \cup lost'
    BY <1>6 DEF PassedLabelsAreSent
  <2>1. x \in ToSet(Log(x)) \cup ToSet(queued) \cup torn \cup lost
    BY <1>1 DEF RowsInv, PassedLabelsAreSent
  <2>2. Log(x)' = Log(x)
    BY <1>6 DEF Log
  <2> QED
    BY <2>1, <2>2, <1>5, <1>6
<1>11. InTheirPartition'
  BY <1>1, <1>6 DEF RowsInv, InTheirPartition
<1>12. EventsBounded'
  BY <1>1, <1>6 DEF EventsBounded, EventBound
<1> QED
  BY <1>7, <1>8, <1>9, <1>10, <1>11, <1>12 DEF BridgeInv, RowsInv

LEMMA RetryBatchBridge ==
  ASSUME BridgeInv, RetryBatch
  PROVE  BridgeInv'
<1> USE Sizes, SpanIsTyped
<1>1. BridgeTyped /\ RowsInv /\ EventsBounded
  BY DEF BridgeInv
<1>2. PICK i \in DOMAIN queued :
        /\ retries' = retries + 1
        /\ \/ Arrive(queued[i]) /\ UNCHANGED queued
           \/ /\ Arrive(queued[i]) \/ UNCHANGED faults
              /\ queued' = Append(RemoveAt(queued, i), queued[i])
        /\ UNCHANGED <<lab, bridge, lost, drops, metrics, events, consumer>>
  BY DEF RetryBatch
<1>3. PICK k : k = queued[i]
  OBVIOUS
<1>4. queued \in Seq(Row) /\ i \in 1..Len(queued) /\ k \in Row
  BY <1>1, <1>2, <1>3 DEF BridgeTyped
<1>5. /\ queued' \in Seq(Row) /\ ToSet(queued) \subseteq ToSet(queued')
      /\ \A x : Times(queued', x) = Times(queued, x)
  <2>1. CASE UNCHANGED queued
    BY <2>1, <1>4
  <2>2. CASE queued' = Append(RemoveAt(queued, i), queued[i])
    <3>1. PICK r : r = RemoveAt(queued, i)
      OBVIOUS
    <3>2. /\ r \in Seq(Row) /\ ToSet(queued) \subseteq ToSet(r) \cup {k}
          /\ \A x : Times(queued, x) = Times(r, x) + IF x = k THEN 1 ELSE 0
      <4>1. r \in Seq(Row) /\ OneLess(queued, r, i)
        BY <3>1, <1>4, RemovedRow, Zenon
      <4> QED
        BY <4>1, <1>3 DEF OneLess
    <3>3. queued' = Append(r, k)
      BY <2>2, <3>1, <1>3
    <3>4. /\ queued' \in Seq(Row) /\ ToSet(r) \cup {k} \subseteq ToSet(queued')
          /\ \A x : Times(queued', x) = Times(r, x) + IF x = k THEN 1 ELSE 0
      <4>1. PICK q : q = Append(r, k)
        OBVIOUS
      <4>2. q \in Seq(Row) /\ OneMore(r, q, k)
        BY <4>1, <3>2, <1>4, AppendedRow, Zenon
      <4>3. queued' = q
        BY <3>3, <4>1
      <4> QED
        BY <4>2, <4>3 DEF OneMore
    <3> QED
      BY <3>2, <3>4
  <2> QED
    BY <1>2, <2>1, <2>2
<1>6. /\ faults' \in [Partition -> Seq(Row)]
      /\ \A x \in Row : ToSet(Log(x)) \subseteq ToSet(Log(x)')
      /\ \A x \in Row : Times(Log(x)', x) \in {Times(Log(x), x), Times(Log(x), x) + 1}
      /\ InTheirPartition'
  <2>1. CASE Arrive(k)
    <3>1. InTheirPartition
      BY <1>1 DEF RowsInv
    <3>2. \A x \in Row : Times(Log(x), x) \in Nat
      BY <1>1, CopiesAreNat
    <3>3. /\ faults' \in [Partition -> Seq(Row)]
          /\ \A x \in Row : ToSet(Log(x)) \subseteq ToSet(Log(x)')
          /\ \A x \in Row : Arrivals(x, k)
          /\ InTheirPartition'
      BY <2>1, <3>1, <1>1, <1>4, ArriveEffect
    <3>4. ASSUME NEW x \in Row
          PROVE  Times(Log(x)', x) \in {Times(Log(x), x), Times(Log(x), x) + 1}
      <4>1. PICK a, b : a = Times(Log(x), x) /\ b = Times(Log(x)', x)
        OBVIOUS
      <4>2. Arrivals(x, k) /\ a \in Nat
        BY <3>2, <3>3, <4>1
      <4>3. b = a + IF x = k THEN 1 ELSE 0
        BY <4>1, <4>2 DEF Arrivals
      <4> QED
        BY <4>1, <4>2, <4>3
    <3> QED
      BY <3>3, <3>4
  <2>2. CASE UNCHANGED faults
    <3>1. \A x \in Row : Log(x)' = Log(x)
      BY <2>2 DEF Log
    <3>2. faults' \in [Partition -> Seq(Row)] /\ InTheirPartition'
      BY <2>2, <1>1 DEF BridgeTyped, RowsInv, InTheirPartition
    <3> QED
      BY <3>1, <3>2
  <2> QED
    BY <1>2, <1>3, <2>1, <2>2
<1>7. UNCHANGED <<now, size, logged, pc, offset, cursor, torn, restarts, aborts, lost,
                  events, labels, whole>>
  BY <1>2 DEF lab, bridge, consumer
<1>8. BridgeTyped'
  <2>1. retries' \in Nat
    BY <1>1, <1>2 DEF BridgeTyped
  <2> QED
    BY <2>1, <1>1, <1>5, <1>6, <1>7 DEF BridgeTyped
<1>9. RowsBounded'
  <2> SUFFICES ASSUME NEW x \in Row PROVE Copies(x)' <= RowBound(x)'
    BY DEF RowsBounded
  <2>1. PICK n, m, c : /\ n = Times(Log(x), x) /\ m = Times(queued, x)
                       /\ c = Times(Log(x)', x)
    OBVIOUS
  <2>2. n \in Nat /\ m \in Nat /\ c \in {n, n + 1}
    BY <2>1, <1>1, <1>6, CopiesAreNat
  <2>3. Copies(x) = n + m /\ Copies(x)' = c + m
    BY <2>1, <1>5 DEF Copies
  <2>4. n + m <= restarts + aborts + retries + IF 2 * x <= offset THEN 1 ELSE 0
    BY <2>3, <1>1 DEF RowsInv, RowsBounded, RowBound
  <2>5. restarts \in Nat /\ aborts \in Nat /\ retries \in Nat
    BY <1>1 DEF BridgeTyped
  <2>6. c + m <= restarts + aborts + (retries + 1) + IF 2 * x <= offset THEN 1 ELSE 0
    BY <2>2, <2>4, <2>5
  <2> QED
    BY <2>3, <2>6, <1>2, <1>7 DEF RowBound
<1>10. TornIsKnown'
  BY <1>1, <1>7 DEF RowsInv, TornIsKnown
<1>11. PassedLabelsAreSent'
  <2> SUFFICES ASSUME NEW x \in Row, 2 * x <= offset
               PROVE  x \in ToSet(Log(x)') \cup ToSet(queued') \cup torn \cup lost
    BY <1>7 DEF PassedLabelsAreSent
  <2>1. x \in ToSet(Log(x)) \cup ToSet(queued) \cup torn \cup lost
    BY <1>1 DEF RowsInv, PassedLabelsAreSent
  <2> QED
    BY <2>1, <1>5, <1>6
<1>12. EventsBounded'
  BY <1>1, <1>7 DEF EventsBounded, EventBound
<1> QED
  BY <1>6, <1>8, <1>9, <1>10, <1>11, <1>12 DEF BridgeInv, RowsInv

-----------------------------------------------------------------------------
(* The events, and the other steps.                                        *)

LEMMA SentIsNew ==
  ASSUME BridgeTyped, NEW order \in Orders
  PROVE  Sent(order) \in SUBSET Event /\ \A e \in Sent(order) : e.ts > cursor
<1>1. \A i \in DOMAIN order : Newest(order[i]) \subseteq Event
  BY DEF BridgeTyped, Newest, Visible
<1>2. \A e \in Sent(order) : \E i \in DOMAIN order :
        e \in Newest(order[i]) /\ e.ts > cursor
  BY DEF Sent
<1> QED
  BY <1>1, <1>2

LEMMA PumpEventsBridge ==
  ASSUME BridgeInv, NEW order \in Orders, PumpEvents(order)
  PROVE  BridgeInv'
<1> USE Sizes, SpanIsTyped
<1>1. BridgeTyped /\ RowsInv /\ EventsBounded
  BY DEF BridgeInv
<1>2. PICK sent : sent = Sent(order)
  OBVIOUS
<1>3. PICK S : S = {cursor} \cup {e.ts : e \in sent}
  OBVIOUS
<1>4. sent \in SUBSET Event /\ \A e \in sent : e.ts > cursor
  BY <1>1, <1>2, SentIsNew
<1>5. S \in SUBSET (0..MaxEvents) /\ cursor \in S /\ \A e \in sent : e.ts \in S
  <2>1. \A e \in Event : e.ts \in 1..MaxEvents
    BY DEF Event
  <2>2. cursor \in 0..MaxEvents
    BY <1>1 DEF BridgeTyped
  <2> QED
    BY <2>1, <2>2, <1>3, <1>4
<1>6. PICK c : c = Latest(S)
  OBVIOUS
<1>7. c \in S /\ \A u \in S : u <= c
  <2>1. S # {} /\ MaxEvents \in Nat
    BY <1>5
  <2> QED
    BY <2>1, <1>5, <1>6, LatestIsIn
<1>8. /\ events' = [e \in Event |-> events[e] + IF e \in sent THEN 1 ELSE 0]
      /\ cursor' = c /\ pc' = "faults"
      /\ UNCHANGED <<logged, size, now, offset, torn, restarts, aborts, faults,
                     labels, queued, lost, retries, whole>>
  BY <1>2, <1>3, <1>6 DEF PumpEvents, lab, producer, consumer
<1>9. BridgeTyped'
  <2>1. c \in 0..MaxEvents
    BY <1>5, <1>7
  <2>2. events' \in [Event -> Nat]
    BY <1>1, <1>8 DEF BridgeTyped
  <2> QED
    BY <2>1, <2>2, <1>1, <1>8 DEF BridgeTyped
<1>10. RowsInv'
  BY <1>1, <1>8, RowsKept
<1>11. EventsBounded'
  <2> SUFFICES ASSUME NEW e \in Event PROVE events'[e] <= EventBound(e)'
    BY DEF EventsBounded
  <2>1. events[e] <= EventBound(e) /\ events[e] \in Nat /\ e.ts \in Nat
    <3>1. e.ts \in 1..MaxEvents
      BY DEF Event
    <3>2. events[e] \in Nat
      BY <1>1 DEF BridgeTyped
    <3> QED
      BY <3>1, <3>2, <1>1 DEF EventsBounded
  <2>2. cursor \in Nat /\ c \in Nat /\ cursor <= c /\ restarts \in Nat
    BY <1>1, <1>5, <1>7 DEF BridgeTyped
  <2>3. CASE e \in sent
    <3>1. e.ts > cursor /\ e.ts <= c
      BY <2>3, <1>4, <1>5, <1>7
    <3>2. events'[e] = events[e] + 1
      BY <2>3, <1>8
    <3>3. events[e] <= restarts
      BY <3>1, <2>1, <2>2 DEF EventBound
    <3>4. events[e] + 1 <= restarts + 1
      BY <3>3, <2>1, <2>2
    <3> QED
      BY <3>1, <3>2, <3>4, <1>8 DEF EventBound
  <2>4. CASE e \notin sent
    <3>1. events'[e] = events[e]
      BY <2>4, <2>1, <1>8
    <3> QED
      BY <3>1, <2>1, <2>2, <1>8 DEF EventBound
  <2> QED
    BY <2>3, <2>4
<1> QED
  BY <1>9, <1>10, <1>11 DEF BridgeInv

(* The bridge is started again: everything may be sent once more.          *)
LEMMA RestartBridgeBridge ==
  ASSUME BridgeInv, RestartBridge
  PROVE  BridgeInv'
<1> USE Sizes, SpanIsTyped
<1>1. BridgeTyped /\ RowsInv /\ EventsBounded
  BY DEF BridgeInv
<1>2. /\ restarts' = restarts + 1 /\ pc' = "asleep" /\ offset' = 0 /\ cursor' = 0
      /\ queued' = <<>>
      /\ UNCHANGED <<logged, size, now, torn, aborts, events, faults, labels, lost,
                     retries, whole>>
  BY DEF RestartBridge, lab, topics, consumer
<1>3. BridgeTyped'
  <2>1. <<>> \in Seq(Row)
    OBVIOUS
  <2> QED
    BY <2>1, <1>1, <1>2 DEF BridgeTyped
<1>4. RowsBounded'
  <2> SUFFICES ASSUME NEW k \in Row PROVE Copies(k)' <= RowBound(k)'
    BY DEF RowsBounded
  <2>1. PICK n, m : n = Times(Log(k), k) /\ m = Times(queued, k)
    OBVIOUS
  <2>2. n \in Nat /\ m \in Nat
    BY <2>1, <1>1, CopiesAreNat
  <2>3. n + m <= restarts + aborts + retries + IF 2 * k <= offset THEN 1 ELSE 0
    BY <2>1, <1>1 DEF RowsInv, RowsBounded, RowBound, Copies
  <2>4. restarts \in Nat /\ aborts \in Nat /\ retries \in Nat /\ k \in Nat /\ k >= 1
    BY <1>1 DEF BridgeTyped
  <2>5. n <= (restarts + 1) + aborts + retries + IF 2 * k <= 0 THEN 1 ELSE 0
    BY <2>2, <2>3, <2>4
  <2>6. Copies(k)' = n
    <3>1. {i \in 1..Len(<<>>) : <<>>[i] = k} = {}
      OBVIOUS
    <3>2. Times(<<>>, k) = 0
      BY <3>1, FS_EmptySet DEF Times
    <3> QED
      BY <2>1, <2>2, <3>2, <1>2 DEF Copies, Log
  <2> QED
    BY <2>5, <2>6, <1>2 DEF RowBound
<1>5. ASSUME NEW k \in Row PROVE ~(2 * k <= 0) /\ 0 # 2 * k - 1
  <2>1. k \in Nat /\ k >= 1
    OBVIOUS
  <2> QED
    BY <2>1
<1>6. PassedLabelsAreSent'
  BY <1>2, <1>5 DEF PassedLabelsAreSent
<1>7. TornIsKnown'
  BY <1>2, <1>5 DEF TornIsKnown
<1>8. InTheirPartition'
  BY <1>1, <1>2 DEF RowsInv, InTheirPartition
<1>9. EventsBounded'
  <2> SUFFICES ASSUME NEW e \in Event PROVE events'[e] <= EventBound(e)'
    BY DEF EventsBounded
  <2>1. events[e] <= EventBound(e) /\ events[e] \in Nat /\ e.ts \in Nat /\ e.ts >= 1
    <3>1. e.ts \in 1..MaxEvents
      BY DEF Event
    <3>2. events[e] \in Nat
      BY <1>1 DEF BridgeTyped
    <3> QED
      BY <3>1, <3>2, <1>1 DEF EventsBounded
  <2>2. restarts \in Nat
    BY <1>1 DEF BridgeTyped
  <2>3. events[e] <= restarts + 1
    BY <2>1, <2>2 DEF EventBound
  <2>4. ~(e.ts <= 0)
    BY <2>1
  <2> QED
    BY <2>2, <2>3, <2>4, <1>2 DEF EventBound
<1> QED
  BY <1>3, <1>4, <1>6, <1>7, <1>8, <1>9 DEF BridgeInv, RowsInv

LEMMA LogLineBridge ==
  ASSUME BridgeInv, NEW s \in Stream, LogLine(s)
  PROVE  BridgeInv'
<1> USE Sizes, SpanIsTyped
<1>1. BridgeTyped /\ RowsInv /\ EventsBounded
  BY DEF BridgeInv
<1>2. PICK n : n = Cardinality(logged)
  OBVIOUS
<1>3. n \in Nat /\ n < MaxEvents
  BY <1>1, <1>2, FS_CardinalityType DEF BridgeTyped, LogLine
<1>4. PICK e : e = [stream |-> s, ts |-> n + 1, at |-> now + 1]
  OBVIOUS
<1>5. e \in Event
  <2>1. n + 1 \in 1..MaxEvents /\ now + 1 \in 1..(MaxTime + 1)
    BY SMTT(30), <1>1, <1>3 DEF BridgeTyped
  <2> QED
    BY <2>1, <1>4 DEF Event
<1>6. /\ logged' = logged \cup {e}
      /\ UNCHANGED <<size, now, pc, offset, cursor, torn, restarts, aborts, events,
                     faults, labels, queued, lost, retries, whole>>
  BY <1>2, <1>4 DEF LogLine, bridge, producer, topics, consumer
<1>7. logged' \in SUBSET Event /\ IsFiniteSet(logged')
  BY <1>1, <1>5, <1>6, FS_AddElement DEF BridgeTyped
<1>8. BridgeTyped'
  BY <1>1, <1>6, <1>7 DEF BridgeTyped
<1>9. RowsInv'
  BY <1>1, <1>6, RowsKept
<1>10. EventsBounded'
  BY <1>1, <1>6 DEF EventsBounded, EventBound
<1> QED
  BY <1>8, <1>9, <1>10 DEF BridgeInv

(* A consumer drains rows that exist.                                      *)
LEMMA StartBridge ==
  ASSUME BridgeInv, Start
  PROVE  BridgeInv'
<1>1. BridgeTyped /\ RowsInv /\ EventsBounded
  BY DEF BridgeInv
<1>2. PICK n \in UpToTheEnds : labels' = Upto(n) /\ whole' = (n = Ends)
  BY DEF Start, Drain
<1>3. UNCHANGED <<now, logged, size, pc, offset, cursor, torn, restarts, aborts, lost,
                  queued, retries, events, faults>>
  BY DEF Start, lab, bridge, producer, topics
<1>4. labels' \in SUBSET Row
  <2> SUFFICES ASSUME NEW p \in Partition, NEW x \in ToSet(SubSeq(faults[p], 1, n[p]))
               PROVE  x \in Row
    BY <1>2 DEF Upto
  <2>1. PICK s : s = faults[p]
    OBVIOUS
  <2>2. s \in Seq(Row)
    BY <1>1, <2>1 DEF BridgeTyped
  <2>3. n[p] \in 0..Len(s)
    <3>1. n \in [Partition -> UNION {0..Ends[o] : o \in Partition}]
          /\ n[p] <= Ends[p] /\ Ends[p] = Len(s)
      BY <2>1 DEF UpToTheEnds, Ends
    <3>2. \A o \in Partition : Ends[o] \in Nat
      BY <1>1 DEF Ends, BridgeTyped
    <3>3. n[p] \in Nat
      <4>1. n[p] \in UNION {0..Ends[o] : o \in Partition}
        BY <3>1
      <4> QED
        BY <4>1, <3>2
    <3> QED
      BY <3>1, <3>3, <2>2
  <2>4. PICK c \in 0..Len(s) : c = n[p]
    BY <2>3
  <2>5. SubSeq(s, 1, c) \in Seq(Row)
    BY <2>2
  <2>6. x \in ToSet(SubSeq(s, 1, c))
    BY <2>1, <2>4
  <2> QED
    BY <2>5, <2>6 DEF ToSet
<1>5. whole' \in BOOLEAN
  BY <1>2
<1>6. BridgeTyped'
  BY <1>1, <1>3, <1>4, <1>5 DEF BridgeTyped
<1>7. RowsInv'
  BY <1>1, <1>3, RowsKept
<1>8. EventsBounded'
  BY <1>1, <1>3 DEF EventsBounded, EventBound
<1> QED
  BY <1>6, <1>7, <1>8 DEF BridgeInv

LEMMA BridgeNext ==
  ASSUME BridgeInv, [Next]_vars
  PROVE  BridgeInv'
<1> USE Sizes, SpanIsTyped
<1>1. BridgeTyped /\ RowsInv /\ EventsBounded
  BY DEF BridgeInv
<1>2. ASSUME BridgeTyped',
             UNCHANGED <<offset, cursor, torn, restarts, queued, lost, events, faults>>,
             aborts' \in {aborts, aborts + 1}, retries' \in {retries, retries + 1}
      PROVE  BridgeInv'
  <2>1. RowsInv'
    BY <1>1, <1>2, RowsKept
  <2>2. EventsBounded'
    BY <1>1, <1>2 DEF EventsBounded, EventBound
  <2> QED
    BY <1>2, <2>1, <2>2 DEF BridgeInv
<1>3. CASE AppendHalf
  <2>1. BridgeTyped'
    BY <1>3, <1>1 DEF AppendHalf, bridge, producer, topics, consumer, BridgeTyped
  <2> QED
    BY <2>1, <1>2, <1>3 DEF AppendHalf, bridge, producer, topics
<1>4. CASE \E s \in Stream : LogLine(s)
  BY <1>4, LogLineBridge
<1>5. CASE PumpMetrics \/ ResendMetrics \/ MetricsRaise
  <2>1. now \in Nat
    BY <1>1 DEF BridgeTyped
  <2>2. \/ /\ now < MaxTime /\ now' = now + 1
           /\ retries' \in {retries, retries + 1}
           /\ aborts' \in {aborts, aborts + 1} /\ pc' \in {"events", "asleep"}
           /\ UNCHANGED <<lab, offset, cursor, torn, restarts, queued, lost, events,
                          faults, consumer>>
        \/ /\ pc' = "events"
           /\ UNCHANGED <<now, metrics, lab, offset, cursor, torn, restarts,
                          aborts, producer, events, faults, consumer>>
    BY <2>1, <1>5, CycleSteps DEF Cycle
  <2>3. /\ now' \in 0..MaxTime /\ pc' \in {"events", "asleep"}
        /\ retries' \in {retries, retries + 1} /\ aborts' \in {aborts, aborts + 1}
        /\ UNCHANGED <<logged, size, offset, cursor, torn, restarts, queued, lost,
                       events, faults, labels, whole>>
    BY SMTT(30), <2>2, <1>1 DEF lab, producer, consumer, BridgeTyped
  <2>4. retries' \in Nat /\ aborts' \in Nat
    <3>1. retries \in Nat /\ aborts \in Nat
      BY <1>1 DEF BridgeTyped
    <3>2. retries' \in Nat
      BY <2>3, <3>1
    <3>3. aborts' \in Nat
      BY <2>3, <3>1
    <3> QED
      BY <3>2, <3>3
  <2>5. BridgeTyped'
    BY <2>3, <2>4, <1>1 DEF BridgeTyped
  <2> QED
    BY <2>3, <2>5, <1>2
<1>6. CASE LokiError \/ Flush
  <2>1. /\ UNCHANGED <<now, logged, size, offset, cursor, torn, restarts, aborts,
                       queued, lost, retries, events, faults, labels, whole>>
        /\ pc' \in {"faults", "asleep"}
    BY <1>6 DEF LokiError, Flush, lab, producer, topics, consumer
  <2>2. BridgeTyped'
    BY <1>1, <2>1 DEF BridgeTyped
  <2> QED
    BY <2>1, <2>2, <1>2
<1>7. CASE Consume \/ Commit \/ CrashConsumer \/ UNCHANGED vars
  <2>1. UNCHANGED <<now, logged, size, pc, offset, cursor, torn, restarts, aborts,
                    queued, lost, retries, events, faults, labels, whole>>
    BY <1>7 DEF Consume, Commit, CrashConsumer, vars, lab, bridge, producer, topics,
                consumer
  <2>2. BridgeTyped'
    BY <1>1, <2>1 DEF BridgeTyped
  <2> QED
    BY <1>2, <2>1, <2>2
<1> QED
  BY <1>3, <1>4, <1>5, <1>6, <1>7, StartBridge, PumpEventsBridge, PumpFaultsBridge,
     SendRaisesBridge, RestartBridgeBridge, DeliverBridge, DropBatchBridge,
     RetryBatchBridge DEF Next, Pump

(* The account is what the invariant says.                                 *)
LEMMA BridgeAccount ==
  BridgeInv => PassedLabelsAreSent /\ RepeatsAreExplained /\ EventsAreNotRepeated
<1> SUFFICES ASSUME BridgeInv
             PROVE  PassedLabelsAreSent /\ RepeatsAreExplained /\ EventsAreNotRepeated
  OBVIOUS
<1> USE Sizes, SpanIsTyped
<1>1. BridgeTyped /\ RowsInv /\ EventsBounded
  BY DEF BridgeInv
<1>2. ASSUME NEW k \in Row
      PROVE  /\ Times(Log(k), k) <= 1 + restarts + aborts + retries
             /\ \A p \in Partition : k \in ToSet(faults[p]) => p = PartOf[k]
  <2>1. PICK n, m : n = Times(Log(k), k) /\ m = Times(queued, k)
    OBVIOUS
  <2>2. n \in Nat /\ m \in Nat
    BY <2>1, <1>1, CopiesAreNat
  <2>3. n + m <= restarts + aborts + retries + IF 2 * k <= offset THEN 1 ELSE 0
    BY <2>1, <1>1 DEF RowsInv, RowsBounded, RowBound, Copies
  <2>4. n <= 1 + restarts + aborts + retries
    <3>1. restarts \in Nat /\ aborts \in Nat /\ retries \in Nat
      BY <1>1 DEF BridgeTyped
    <3>2. n + m <= restarts + aborts + retries + 1
      BY <2>2, <2>3, <3>1
    <3> QED
      BY <2>2, <3>1, <3>2
  <2>5. ASSUME NEW p \in Partition, k \in ToSet(faults[p]) PROVE p = PartOf[k]
    <3>1. PICK s : s = faults[p]
      OBVIOUS
    <3>2. s \in Seq(Row)
      BY <3>1, <1>1 DEF BridgeTyped
    <3>3. PICK i \in 1..Len(s) : s[i] = k
      <4>1. k \in ToSet(s)
        BY <2>5, <3>1
      <4>2. \E i \in DOMAIN s : s[i] = k
        BY <4>1 DEF ToSet
      <4>3. DOMAIN s = 1..Len(s)
        BY <3>2
      <4> QED
        BY <4>2, <4>3
    <3>4. PartOf[s[i]] = p
      BY <3>1, <3>3, <1>1 DEF RowsInv, InTheirPartition
    <3> QED
      BY <3>3, <3>4
  <2> QED
    BY <2>1, <2>4, <2>5
<1>3. ASSUME NEW e \in Event PROVE events[e] <= 1 + restarts
  <2>1. events[e] <= EventBound(e) /\ events[e] \in Nat /\ restarts \in Nat
    BY <1>1 DEF EventsBounded, BridgeTyped
  <2> QED
    BY <2>1 DEF EventBound
<1> QED
  BY <1>1, <1>2, <1>3 DEF RowsInv, RepeatsAreExplained, EventsAreNotRepeated

(* Whatever raises, fails or is started again: a label the offset has      *)
(* passed is on its topic or in the producer, or it was torn or in a batch *)
(* that failed.                                                            *)
THEOREM PassedLabels == Spec => []PassedLabelsAreSent
BY BridgeInit, BridgeNext, BridgeAccount, PTL DEF Spec

-----------------------------------------------------------------------------
(* The order of the buckets.                                               *)

(* Of one series, no row but the last is of the newest bucket, and two     *)
(* rows further on the bucket is not older.                                *)
Bucketed(m, t) ==
  /\ m \in Seq(Samples(t))
  /\ \A i, j \in 1..Len(m) :
       i < j /\ m[i].ent = m[j].ent => m[i].bucket < t
  /\ \A i, j, k \in 1..Len(m) :
       i < j /\ j < k /\ m[i].ent = m[j].ent /\ m[j].ent = m[k].ent =>
         m[i].bucket <= m[k].bucket

LEMMA CycleKeepsBuckets ==
  ASSUME NEW t \in Nat, NEW m, Bucketed(m, t), NEW p, Ordered(p, t + 1)
  PROVE  Bucketed(m \o p, t + 1)
<1> USE Sizes
<1>1. m \in Seq(Samples(t)) /\ m \in Seq(Samples(t + 1)) /\ p \in Seq(Samples(t + 1))
  <2>1. m \in Seq(Samples(t)) /\ p \in Seq(Samples(t + 1))
    BY DEF Bucketed, Ordered
  <2>2. \A i \in 1..Len(m) : m[i] \in Samples(t + 1)
    BY <2>1, SeqElements, SamplesGrow
  <2> QED
    BY <2>1, <2>2, SeqSubset
<1>2. PICK u : u = m \o p
  OBVIOUS
<1>3. PICK a, b \in Nat : a = Len(m) /\ b = Len(p)
  BY <1>1, SeqElements
<1>4. /\ u \in Seq(Samples(t + 1)) /\ Len(u) = a + b
      /\ \A i \in 1..a : u[i] = m[i]
      /\ \A i \in (a + 1)..(a + b) : u[i] = p[i - a]
  BY <1>1, <1>2, <1>3, SeqAppended
<1>5. \A i \in 1..(a + b) : u[i].bucket \in 1..(t + 1)
  <2>1. \A i \in 1..(a + b) : u[i] \in Samples(t + 1)
    BY <1>4, SeqElements
  <2>2. \A r \in Samples(t + 1) : r.bucket \in 1..(t + 1)
    BY SamplesGrow
  <2> QED
    BY <2>1, <2>2
<1>6. \A i \in 1..a : u[i].bucket \in 1..t
  <2>1. \A i \in 1..a : m[i] \in Samples(t)
    BY <1>1, <1>3, SeqElements
  <2>2. \A r \in Samples(t) : r.bucket \in 1..t
    BY SamplesGrow
  <2> QED
    BY <2>1, <2>2, <1>4
<1>7. \A i \in (a + 1)..(a + b) : u[i].bucket >= t - 1
  <2> SUFFICES ASSUME NEW i \in (a + 1)..(a + b) PROVE u[i].bucket >= t - 1
    OBVIOUS
  <2>1. PICK k \in 1..b : k = i - a
    <3>1. i - a \in 1..b
      BY <1>3
    <3> QED
      BY <3>1
  <2>2. u[i] = p[k]
    BY <2>1, <1>4
  <2>3. PICK x \in Nat : x = u[i].bucket
    BY <1>3, <1>5
  <2>4. x + 2 >= t + 1
    <3>1. p[k].bucket + 2 >= t + 1
      BY <1>3 DEF Ordered
    <3> QED
      BY <3>1, <2>2, <2>3
  <2> QED
    BY <2>3, <2>4
<1>8. ASSUME NEW i \in (a + 1)..(a + b), NEW j \in (a + 1)..(a + b), i < j,
             u[i].ent = u[j].ent
      PROVE  u[i].bucket < u[j].bucket
  <2>1. PICK k, l \in 1..b : k = i - a /\ l = j - a /\ k < l
    BY <1>3, <1>8
  <2>2. u[i] = p[k] /\ u[j] = p[l]
    BY <2>1, <1>4
  <2> QED
    BY <2>1, <2>2, <1>3, <1>8 DEF Ordered
<1>9. ASSUME NEW i \in 1..(a + b), NEW j \in 1..(a + b), i < j, u[i].ent = u[j].ent
      PROVE  u[i].bucket < t + 1
  <2>1. CASE i <= a
    BY <2>1, <1>3, <1>6
  <2>2. CASE i > a
    <3>1. i \in (a + 1)..(a + b) /\ j \in (a + 1)..(a + b)
      BY <2>2, <1>3, <1>9
    <3>2. u[i].bucket < u[j].bucket /\ u[j].bucket \in 1..(t + 1)
          /\ u[i].bucket \in Nat
      BY <3>1, <1>5, <1>8, <1>9
    <3> QED
      BY <3>2
  <2> QED
    BY <2>1, <2>2, <1>3
<1>10. ASSUME NEW i \in 1..(a + b), NEW j \in 1..(a + b), NEW k \in 1..(a + b),
              i < j, j < k, u[i].ent = u[j].ent, u[j].ent = u[k].ent
       PROVE  u[i].bucket <= u[k].bucket
  <2>0. u[i].bucket \in Nat /\ u[k].bucket \in Nat /\ u[j].bucket \in Nat
    BY <1>5
  <2>1. CASE k <= a
    <3>1. i \in 1..a /\ j \in 1..a /\ k \in 1..a
      BY <2>1, <1>3, <1>10
    <3>2. u[i] = m[i] /\ u[j] = m[j] /\ u[k] = m[k]
      BY <3>1, <1>4
    <3> QED
      BY <3>1, <3>2, <1>3, <1>10 DEF Bucketed
  <2>2. CASE j <= a /\ k > a
    <3>1. i \in 1..a /\ j \in 1..a /\ k \in (a + 1)..(a + b)
      BY <2>2, <1>3, <1>10
    <3>2. u[i] = m[i] /\ u[j] = m[j]
      BY <3>1, <1>4
    <3>3. m[i].bucket < t
      BY <3>1, <3>2, <1>3, <1>10 DEF Bucketed
    <3>4. u[k].bucket >= t - 1
      BY <3>1, <1>7
    <3> QED
      BY <2>0, <3>2, <3>3, <3>4
  <2>3. CASE i <= a /\ j > a
    <3>1. i \in 1..a /\ j \in (a + 1)..(a + b) /\ k \in (a + 1)..(a + b)
      BY <2>3, <1>3, <1>10
    <3>2. u[i].bucket <= t
      BY <3>1, <1>6
    <3>3. u[j].bucket < u[k].bucket /\ u[j].bucket >= t - 1
      BY <3>1, <1>7, <1>8, <1>10
    <3> QED
      BY <2>0, <3>2, <3>3
  <2>4. CASE i > a
    <3>1. i \in (a + 1)..(a + b) /\ k \in (a + 1)..(a + b) /\ i < k
      BY <2>4, <1>3, <1>10
    <3>2. u[i].bucket < u[k].bucket
      BY <3>1, <1>8, <1>10
    <3> QED
      BY <2>0, <3>2
  <2> QED
    BY <2>1, <2>2, <2>3, <2>4, <1>3, <1>10
<1> QED
  BY <1>2, <1>3, <1>4, <1>9, <1>10 DEF Bucketed

-----------------------------------------------------------------------------
(* The buffers, whether or not the consumer crashed.                       *)

(* What is held of a series are rows of its own, in their order, and its   *)
(* counter knows how full the buffer is.                                   *)
RowsOf(b, e) ==
  /\ \A i \in 1..Len(b) : b[i] \in 1..pos /\ metrics[b[i]].ent = e
  /\ \A i, j \in 1..Len(b) : i < j => b[i] < b[j]

Held(e) ==
  /\ Len(buf[e]) <= L
  /\ Len(buf[e]) < L => since[e] = Len(buf[e])
  /\ Len(buf[e]) = L => since[e] < Stride
  /\ RowsOf(buf[e], e)

(* Whatever arrived, the topic holds rows of the buckets there are; they   *)
(* are in order as far as nothing was sent twice.                          *)
BufferInv ==
  /\ Typed /\ metrics \in Seq(Samples(now))
  /\ retries = 0 => Bucketed(metrics, now)
  /\ \A e \in Ent : Held(e)

LEMMA PushedInOrder ==
  ASSUME NEW b \in Seq(Nat), NEW p \in Nat, Len(b) <= L, NEW q, Grows(b, p, q),
         \A i \in 1..Len(b) : b[i] < p,
         \A i, j \in 1..Len(b) : i < j => b[i] < b[j]
  PROVE  /\ \A i \in 1..Len(q) : q[i] = p \/ \E j \in 1..Len(b) : q[i] = b[j]
         /\ \A i, j \in 1..Len(q) : i < j => q[i] < q[j]
<1> L \in Nat \ {0}
  BY Sizes
<1>1. PICK n \in Nat : n = Len(b) /\ n <= L
  OBVIOUS
<1>2. \A i \in 1..n : b[i] \in Nat
  BY <1>1
<1>3. CASE n = L
  <2>1. Len(q) = L /\ q[L] = p /\ \A i \in 1..(L - 1) : q[i] = b[i + 1]
    BY <1>1, <1>3 DEF Grows
  <2>2. \A i \in 1..(L - 1) : i + 1 \in 1..n
    BY <1>1, <1>3
  <2>3. \A i \in 1..Len(q) : q[i] = p \/ \E j \in 1..Len(b) : q[i] = b[j]
    <3> SUFFICES ASSUME NEW i \in 1..Len(q), i # L
                 PROVE  \E j \in 1..Len(b) : q[i] = b[j]
      BY <2>1
    <3>1. i \in 1..(L - 1)
      BY <2>1
    <3> QED
      BY <3>1, <2>1, <2>2, <1>1
  <2>4. ASSUME NEW i \in 1..L, NEW j \in 1..L, i < j PROVE q[i] < q[j]
    <3>1. i \in 1..(L - 1) /\ q[i] = b[i + 1] /\ i + 1 \in 1..n
      BY <2>4, <2>1, <2>2
    <3>2. CASE j = L
      <4>1. PICK x : x = b[i + 1]
        OBVIOUS
      <4>2. x \in Nat /\ x < p
        BY <3>1, <4>1, <1>1, <1>2
      <4>3. q[i] = x /\ q[j] = p
        BY <3>1, <3>2, <4>1, <2>1
      <4> QED
        BY <4>2, <4>3
    <3>3. CASE j # L
      <4>1. j \in 1..(L - 1) /\ q[j] = b[j + 1] /\ j + 1 \in 1..n /\ i + 1 < j + 1
        <5>1. j \in 1..(L - 1) /\ i + 1 < j + 1
          BY <2>4, <3>3
        <5> QED
          BY <5>1, <2>1, <2>2
      <4> QED
        BY <3>1, <4>1, <1>1
    <3> QED
      BY <3>2, <3>3
  <2> QED
    BY <2>1, <2>3, <2>4
<1>4. CASE n < L
  <2>1. Len(q) = n + 1 /\ q[n + 1] = p /\ \A i \in 1..n : q[i] = b[i]
    BY <1>1, <1>4 DEF Grows
  <2>2. \A i \in 1..(n + 1) : i = n + 1 \/ i \in 1..n
    BY <1>1
  <2>3. \A i \in 1..Len(q) : q[i] = p \/ \E j \in 1..Len(b) : q[i] = b[j]
    BY <2>1, <2>2, <1>1
  <2>4. ASSUME NEW i \in 1..(n + 1), NEW j \in 1..(n + 1), i < j PROVE q[i] < q[j]
    <3>1. i \in 1..n
      BY <2>4, <1>1
    <3>2. CASE j = n + 1
      BY <3>1, <3>2, <2>1, <1>1
    <3>3. CASE j \in 1..n
      BY <3>1, <3>3, <2>1, <2>4, <1>1
    <3> QED
      BY <2>2, <3>2, <3>3
  <2> QED
    BY <2>1, <2>3, <2>4
<1> QED
  BY <1>1, <1>3, <1>4

LEMMA BufferInit == Init => BufferInv
<1> SUFFICES ASSUME Init PROVE BufferInv
  OBVIOUS
<1> USE Sizes
<1>1. Typed
  BY InitInv DEF Inv
<1>2. metrics \in Seq(Samples(now)) /\ Bucketed(metrics, now)
  BY DEF Init, Bucketed
<1>3. ASSUME NEW e \in Ent PROVE Held(e)
  BY DEF Init, Held, RowsOf
<1> QED
  BY <1>1, <1>2, <1>3 DEF BufferInv

LEMMA ConsumeHeld ==
  ASSUME BufferInv, Consume
  PROVE  \A e \in Ent : Held(e)'
<1> USE Sizes
<1>1. Typed /\ \A e \in Ent : Held(e)
  BY DEF BufferInv
<1>2. /\ pos + 1 \in 1..Len(metrics)
      /\ metrics[pos + 1].ent \in Ent
  <2>1. pos + 1 \in 1..Len(metrics)
    BY <1>1 DEF Consume, Typed
  <2>2. metrics[pos + 1] \in Sample
    BY <2>1, <1>1 DEF Typed
  <2> QED
    BY <2>1, <2>2 DEF Sample
<1>3. PICK e, p, q, n :
        p = pos + 1 /\ e = metrics[p].ent /\ q = Pushed(buf[e], p)
        /\ n = since[e] + 1
  OBVIOUS
<1>4. /\ pos' = p /\ UNCHANGED metrics
      /\ buf' = [buf EXCEPT ![e] = q]
      /\ Due(q, n) => since' = [since EXCEPT ![e] = 0]
      /\ ~Due(q, n) => since' = [since EXCEPT ![e] = n]
  <2>1. since' = [since EXCEPT ![e] = @ + 1] => since' = [since EXCEPT ![e] = n]
    BY <1>3
  <2> QED
    BY <1>3, <2>1 DEF Consume, topics
<1>5. /\ e \in Ent /\ p \in Nat /\ pos \in Nat /\ p = pos + 1
      /\ buf \in [Ent -> Seq(Nat)] /\ since \in [Ent -> Nat]
  BY <1>1, <1>2, <1>3 DEF Typed
<1>6. Held(e)
  BY <1>1, <1>5
<1>7. PICK b : b = buf[e]
  OBVIOUS
<1>8. /\ b \in Seq(Nat) /\ Len(b) <= L
      /\ Len(b) < L => since[e] = Len(b)
      /\ Len(b) = L => since[e] < Stride
      /\ RowsOf(b, e)
  BY <1>5, <1>6, <1>7 DEF Held
<1>9. \A i \in 1..Len(b) : b[i] \in 1..pos /\ b[i] < p /\ metrics[b[i]].ent = e
  <2>1. \A i \in 1..Len(b) : b[i] \in 1..pos /\ metrics[b[i]].ent = e
    BY <1>8 DEF RowsOf
  <2>2. \A k \in 1..pos : k < p
    BY <1>5
  <2> QED
    BY <2>1, <2>2
<1>10. Grows(b, p, q)
  <2>1. b \in Seq(Nat) /\ p \in Nat /\ Len(b) <= L
    BY <1>5, <1>8
  <2>2. q = Pushed(b, p)
    BY <1>3, <1>7
  <2> QED
    BY <2>1, <2>2, PushedRows
<1>11. /\ \A i \in 1..Len(q) : q[i] = p \/ \E j \in 1..Len(b) : q[i] = b[j]
       /\ \A i, j \in 1..Len(q) : i < j => q[i] < q[j]
  <2>1. \A i, j \in 1..Len(b) : i < j => b[i] < b[j]
    BY <1>8 DEF RowsOf
  <2>2. b \in Seq(Nat) /\ p \in Nat /\ Len(b) <= L
    BY <1>5, <1>8
  <2>3. \A i \in 1..Len(b) : b[i] < p
    BY <1>9
  <2> QED
    BY <2>1, <2>2, <2>3, <1>10, PushedInOrder
<1>12. \A i \in 1..Len(q) : q[i] \in 1..p /\ metrics[q[i]].ent = e
  <2> SUFFICES ASSUME NEW i \in 1..Len(q)
               PROVE  q[i] \in 1..p /\ metrics[q[i]].ent = e
    OBVIOUS
  <2>1. CASE q[i] = p
    BY <2>1, <1>3, <1>5
  <2>2. CASE \E j \in 1..Len(b) : q[i] = b[j]
    BY <2>2, <1>5, <1>9
  <2> QED
    BY <2>1, <2>2, <1>11
<1>13. buf'[e] = q /\ since'[e] = IF Due(q, n) THEN 0 ELSE n
  BY <1>4, <1>5
<1>14. Held(e)'
  <2>1. RowsOf(q, e)'
    BY <1>4, <1>11, <1>12 DEF RowsOf
  <2>2. Len(q) = (IF Len(b) = L THEN L ELSE Len(b) + 1) /\ Len(q) \in Nat
    BY <1>10 DEF Grows
  <2>3. Len(q) <= L
    BY <2>2, <1>8
  <2>4. Len(q) < L => since'[e] = Len(q)
    <3> SUFFICES ASSUME Len(q) < L PROVE since'[e] = Len(q)
      OBVIOUS
    <3>1. Len(b) < L /\ Len(q) = Len(b) + 1
      BY <2>2, <1>8
    <3>2. ~Due(q, n)
      BY DEF Due
    <3> QED
      BY <3>1, <3>2, <1>3, <1>8, <1>13
  <2>5. Len(q) = L => since'[e] < Stride
    <3> SUFFICES ASSUME Len(q) = L PROVE since'[e] < Stride
      OBVIOUS
    <3>1. CASE Due(q, n)
      BY <3>1, <1>13
    <3>2. CASE ~Due(q, n)
      <4>1. ~(n >= Stride)
        BY <3>2 DEF Due
      <4>2. n \in Nat
        BY <1>3, <1>5
      <4> QED
        BY <3>2, <4>1, <4>2, <1>13
    <3> QED
      BY <3>1, <3>2
  <2> QED
    BY <2>1, <2>3, <2>4, <2>5, <1>13 DEF Held
<1>15. ASSUME NEW f \in Ent, f # e PROVE Held(f)'
  <2>1. Held(f) /\ buf'[f] = buf[f] /\ since'[f] = since[f]
    BY <1>1, <1>4, <1>5, <1>15
  <2>2. RowsOf(buf[f], f)
    BY <2>1 DEF Held
  <2>3. 1..pos \subseteq 1..pos'
    BY <1>4, <1>5
  <2>4. RowsOf(buf[f], f)'
    BY <2>1, <2>2, <2>3, <1>4 DEF RowsOf
  <2> QED
    BY <2>1, <2>4 DEF Held
<1> QED
  BY <1>14, <1>15

LEMMA BufferNext ==
  ASSUME BufferInv, [Next]_vars
  PROVE  BufferInv'
<1> USE Sizes
<1>1. Typed /\ \A e \in Ent : Held(e)
  BY DEF BufferInv
<1>2. Typed'
  BY <1>1, TypedNext
<1>3. ASSUME UNCHANGED <<pos, buf, since>>,
             \A k \in 1..pos : metrics'[k] = metrics[k]
      PROVE  \A e \in Ent : Held(e)'
  <2> SUFFICES ASSUME NEW e \in Ent PROVE Held(e)'
    OBVIOUS
  <2>1. Held(e)
    BY <1>1
  <2> QED
    BY <2>1, <1>3 DEF Held, RowsOf
<1>4. ASSUME buf' = [e \in Ent |-> <<>>], since' = [e \in Ent |-> 0]
      PROVE  \A e \in Ent : Held(e)'
  BY <1>4 DEF Held, RowsOf
<1>5. ASSUME UNCHANGED <<now, metrics>>, retries' \in {retries, retries + 1}
      PROVE  metrics' \in Seq(Samples(now')) /\ (retries' = 0 => Bucketed(metrics', now'))
  <2>1. retries' = 0 => retries = 0
    BY <1>1, <1>5 DEF Typed
  <2> QED
    BY <2>1, <1>5 DEF BufferInv
<1>6. CASE Elsewhere \/ Commit
  <2>1. UNCHANGED <<now, metrics, pos, buf, since>> /\ retries' \in {retries, retries + 1}
    BY <1>6 DEF Elsewhere, Commit, bridge, producer, topics, consumer
  <2> QED
    BY <1>2, <1>3, <1>5, <2>1 DEF BufferInv
<1>7. CASE \E p : Cycle(p)
  <2>1. PICK p : Cycle(p)
    BY <1>7
  <2>2. UNCHANGED <<pos, buf, since>>
    BY <2>1 DEF Cycle, consumer
  <2>3. PICK t \in Nat : t = now
    BY <1>1 DEF Typed
  <2>4. /\ now' = t + 1 /\ metrics' = metrics \o p /\ p \in Seq(Samples(t + 1))
        /\ (retries' = retries /\ Ordered(p, t + 1)) \/ retries' = retries + 1
    BY <2>1, <2>3 DEF Cycle
  <2>5. /\ metrics \in Seq(Samples(t)) /\ metrics \in Seq(Samples(t + 1))
        /\ metrics \in Seq(Sample) /\ pos \in 0..Len(metrics)
    <3>1. metrics \in Seq(Samples(t)) /\ metrics \in Seq(Sample) /\ pos \in 0..Len(metrics)
      BY <2>3 DEF BufferInv, Typed
    <3>2. \A i \in 1..Len(metrics) : metrics[i] \in Samples(t + 1)
      BY <3>1, SeqElements, SamplesGrow
    <3> QED
      BY <3>1, <3>2, SeqSubset
  <2>6. metrics \o p \in Seq(Samples(t + 1))
    BY <2>4, <2>5, SeqAppended
  <2>7. ASSUME retries' = 0 PROVE Bucketed(metrics \o p, t + 1)
    <3>1. retries = 0 /\ retries' # retries + 1
      BY <2>4, <2>7, <1>1 DEF Typed
    <3>2. Ordered(p, t + 1) /\ Bucketed(metrics, t)
      BY <3>1, <2>3, <2>4 DEF BufferInv
    <3> QED
      BY <3>2, CycleKeepsBuckets
  <2>8. \A k \in 1..pos : metrics'[k] = metrics[k]
    <3>1. PICK m, u : m = metrics /\ u = m \o p
      OBVIOUS
    <3>2. m \in Seq(Samples(t + 1)) /\ \A k \in 1..Len(m) : u[k] = m[k]
      BY <3>1, <2>4, <2>5, SeqAppended
    <3> QED
      BY <3>1, <3>2, <2>4, <2>5
  <2> QED
    BY <1>2, <1>3, <2>2, <2>4, <2>6, <2>7, <2>8 DEF BufferInv
<1>8. CASE Start \/ CrashConsumer
  <2>1. /\ UNCHANGED <<now, metrics, retries>>
        /\ buf' = [e \in Ent |-> <<>>] /\ since' = [e \in Ent |-> 0]
    BY <1>8 DEF Start, CrashConsumer, bridge, producer, topics
  <2> QED
    BY <1>2, <1>4, <1>5, <2>1 DEF BufferInv
<1>9. CASE Consume
  <2>1. UNCHANGED <<now, metrics, retries>>
    BY <1>9 DEF Consume, bridge, producer, topics
  <2> QED
    BY <1>2, <1>5, <1>9, <2>1, ConsumeHeld DEF BufferInv
<1> QED
  BY <1>1, <1>6, <1>7, <1>8, <1>9, Steps DEF Typed

(* Types, and what every topic and the consumer's buffers hold, in every   *)
(* reachable state and for every value of the constants.                   *)
THEOREM StreamingTypes == Spec => []TypeOK
<1>1. BridgeInv /\ BufferInv => TypeOK
  <2> SUFFICES ASSUME BridgeInv, BufferInv PROVE TypeOK
    OBVIOUS
  <2> USE Sizes
  <2>1. BridgeTyped /\ Typed
    BY DEF BridgeInv, BufferInv
  <2>2. metrics \in Seq([ent : Ent, bucket : Bucket])
    <3>1. metrics \in Seq(Samples(now)) /\ now \in 0..MaxTime
      BY <2>1 DEF BufferInv, BridgeTyped
    <3>2. Samples(now) \subseteq [ent : Ent, bucket : Bucket]
      BY <3>1 DEF Samples, Bucket
    <3>3. \A i \in 1..Len(metrics) : metrics[i] \in [ent : Ent, bucket : Bucket]
      BY <3>1, <3>2, SeqElements
    <3> QED
      BY <3>1, <3>3, SeqSubset
  <2>3. ASSUME NEW e \in Ent PROVE Len(buf[e]) <= L /\ since[e] \in 0..(L - 1)
    <3>1. Held(e) /\ buf[e] \in Seq(Nat) /\ since[e] \in Nat
      BY <2>1 DEF BufferInv, Typed
    <3>2. PICK n \in Nat : n = Len(buf[e])
      BY <3>1
    <3>3. n <= L /\ (n < L => since[e] = n) /\ (n = L => since[e] < Stride)
      BY <3>1, <3>2 DEF Held
    <3> QED
      BY <3>1, <3>2, <3>3
  <2> QED
    BY <2>1, <2>2, <2>3 DEF TypeOK, BridgeTyped, Typed
<1>2. Init => BridgeInv /\ BufferInv
  BY BridgeInit, BufferInit
<1>3. BridgeInv /\ BufferInv /\ [Next]_vars => BridgeInv' /\ BufferInv'
  BY BridgeNext, BufferNext
<1> QED
  BY <1>1, <1>2, <1>3, PTL DEF Spec

(* Whatever raises, fails, is sent again or is started again: a label the  *)
(* offset has passed is on its topic or in the producer, or it was torn or *)
(* in a batch that failed; it is there once, in its device's partition,    *)
(* and once more for each restart, each cycle that raised and each batch   *)
(* that was sent again; an event is there once for each life of the        *)
(* bridge; and metric rows are in order but for neighbours, as far as      *)
(* nothing was sent again.                                                 *)
THEOREM SendsAccounted == Spec => []SendsAreAccounted
<1>1. Spec => []BridgeInv
  BY BridgeInit, BridgeNext, PTL DEF Spec
<1>2. Spec => []BufferInv
  BY BufferInit, BufferNext, PTL DEF Spec
<1>3. BridgeInv => PassedLabelsAreSent /\ RepeatsAreExplained /\ EventsAreNotRepeated
  BY BridgeAccount
<1>4. BufferInv => MetricsAreNearlyOrdered
  BY DEF BufferInv, Bucketed, MetricsAreNearlyOrdered
<1> QED
  BY <1>1, <1>2, <1>3, <1>4, StreamingTypes, PTL DEF SendsAreAccounted

-----------------------------------------------------------------------------
(* The labels of a window.                                                 *)

(* What a drain that reached the ends has read is what noc.faults held up  *)
(* to them.                                                                *)
DrainedTo(ls, ns) ==
  \A p \in Partition :
    ns[p] \in 0..Len(faults[p]) /\ \A i \in 1..ns[p] : faults[p][i] \in ls

Drained == whole => DrainedTo(labels, ends)

LastRan(w, k) == 2 * w.t1 \in Span[k][1]..Span[k][2]

LabelledRows(w) ==
  \A p \in Partition :
    /\ w.ends[p] \in 0..Len(faults[p])
    /\ \A i \in 1..w.ends[p] : LastRan(w, faults[p][i]) => faults[p][i] \in w.labels

LabelledBy(w) == w.whole /\ (retries = 0 \/ w.t0 <= w.t1) => LabelledRows(w)

WindowInv == BridgeInv /\ BufferInv /\ Drained /\ \A w \in windows : LabelledBy(w)

(* A partition is only appended to.                                        *)
Longer(s, t) ==
  /\ Len(s) \in Nat /\ Len(t) \in Nat /\ Len(s) <= Len(t)
  /\ \A i \in 1..Len(s) : t[i] = s[i]

LEMMA FaultsOnlyGrow ==
  ASSUME BridgeInv, [Next]_vars, NEW p \in Partition
  PROVE  Longer(faults[p], faults'[p])
<1>1. BridgeTyped /\ faults \in [Partition -> Seq(Row)]
  BY DEF BridgeInv, BridgeTyped
<1>2. ASSUME NEW i \in DOMAIN queued, Arrive(queued[i]) PROVE Longer(faults[p], faults'[p])
  <2>1. PICK k, o, s, r : k = queued[i] /\ o = PartOf[k] /\ s = faults[o] /\ r = Append(s, k)
    OBVIOUS
  <2>2. k \in Row /\ o \in Partition /\ s \in Seq(Row)
    <3>1. k \in Row
      BY <2>1, <1>1 DEF BridgeTyped
    <3> QED
      BY <3>1, <2>1, <1>1, SpanIsTyped
  <2>3. Longer(s, r)
    BY <2>1, <2>2 DEF Longer
  <2>4. faults' = [faults EXCEPT ![o] = r]
    BY <1>2, <2>1 DEF Arrive
  <2>5. CASE p = o
    BY <2>1, <2>2, <2>3, <2>4, <2>5, <1>1
  <2>6. CASE p # o
    <3>1. faults'[p] = faults[p]
      BY <2>4, <2>6, <1>1
    <3> QED
      BY <3>1, <1>1 DEF Longer
  <2> QED
    BY <2>5, <2>6
<1>3. ASSUME UNCHANGED faults PROVE Longer(faults[p], faults'[p])
  BY <1>1, <1>3 DEF Longer
<1>4. CASE Deliver \/ RetryBatch
  BY <1>2, <1>3, <1>4 DEF Deliver, RetryBatch
<1>5. CASE PumpMetrics \/ ResendMetrics \/ MetricsRaise
  BY <1>3, <1>5 DEF PumpMetrics, ResendMetrics, MetricsRaise
<1>6. CASE AppendHalf \/ (\E s \in Stream : LogLine(s)) \/ LokiError \/ SendRaises
           \/ RestartBridge \/ DropBatch
  BY <1>3, <1>6 DEF AppendHalf, LogLine, LokiError, SendRaises, RestartBridge,
                    DropBatch, topics
<1>7. CASE PumpFaults \/ Flush \/ \E order \in Orders : PumpEvents(order)
  BY <1>3, <1>7 DEF PumpFaults, Flush, PumpEvents, topics
<1>8. CASE Start \/ Consume \/ Commit \/ CrashConsumer \/ UNCHANGED vars
  BY <1>3, <1>8 DEF Start, Consume, Commit, CrashConsumer, vars, topics
<1> QED
  BY <1>4, <1>5, <1>6, <1>7, <1>8 DEF Next, Pump

LEMMA RetriesGrow ==
  ASSUME BufferInv, [Next]_vars
  PROVE  retries' \in {retries, retries + 1} /\ retries \in Nat
<1>1. now \in Nat /\ retries \in Nat
  BY DEF BufferInv, Typed
<1>2. CASE Elsewhere \/ \E p : Cycle(p)
  <2>1. ASSUME NEW p, Cycle(p) PROVE retries' = retries \/ retries' = retries + 1
    BY <2>1 DEF Cycle
  <2> QED
    BY <2>1, <1>1, <1>2 DEF Elsewhere
<1>3. CASE Start \/ Consume \/ Commit \/ CrashConsumer
  <2>1. retries' = retries
    BY <1>3 DEF Start, Consume, Commit, CrashConsumer, producer
  <2> QED
    BY <2>1, <1>1
<1> QED
  BY <1>1, <1>2, <1>3, Steps

(* Only Start drains, and only Consume emits a window.                     *)
LEMMA ConsumerKept ==
  ASSUME BufferInv, [Next]_vars
  PROVE  /\ Start \/ UNCHANGED <<ends, labels, whole>>
         /\ Consume \/ windows' = windows
<1>1. now \in Nat
  BY DEF BufferInv, Typed
<1>2. CASE Elsewhere \/ \E p : Cycle(p)
  BY <1>2 DEF Elsewhere, Cycle, consumer
<1>3. CASE Start
  BY <1>3 DEF Start
<1>4. CASE Consume
  BY <1>4 DEF Consume
<1>5. CASE Commit \/ CrashConsumer
  BY <1>5 DEF Commit, CrashConsumer
<1> QED
  BY <1>1, <1>2, <1>3, <1>4, <1>5, Steps

(* A window's first bucket is no later than its last.                      *)
LEMMA WindowSpans ==
  ASSUME L # 2, Bucketed(metrics, now), now \in Nat, NEW e, NEW q \in Seq(Nat),
         Len(q) = L, \A i \in 1..Len(q) : q[i] \in 1..Len(metrics) /\ metrics[q[i]].ent = e,
         \A i, j \in 1..Len(q) : i < j => q[i] < q[j]
  PROVE  /\ metrics[q[1]].bucket \in Nat /\ metrics[q[L]].bucket \in Nat
         /\ metrics[q[1]].bucket <= metrics[q[L]].bucket
<1> L \in Nat \ {0}
  BY Sizes
<1>1. \A k \in 1..Len(metrics) : metrics[k].bucket \in Nat
  <2>1. \A k \in 1..Len(metrics) : metrics[k] \in Samples(now)
    BY SeqElements DEF Bucketed
  <2>2. \A r \in Samples(now) : r.bucket \in 1..now
    BY SamplesGrow
  <2> QED
    BY <2>1, <2>2
<1>2. PICK a, c : a = q[1] /\ c = q[L]
  OBVIOUS
<1>3. a \in 1..Len(metrics) /\ c \in 1..Len(metrics) /\ metrics[a].ent = e
      /\ metrics[c].ent = e
  BY <1>2
<1>4. CASE L = 1
  BY <1>1, <1>2, <1>3, <1>4
<1>5. CASE L # 1
  <2>1. 1 \in 1..Len(q) /\ 2 \in 1..Len(q) /\ L \in 1..Len(q) /\ 2 < L
    BY <1>5
  <2>2. PICK b : b = q[2]
    OBVIOUS
  <2>3. b \in 1..Len(metrics) /\ metrics[b].ent = e /\ a < b /\ b < c
    BY <2>1, <2>2, <1>2
  <2>4. metrics[a].bucket <= metrics[c].bucket
    BY <2>3, <1>3 DEF Bucketed
  <2> QED
    BY <2>4, <1>1, <1>2, <1>3
<1> QED
  BY <1>4, <1>5

LEMMA WindowInit == Init => WindowInv
<1> SUFFICES ASSUME Init PROVE WindowInv
  OBVIOUS
<1>1. /\ ends = [p \in Partition |-> 0] /\ faults = [p \in Partition |-> <<>>]
      /\ windows = {}
  BY DEF Init
<1> QED
  BY <1>1, BridgeInit, BufferInit DEF WindowInv, Drained, DrainedTo

(* The window a step adds carries the labels that were drained.            *)
LEMMA NewWindowLabelled ==
  ASSUME L # 2, WindowInv, Consume, NEW w \in windows' \ windows
  PROVE  LabelledBy(w)
<1> USE Sizes
<1>1. BridgeInv /\ BufferInv /\ Drained
  BY DEF WindowInv
<1>2. PICK e, p, q : /\ p = pos + 1 /\ e = metrics[p].ent
                     /\ q = Pushed(buf[e], p) /\ w = Window(e, q) /\ Len(q) = L
                     /\ buf' = [buf EXCEPT ![e] = q] /\ pos' = p
  <2> DEFINE e == metrics[pos + 1].ent
             q == Pushed(buf[e], pos + 1)
  <2>1. Due(q, since[e] + 1) /\ windows' = windows \cup {Window(e, q)}
        /\ buf' = [buf EXCEPT ![e] = q] /\ pos' = pos + 1
    BY DEF Consume
  <2>2. w = Window(e, q) /\ Len(q) = L
    BY <2>1 DEF Due
  <2> QED
    BY <2>1, <2>2
<1>3. /\ Typed /\ p \in 1..Len(metrics) /\ e \in Ent
      /\ now \in Nat /\ (retries = 0 => Bucketed(metrics, now))
      /\ metrics \in Seq(Samples(now))
  <2>1. /\ Typed /\ metrics \in Seq(Samples(now))
        /\ retries = 0 => Bucketed(metrics, now)
    BY <1>1 DEF BufferInv
  <2>2. p \in 1..Len(metrics)
    BY <1>2, <2>1 DEF Consume, Typed
  <2>3. metrics[p] \in Sample
    BY <2>1, <2>2 DEF Typed
  <2> QED
    BY <2>1, <2>2, <2>3, <1>2 DEF Typed, Sample
<1>4. Held(e)' /\ metrics' = metrics
  BY <1>1, <1>3, ConsumeHeld DEF Consume, topics
<1>5. buf'[e] = q
  BY <1>2, <1>3 DEF Typed
<1>6. q \in Seq(Nat)
  <2>1. buf[e] \in Seq(Nat) /\ p \in Nat /\ Len(buf[e]) <= L
    BY <1>1, <1>3 DEF BufferInv, Typed, Held
  <2> QED
    BY <2>1, <1>2, PushedRows DEF Grows
<1>7. /\ \A i \in 1..Len(q) : q[i] \in 1..Len(metrics) /\ metrics[q[i]].ent = e
      /\ \A i, j \in 1..Len(q) : i < j => q[i] < q[j]
  <2>1. RowsOf(q, e)'
    BY <1>4, <1>5 DEF Held
  <2>2. 1..pos' \subseteq 1..Len(metrics)
    BY <1>2, <1>3
  <2> QED
    BY <2>1, <2>2, <1>4 DEF RowsOf
<1>8. PICK t0, t1 : t0 = metrics[q[1]].bucket /\ t1 = metrics[q[L]].bucket
  OBVIOUS
<1>9. t0 \in Nat /\ t1 \in Nat
  <2>1. q[1] \in 1..Len(metrics) /\ q[L] \in 1..Len(metrics)
    BY <1>2, <1>7
  <2>2. metrics[q[1]] \in Samples(now) /\ metrics[q[L]] \in Samples(now)
    BY <2>1, <1>3, SeqElements
  <2>3. \A r \in Samples(now) : r.bucket \in 1..now
    BY <1>3, SamplesGrow
  <2>4. t0 \in 1..now /\ t1 \in 1..now
    BY SMTT(30), <2>2, <2>3, <1>8
  <2> QED
    BY <2>4, <1>3
<1>10. /\ w.ends = ends /\ w.t0 = t0 /\ w.t1 = t1 /\ w.whole = whole
       /\ w.labels = {k \in labels : Overlaps(k, t0, t1)}
  BY <1>2, <1>8 DEF Window
<1> SUFFICES ASSUME w.whole, retries = 0 \/ w.t0 <= w.t1, NEW o \in Partition
             PROVE  /\ w.ends[o] \in 0..Len(faults[o])
                    /\ \A i \in 1..w.ends[o] :
                         LastRan(w, faults[o][i]) => faults[o][i] \in w.labels
  BY DEF LabelledBy, LabelledRows
<1>11. t0 <= t1
  <2>1. CASE retries = 0
    <3>1. Len(q) = L
      BY <1>2
    <3>2. Bucketed(metrics, now) /\ now \in Nat
      BY <2>1, <1>3
    <3>3. /\ metrics[q[1]].bucket \in Nat /\ metrics[q[L]].bucket \in Nat
          /\ metrics[q[1]].bucket <= metrics[q[L]].bucket
      BY <3>1, <3>2, <1>6, <1>7, WindowSpans, Zenon
    <3> QED
      BY <3>3, <1>8
  <2>2. CASE w.t0 <= w.t1
    BY <2>2, <1>10
  <2> QED
    BY <2>1, <2>2
<1>12. /\ w.ends[o] \in 0..Len(faults[o])
       /\ \A i \in 1..w.ends[o] : faults[o][i] \in labels
  BY <1>1, <1>10 DEF Drained, DrainedTo
<1>13. ASSUME NEW i \in 1..w.ends[o], LastRan(w, faults[o][i])
       PROVE  faults[o][i] \in w.labels
  <2>1. PICK k : k = faults[o][i]
    OBVIOUS
  <2>2. k \in labels /\ k \in Row
    BY <1>1, <1>12, <2>1 DEF BridgeInv, BridgeTyped
  <2>3. PICK first, last : first = Span[k][1] /\ last = Span[k][2]
    OBVIOUS
  <2>4. first \in Nat /\ last \in Nat
    <3>1. Span[k] \in Nat \X Nat
      BY <2>2, StreamingAssumption DEF Row
    <3> QED
      BY <3>1, <2>3
  <2>5. first <= 2 * t1 /\ 2 * t1 <= last
    BY <1>13, <1>10, <2>1, <2>3, <2>4, <1>9 DEF LastRan
  <2>6. Overlaps(k, t0, t1)
    <3>1. last >= 2 * t0
      BY <2>4, <2>5, <1>9, <1>11
    <3> QED
      BY <3>1, <2>3, <2>5 DEF Overlaps
  <2> QED
    BY <2>1, <2>2, <2>6, <1>10
<1> QED
  BY <1>12, <1>13

LEMMA WindowNext ==
  ASSUME L # 2, WindowInv, [Next]_vars
  PROVE  WindowInv'
<1>1. BridgeInv /\ BufferInv /\ Drained /\ \A w \in windows : LabelledBy(w)
  BY DEF WindowInv
<1>2. BridgeInv' /\ BufferInv'
  BY <1>1, BridgeNext, BufferNext
<1>3. \A p \in Partition : Longer(faults[p], faults'[p])
  BY <1>1, FaultsOnlyGrow
<1>4. ASSUME NEW w, LabelledBy(w) PROVE LabelledBy(w)'
  <2>1. retries' = 0 => retries = 0
    <3>1. retries' \in {retries, retries + 1} /\ retries \in Nat
      BY <1>1, RetriesGrow
    <3> QED
      BY <3>1
  <2> SUFFICES ASSUME LabelledRows(w), NEW p \in Partition
               PROVE  /\ w.ends[p] \in 0..Len(faults'[p])
                      /\ \A i \in 1..w.ends[p] :
                           LastRan(w, faults'[p][i]) => faults'[p][i] \in w.labels
    BY <2>1, <1>4 DEF LabelledBy, LabelledRows, LastRan
  <2>2. PICK s, t, n : s = faults[p] /\ t = faults'[p] /\ n = w.ends[p]
    OBVIOUS
  <2>3. n \in 0..Len(s) /\ \A i \in 1..n : LastRan(w, s[i]) => s[i] \in w.labels
    BY <2>2 DEF LabelledRows
  <2>4. Longer(s, t)
    BY <2>2, <1>3
  <2>5. n \in 0..Len(t) /\ \A i \in 1..n : t[i] = s[i]
    BY <2>3, <2>4 DEF Longer
  <2> QED
    BY <2>2, <2>3, <2>5
<1>5. Drained'
  <2>1. CASE Start
    <3>1. PICK n \in UpToTheEnds :
            labels' = Upto(n) /\ whole' = (n = Ends) /\ ends' = Ends /\ faults' = faults
      BY <2>1 DEF Start, Drain, topics
    <3> SUFFICES ASSUME n = Ends, NEW p \in Partition
                 PROVE  /\ Ends[p] \in 0..Len(faults[p])
                        /\ \A i \in 1..Ends[p] : faults[p][i] \in Upto(n)
      BY <3>1 DEF Drained, DrainedTo
    <3>2. PICK s : s = faults[p]
      OBVIOUS
    <3>3. s \in Seq(Row) /\ Ends[p] = Len(s)
      BY <3>2, <1>1 DEF Ends, BridgeInv, BridgeTyped
    <3>4. PICK r : r = SubSeq(s, 1, Len(s))
      OBVIOUS
    <3>5. r \in Seq(Row) /\ Len(r) = Len(s) /\ \A i \in 1..Len(s) : r[i] = s[i]
      BY <3>3, <3>4
    <3>6. \A i \in 1..Len(s) : s[i] \in ToSet(r)
      BY <3>5 DEF ToSet
    <3>7. ToSet(r) \subseteq Upto(n)
      BY <3>2, <3>3, <3>4 DEF Upto
    <3> QED
      BY <3>2, <3>3, <3>6, <3>7
  <2>2. CASE ~Start
    <3>1. UNCHANGED <<ends, labels, whole>>
      BY <2>2, <1>1, ConsumerKept
    <3> SUFFICES ASSUME whole, NEW p \in Partition
                 PROVE  /\ ends[p] \in 0..Len(faults'[p])
                        /\ \A i \in 1..ends[p] : faults'[p][i] \in labels
      BY <3>1 DEF Drained, DrainedTo
    <3>2. PICK s, t, n : s = faults[p] /\ t = faults'[p] /\ n = ends[p]
      OBVIOUS
    <3>3. n \in 0..Len(s) /\ \A i \in 1..n : s[i] \in labels
      BY <3>2, <1>1 DEF Drained, DrainedTo
    <3>4. Longer(s, t)
      BY <3>2, <1>3
    <3>5. n \in 0..Len(t) /\ \A i \in 1..n : t[i] = s[i]
      BY <3>3, <3>4 DEF Longer
    <3> QED
      BY <3>2, <3>3, <3>5
  <2> QED
    BY <2>1, <2>2
<1>6. ASSUME NEW w \in windows' PROVE LabelledBy(w)'
  <2>1. CASE w \in windows
    BY <2>1, <1>1, <1>4
  <2>2. CASE w \notin windows
    <3>1. Consume
      BY <2>2, <1>1, ConsumerKept
    <3> QED
      BY <2>2, <3>1, <1>4, NewWindowLabelled
  <2> QED
    BY <2>1, <2>2
<1> QED
  BY <1>2, <1>5, <1>6 DEF WindowInv

(* If its drain reached the ends, a window of one row or of more than two  *)
(* carries the label of every fault that was on noc.faults when the        *)
(* consumer that built it started and ran at the beginning of its last     *)
(* bucket: cycles overlap by two buckets, so that two rows that follow one *)
(* another may be in the wrong order, but no two that have a third between *)
(* them.  If rows were sent twice it holds of the windows that begin no    *)
(* later than they end.                                                    *)
THEOREM WindowsLabelled ==
  ASSUME L # 2
  PROVE  Spec => []WindowsAreLabelled
<1>1. WindowInv => WindowsAreLabelled
  <2> SUFFICES ASSUME WindowInv, NEW w \in windows, w.whole,
                      retries = 0 \/ w.t0 <= w.t1, NEW p \in Partition,
                      NEW k \in ToSet(SubSeq(faults[p], 1, w.ends[p])),
                      2 * w.t1 \in Span[k][1]..Span[k][2]
               PROVE  k \in w.labels
    BY DEF WindowsAreLabelled
  <2>1. PICK f : f = faults[p]
    OBVIOUS
  <2>2. f \in Seq(Row) /\ LabelledRows(w)
    BY <2>1 DEF WindowInv, BridgeInv, BridgeTyped, LabelledBy
  <2>3. PICK n \in 0..Len(f) : n = w.ends[p]
    BY <2>1, <2>2 DEF LabelledRows
  <2>4. PICK i \in 1..n : k = f[i]
    <3>1. PICK s : s = SubSeq(f, 1, n)
      OBVIOUS
    <3>2. s \in Seq(Row) /\ Len(s) = n /\ \A i \in 1..n : s[i] = f[i]
      BY <3>1, <2>2
    <3>3. PICK i \in DOMAIN s : k = s[i]
      BY <3>1, <2>1, <2>3 DEF ToSet
    <3>4. i \in 1..n
      BY <3>2, <3>3
    <3> QED
      BY <3>2, <3>3, <3>4
  <2> QED
    BY <2>1, <2>2, <2>3, <2>4 DEF LabelledRows, LastRan
<1>2. Init => WindowInv
  BY WindowInit
<1>3. WindowInv /\ [Next]_vars => WindowInv'
  BY WindowNext
<1> QED
  BY <1>1, <1>2, <1>3, PTL DEF Spec

-----------------------------------------------------------------------------
(* The copilot's incidents: a view is built row by row.                    *)

IsView(q, read, to) ==
  q = [n \in 0..to |-> IF n = 0 THEN <<>> ELSE AddFault(q[n - 1], read[n])]

LEMMA ViewExists ==
  ASSUME NEW read, NEW to \in Nat
  PROVE  \E q : IsView(q, read, to)
<1> DEFINE T == {m \in Nat : ~ \E q : IsView(q, read, m)}
<1> SUFFICES ASSUME T # {} PROVE FALSE
  OBVIOUS
<1>1. PICK x \in T : \A y \in T : x <= y
  <2>1. T \in SUBSET Nat
    OBVIOUS
  <2> HIDE DEF T
  <2> QED
    BY <2>1, NatMin
<1>2. x \in Nat /\ ~ \E q : IsView(q, read, x)
  OBVIOUS
<1>3. x # 0
  <2>1. IsView([n \in 0..0 |-> <<>>], read, 0)
    BY DEF IsView
  <2> QED
    BY <2>1, <1>2
<1>4. x - 1 \in Nat /\ x - 1 < x
  BY <1>2, <1>3
<1>5. x - 1 \notin T
  BY <1>1, <1>4
<1>6. PICK q : IsView(q, read, x - 1)
  BY <1>4, <1>5
<1>7. PICK r : r = [n \in 0..x |->
                     IF n = x THEN AddFault(q[x - 1], read[x]) ELSE q[n]]
  OBVIOUS
<1>8. IsView(r, read, x)
  <2>1. \A n \in 0..x : r[n] = IF n = 0 THEN <<>>
                                  ELSE AddFault(r[n - 1], read[n])
    <3> SUFFICES ASSUME NEW n \in 0..x
                 PROVE  r[n] = IF n = 0 THEN <<>>
                               ELSE AddFault(r[n - 1], read[n])
      OBVIOUS
    <3>1. CASE n = x
      <4>1. x - 1 \in 0..x /\ x - 1 # x /\ r[x - 1] = q[x - 1]
        BY <1>2, <1>4, <1>7
      <4>2. r[x] = AddFault(q[x - 1], read[x])
        BY <1>2, <1>7
      <4> QED
        BY <3>1, <4>1, <4>2, <1>3
    <3>2. CASE n # x
      <4>1. n \in 0..(x - 1) /\ r[n] = q[n]
        BY <3>2, <1>2, <1>7
      <4>2. q[n] = IF n = 0 THEN <<>> ELSE AddFault(q[n - 1], read[n])
        BY <4>1, <1>6 DEF IsView
      <4>3. n # 0 => r[n - 1] = q[n - 1]
        <5> SUFFICES ASSUME n # 0 PROVE r[n - 1] = q[n - 1]
          OBVIOUS
        <5>1. n - 1 \in 0..x /\ n - 1 # x
          BY <1>2
        <5> QED
          BY <5>1, <1>7
      <4> QED
        BY <4>1, <4>2, <4>3
    <3> QED
      BY <3>1, <3>2
  <2> QED
    BY <2>1, <1>7, Zenon DEF IsView
<1> QED
  BY <1>2, <1>8

LEMMA ViewSteps ==
  ASSUME NEW read, NEW to \in Nat, to = Len(read)
  PROVE  /\ Views(read)[0] = <<>>
         /\ \A n \in 0..(to - 1) :
              Views(read)[n + 1] = AddFault(Views(read)[n], read[n + 1])
<1>1. PICK v : v = Views(read)
  OBVIOUS
<1>2. IsView(v, read, to)
  <2>1. v = CHOOSE q : IsView(q, read, to)
    BY <1>1 DEF Views, IsView
  <2> QED
    BY <2>1, ViewExists
<1>3. \A n \in 0..to : v[n] = IF n = 0 THEN <<>>
                                 ELSE AddFault(v[n - 1], read[n])
  BY <1>2 DEF IsView
<1>4. 0 \in 0..to
  OBVIOUS
<1>5. ASSUME NEW n \in 0..(to - 1) PROVE v[n + 1] = AddFault(v[n], read[n + 1])
  <2>1. n + 1 \in 0..to /\ n + 1 # 0 /\ (n + 1) - 1 = n
    OBVIOUS
  <2> QED
    BY <2>1, <1>3
<1> QED
  BY <1>1, <1>3, <1>4, <1>5

(* A row that is not kept yet goes to the end, after m others; d is 1 when *)
(* the row that arrived first makes room for it.                           *)
Moved(q, k, r, d, m) ==
  /\ r \in Seq(Nat) /\ d \in {0, 1} /\ (d = 1 <=> Len(q) = Keep)
  /\ m \in Nat /\ m + d = Len(q)
  /\ Len(r) = m + 1 /\ Len(r) <= Keep
  /\ r[m + 1] = k
  /\ \A i \in 1..m : r[i] = q[i + d] /\ i + d \in 1..Len(q)

LEMMA AddFaultMoves ==
  ASSUME NEW q \in Seq(Nat), Len(q) <= Keep, NEW k \in Nat, k \notin ToSet(q)
  PROVE  \E d, m \in Nat : Moved(q, k, AddFault(q, k), d, m)
<1> Keep \in Nat \ {0}
  BY Sizes
<1>1. PICK n \in Nat : n = Len(q) /\ n <= Keep
  OBVIOUS
<1>2. CASE n = Keep
  <2>1. PICK t : t = Tail(q)
    OBVIOUS
  <2>2. t \in Seq(Nat) /\ Len(t) = n - 1 /\ \A i \in 1..(n - 1) : t[i] = q[i + 1]
    <3>1. Len(q) = Keep
      BY <1>1, <1>2
    <3>2. t \in Seq(Nat) /\ Len(t) = Keep - 1
          /\ \A i \in 1..(Keep - 1) : t[i] = q[i + 1]
      BY <3>1, <2>1
    <3> QED
      BY <3>2, <1>2
  <2>3. PICK r : r = Append(t, k)
    OBVIOUS
  <2>4. /\ r \in Seq(Nat) /\ Len(r) = (n - 1) + 1 /\ r[(n - 1) + 1] = k
        /\ \A i \in 1..(n - 1) : r[i] = q[i + 1]
    BY <1>2, <2>2, <2>3
  <2>5. /\ n - 1 \in Nat /\ (n - 1) + 1 = n
        /\ \A i \in 1..(n - 1) : i + 1 \in 1..n
    BY <1>2
  <2>6. Moved(q, k, r, 1, n - 1)
    BY <1>1, <1>2, <2>4, <2>5 DEF Moved
  <2> QED
    BY <1>1, <1>2, <2>1, <2>3, <2>6 DEF AddFault
<1>3. CASE n # Keep
  <2>1. PICK r : r = Append(q, k)
    OBVIOUS
  <2>2. /\ r \in Seq(Nat) /\ Len(r) = n + 1 /\ r[n + 1] = k
        /\ \A i \in 1..n : r[i] = q[i]
    BY <1>1, <2>1
  <2>3. /\ n + 0 = n /\ n + 1 <= Keep
        /\ \A i \in 1..n : i + 0 = i /\ i + 0 \in 1..n
    BY <1>1, <1>3
  <2>4. Moved(q, k, r, 0, n)
    BY <1>1, <1>3, <2>2, <2>3 DEF Moved
  <2> QED
    BY <1>1, <1>3, <2>1, <2>4 DEF AddFault
<1> QED
  BY <1>2, <1>3

(* In the rows 0..n, k was read before j was.                           *)
Before(read, n, k, j) ==
  \E a, b \in 1..n : a < b /\ read[a] = k /\ read[b] = j

(* What a view holds: no row twice, the one read last, in an order in      *)
(* which they arrived, and nothing read only before a row it dropped.      *)
Kept(read, n, q) ==
  /\ q \in Seq(Nat) /\ Len(q) <= Keep
  /\ \A i, j \in 1..Len(q) : q[i] = q[j] => i = j
  /\ n > 0 => \E i \in 1..Len(q) : q[i] = read[n]
  /\ \A i \in 1..Len(q) : \E a \in 1..n : read[a] = q[i]
  /\ \A i, j \in 1..Len(q) : i < j => Before(read, n, q[i], q[j])
  /\ \A a \in 1..n :
       (\A i \in 1..Len(q) : q[i] # read[a]) =>
         \A j \in 1..Len(q) : Before(read, n, read[a], q[j])

LEMMA BeforeLasts ==
  ASSUME NEW read, NEW n \in Nat, NEW k, NEW j, Before(read, n, k, j)
  PROVE  Before(read, n + 1, k, j)
<1>1. 1..n \subseteq 1..(n + 1)
  OBVIOUS
<1> QED
  BY <1>1 DEF Before

LEMMA BeforeTheNewest ==
  ASSUME NEW read, NEW n \in Nat, NEW k,
         NEW a \in 1..n, read[a] = k
  PROVE  Before(read, n + 1, k, read[n + 1])
<1>1. a \in 1..(n + 1) /\ n + 1 \in 1..(n + 1) /\ a < n + 1
  OBVIOUS
<1> QED
  BY <1>1 DEF Before

LEMMA KeptNext ==
  ASSUME NEW read \in Seq(Nat), NEW n \in Nat,
         n < Len(read), NEW q, Kept(read, n, q)
  PROVE  Kept(read, n + 1, AddFault(q, read[n + 1]))
<1> Keep \in Nat \ {0}
  BY Sizes
<1>1. PICK k : k = read[n + 1]
  OBVIOUS
<1>2. k \in Nat /\ n + 1 > 0
  BY <1>1
<1>3. q \in Seq(Nat) /\ Len(q) <= Keep /\ Len(q) \in Nat
  BY DEF Kept
<1>4. \A a \in 1..(n + 1) : a = n + 1 \/ a \in 1..n
  OBVIOUS
<1>5. CASE k \in ToSet(q)
  <2>1. AddFault(q, k) = q
    BY <1>5 DEF AddFault
  <2>2. \E i \in 1..Len(q) : q[i] = k
    BY <1>3, <1>5 DEF ToSet
  <2>3. \A i \in 1..Len(q) : \E a \in 1..(n + 1) : read[a] = q[i]
    <3>1. 1..n \subseteq 1..(n + 1)
      OBVIOUS
    <3> QED
      BY <3>1 DEF Kept
  <2>4. \A i, j \in 1..Len(q) : i < j => Before(read, n + 1, q[i], q[j])
    BY BeforeLasts DEF Kept
  <2>5. ASSUME NEW a \in 1..(n + 1), \A i \in 1..Len(q) : q[i] # read[a],
               NEW j \in 1..Len(q)
        PROVE  Before(read, n + 1, read[a], q[j])
    <3>1. a \in 1..n
      BY <2>2, <2>5, <1>1, <1>4
    <3>2. Before(read, n, read[a], q[j])
      BY <3>1, <2>5 DEF Kept
    <3> QED
      BY <3>2, BeforeLasts
  <2>6. Kept(read, n + 1, q)
    <3>1. \A i, j \in 1..Len(q) : q[i] = q[j] => i = j
      BY DEF Kept
    <3> QED
      BY <3>1, <2>2, <2>3, <2>4, <2>5, <1>1, <1>3 DEF Kept
  <2> QED
    BY <2>1, <2>6, <1>1
<1>6. CASE k \notin ToSet(q)
  <2>3. PICK d, m \in Nat : Moved(q, k, AddFault(q, k), d, m)
    BY <1>2, <1>3, <1>6, AddFaultMoves
  <2>1. PICK r : r = AddFault(q, k) /\ Moved(q, k, r, d, m)
    BY <2>3
  <2>2. \A i \in 1..Len(q) : q[i] # k
    BY <1>3, <1>6 DEF ToSet
  <2>4. /\ r \in Seq(Nat) /\ Len(r) = m + 1 /\ r[m + 1] = k /\ Len(r) <= Keep
        /\ d \in {0, 1} /\ d \in Nat /\ m + d = Len(q)
        /\ \A i \in 1..m : r[i] = q[i + d] /\ i + d \in 1..Len(q)
    BY <2>1 DEF Moved
  <2>5. \A i \in 1..(m + 1) : i = m + 1 \/ i \in 1..m
    OBVIOUS
  <2>6. ASSUME NEW i \in 1..(m + 1), NEW j \in 1..(m + 1), r[i] = r[j] PROVE i = j
    <3>1. CASE i \in 1..m /\ j \in 1..m
      <4>1. q[i + d] = q[j + d] /\ i + d \in 1..Len(q) /\ j + d \in 1..Len(q)
        BY <3>1, <2>4, <2>6
      <4>2. i + d = j + d
        BY <4>1 DEF Kept
      <4> QED
        BY <4>2, <2>4
    <3>2. CASE i \in 1..m /\ j = m + 1
      BY <3>2, <2>2, <2>4, <2>6
    <3>3. CASE i = m + 1 /\ j \in 1..m
      BY <3>3, <2>2, <2>4, <2>6
    <3> QED
      BY <3>1, <3>2, <3>3, <2>5
  <2>7. \E i \in 1..(m + 1) : r[i] = read[n + 1]
    <3>1. m + 1 \in 1..(m + 1)
      OBVIOUS
    <3> QED
      BY <3>1, <2>4, <1>1
  <2>8. \A i \in 1..m : \E a \in 1..n : read[a] = r[i]
    <3> SUFFICES ASSUME NEW i \in 1..m
                 PROVE  \E a \in 1..n : read[a] = r[i]
      OBVIOUS
    <3>1. i + d \in 1..Len(q) /\ r[i] = q[i + d]
      BY <2>4
    <3>2. PICK a \in 1..n : read[a] = q[i + d]
      BY <3>1 DEF Kept
    <3> QED
      BY <3>1, <3>2
  <2>9. \A i \in 1..(m + 1) : \E a \in 1..(n + 1) : read[a] = r[i]
    <3> SUFFICES ASSUME NEW i \in 1..(m + 1)
                 PROVE  \E a \in 1..(n + 1) : read[a] = r[i]
      OBVIOUS
    <3>1. 1..n \subseteq 1..(n + 1) /\ n + 1 \in 1..(n + 1)
      OBVIOUS
    <3>2. CASE i = m + 1
      BY <3>1, <3>2, <2>4, <1>1
    <3>3. CASE i \in 1..m
      BY <3>1, <3>3, <2>8
    <3> QED
      BY <3>2, <3>3, <2>5
  <2>10. ASSUME NEW i \in 1..(m + 1), NEW j \in 1..(m + 1), i < j
         PROVE  Before(read, n + 1, r[i], r[j])
    <3>1. i \in 1..m
      BY <2>10
    <3>2. CASE j = m + 1
      <4>1. PICK a \in 1..n : read[a] = r[i]
        BY <3>1, <2>8
      <4>2. r[j] = read[n + 1]
        BY <3>2, <2>4, <1>1
      <4> QED
        BY <4>1, <4>2, BeforeTheNewest
    <3>3. CASE j \in 1..m
      <4>1. i + d < j + d /\ i + d \in 1..Len(q) /\ j + d \in 1..Len(q)
        <5>1. i + d < j + d
          BY <2>10
        <5>2. i + d \in 1..Len(q) /\ j + d \in 1..Len(q)
          BY <3>1, <3>3, <2>4
        <5> QED
          BY <5>1, <5>2
      <4>2. Before(read, n, q[i + d], q[j + d])
        BY <4>1 DEF Kept
      <4>3. Before(read, n, r[i], r[j])
        BY <4>2, <3>1, <3>3, <2>4
      <4> QED
        BY <4>3, BeforeLasts
    <3> QED
      BY <3>2, <3>3, <2>5
  <2>11. ASSUME NEW a \in 1..(n + 1), \A i \in 1..(m + 1) : r[i] # read[a],
                NEW j \in 1..(m + 1)
         PROVE  Before(read, n + 1, read[a], r[j])
    <3>1. a \in 1..n
      BY <2>7, <2>11, <1>4
    <3>2. CASE j = m + 1
      <4>1. r[j] = read[n + 1]
        BY <3>2, <2>4, <1>1
      <4> QED
        BY <3>1, <4>1, BeforeTheNewest
    <3>3. CASE j \in 1..m
      <4>1. r[j] = q[j + d] /\ j + d \in 1..Len(q)
        BY <3>3, <2>4
      <4>2. CASE \A i \in 1..Len(q) : q[i] # read[a]
        <5>1. Before(read, n, read[a], q[j + d])
          BY <3>1, <4>1, <4>2 DEF Kept
        <5> QED
          BY <4>1, <5>1, BeforeLasts
      <4>3. CASE \E i \in 1..Len(q) : q[i] = read[a]
        <5>1. PICK i \in 1..Len(q) : q[i] = read[a]
          BY <4>3
        <5>2. i < j + d
          <6>1. CASE i <= d
            BY <6>1, <3>3, <2>4
          <6>2. CASE i > d
            <7>1. i - d \in 1..m /\ (i - d) + d = i
              BY <6>2, <2>4
            <7>2. PICK l \in 1..m : l + d = i
              BY <7>1
            <7>3. r[l] = read[a]
              BY <7>2, <5>1, <2>4
            <7>4. l \in 1..(m + 1)
              BY <7>2
            <7> QED
              BY <7>3, <7>4, <2>11
          <6> QED
            BY <6>1, <6>2, <2>4
        <5>3. Before(read, n, q[i], q[j + d])
          BY <4>1, <5>1, <5>2 DEF Kept
        <5>4. Before(read, n, read[a], r[j])
          BY <4>1, <5>1, <5>3
        <5> QED
          BY <5>4, BeforeLasts
      <4> QED
        BY <4>2, <4>3
    <3> QED
      BY <3>2, <3>3, <2>5
  <2>12. Kept(read, n + 1, r)
    BY <2>4, <2>6, <2>7, <2>9, <2>10, <2>11 DEF Kept
  <2> QED
    BY <2>1, <2>12, <1>1
<1> QED
  BY <1>5, <1>6

(* The last rows, as many as there are or as are kept.                     *)
LastRows(read, n, q) ==
  /\ q \in Seq(Nat) /\ Len(q) <= Keep /\ Len(q) <= n
  /\ Len(q) = n \/ Len(q) = Keep
  /\ \A i \in 1..Len(q) : q[i] = read[(n - Len(q)) + i]

LEMMA LastRowsNext ==
  ASSUME NEW read \in Seq(Nat), NEW n \in Nat,
         n < Len(read), NEW q, LastRows(read, n, q),
         \A i, j \in 1..Len(read) : read[i] = read[j] => i = j
  PROVE  LastRows(read, n + 1, AddFault(q, read[n + 1]))
<1> Keep \in Nat \ {0}
  BY Sizes
<1>1. PICK k : k = read[n + 1]
  OBVIOUS
<1>2. k \in Nat
  BY <1>1
<1>3. /\ q \in Seq(Nat) /\ Len(q) <= Keep /\ Len(q) <= n
      /\ Len(q) = n \/ Len(q) = Keep
      /\ \A i \in 1..Len(q) : q[i] = read[(n - Len(q)) + i]
  BY DEF LastRows
<1>4. PICK len \in Nat : len = Len(q)
  BY <1>3
<1>5. \A i \in 1..len : /\ q[i] = read[(n - len) + i]
                        /\ (n - len) + i \in 1..Len(read) /\ (n - len) + i < n + 1
  <2>1. len <= n
    BY <1>3, <1>4
  <2>2. \A i \in 1..len : (n - len) + i \in 1..Len(read) /\ (n - len) + i < n + 1
    BY <2>1
  <2> QED
    BY <2>2, <1>3, <1>4
<1>6. k \notin ToSet(q)
  <2> SUFFICES ASSUME NEW i \in 1..len, q[i] = k PROVE FALSE
    BY <1>3, <1>4 DEF ToSet
  <2>1. PICK x \in 1..Len(read) : x = (n - len) + i
    BY <1>5
  <2>2. read[x] = read[n + 1] /\ x < n + 1 /\ n + 1 \in 1..Len(read)
    BY SMTT(30), <2>1, <1>1, <1>5
  <2>3. x = n + 1
    BY <2>2
  <2> QED
    BY <2>2, <2>3
<1>12. PICK d, m \in Nat : Moved(q, k, AddFault(q, k), d, m)
  BY <1>2, <1>3, <1>6, AddFaultMoves
<1>7. PICK r : r = AddFault(q, k) /\ Moved(q, k, r, d, m)
  BY <1>12
<1>8. /\ r \in Seq(Nat) /\ Len(r) = m + 1 /\ r[m + 1] = k /\ Len(r) <= Keep
      /\ m \in Nat /\ d \in {0, 1} /\ (d = 1 <=> len = Keep) /\ m + d = len
      /\ \A i \in 1..m : r[i] = q[i + d] /\ i + d \in 1..len
  BY <1>4, <1>7 DEF Moved
<1>9. /\ m + 1 <= Keep /\ m + 1 <= n + 1
      /\ m + 1 = n + 1 \/ m + 1 = Keep
  BY <1>3, <1>4, <1>8
<1>10. ASSUME NEW i \in 1..(m + 1) PROVE r[i] = read[((n + 1) - (m + 1)) + i]
  <2>1. CASE i = m + 1
    <3>1. ((n + 1) - (m + 1)) + i = n + 1
      BY <2>1
    <3> QED
      BY <3>1, <2>1, <1>1, <1>8
  <2>2. CASE i # m + 1
    <3>1. i \in 1..m
      BY <2>2
    <3>2. r[i] = read[(n - len) + (i + d)]
      <4>1. r[i] = q[i + d] /\ i + d \in 1..len
        BY <3>1, <1>8
      <4>2. PICK x \in 1..len : x = i + d
        BY <4>1
      <4>3. q[x] = read[(n - len) + x]
        BY <1>5
      <4> QED
        BY <4>1, <4>2, <4>3
    <3>3. (n - len) + (i + d) = ((n + 1) - (m + 1)) + i
      BY <1>8
    <3> QED
      BY <3>2, <3>3
  <2> QED
    BY <2>1, <2>2
<1>11. LastRows(read, n + 1, r)
  BY <1>8, <1>9, <1>10 DEF LastRows
<1> QED
  BY <1>1, <1>7, <1>11

(* A bridge that was never restarted and of which no cycle raised has sent *)
LEMMA ViewsKept ==
  ASSUME NEW read \in Seq(Nat)
  PROVE  \A n \in 0..Len(read) : Kept(read, n, Views(read)[n])
<1>1. PICK v, to : v = Views(read) /\ to = Len(read)
  OBVIOUS
<1>2. to \in Nat
  BY <1>1
<1>3. v[0] = <<>> /\ \A n \in 0..(to - 1) : v[n + 1] = AddFault(v[n], read[n + 1])
  BY <1>1, <1>2, ViewSteps
<1> DEFINE T == {m \in Nat : m \in 0..to /\ ~Kept(read, m, v[m])}
<1> SUFFICES ASSUME T # {} PROVE FALSE
  BY <1>1, <1>2
<1>4. PICK x \in T : \A y \in T : x <= y
  <2>1. T \in SUBSET Nat
    OBVIOUS
  <2> HIDE DEF T
  <2> QED
    BY <2>1, NatMin
<1>5. x \in 0..to /\ ~Kept(read, x, v[x])
  OBVIOUS
<1>6. x # 0
  <2>1. Kept(read, 0, <<>>)
    BY Sizes DEF Kept
  <2> QED
    BY <2>1, <1>3, <1>5
<1>7. PICK n \in 0..(to - 1) : x = n + 1
  <2>1. x - 1 \in 0..(to - 1) /\ x = (x - 1) + 1
    BY <1>2, <1>5, <1>6
  <2> QED
    BY <2>1
<1>8. Kept(read, n, v[n])
  <2>1. n \in Nat /\ n \in 0..to /\ ~(x <= n)
    BY <1>2, <1>7
  <2>2. n \notin T
    BY <1>4, <2>1
  <2> QED
    BY <2>1, <2>2
<1>9. Kept(read, n + 1, AddFault(v[n], read[n + 1]))
  <2>1. n \in Nat /\ n < Len(read)
    BY <1>1, <1>2, <1>7
  <2> QED
    BY <2>1, <1>2, <1>8, KeptNext
<1> QED
  BY <1>3, <1>5, <1>7, <1>9

LEMMA ViewsLastRows ==
  ASSUME NEW read \in Seq(Nat),
         \A i, j \in 1..Len(read) : read[i] = read[j] => i = j
  PROVE  \A n \in 0..Len(read) : LastRows(read, n, Views(read)[n])
<1>1. PICK v, to : v = Views(read) /\ to = Len(read)
  OBVIOUS
<1>2. to \in Nat
  BY <1>1
<1>3. v[0] = <<>> /\ \A n \in 0..(to - 1) : v[n + 1] = AddFault(v[n], read[n + 1])
  BY <1>1, <1>2, ViewSteps
<1> DEFINE T == {m \in Nat : m \in 0..to /\ ~LastRows(read, m, v[m])}
<1> SUFFICES ASSUME T # {} PROVE FALSE
  BY <1>1, <1>2
<1>4. PICK x \in T : \A y \in T : x <= y
  <2>1. T \in SUBSET Nat
    OBVIOUS
  <2> HIDE DEF T
  <2> QED
    BY <2>1, NatMin
<1>5. x \in 0..to /\ ~LastRows(read, x, v[x])
  OBVIOUS
<1>6. x # 0
  <2>1. LastRows(read, 0, <<>>)
    BY Sizes, <1>2 DEF LastRows
  <2> QED
    BY <2>1, <1>3, <1>5
<1>7. PICK n \in 0..(to - 1) : x = n + 1
  <2>1. x - 1 \in 0..(to - 1) /\ x = (x - 1) + 1
    BY <1>2, <1>5, <1>6
  <2> QED
    BY <2>1
<1>8. LastRows(read, n, v[n])
  <2>1. n \in Nat /\ n \in 0..to /\ ~(x <= n)
    BY <1>2, <1>7
  <2>2. n \notin T
    BY <1>4, <2>1
  <2> QED
    BY <2>1, <2>2
<1>9. LastRows(read, n + 1, AddFault(v[n], read[n + 1]))
  <2>1. n \in Nat /\ n < Len(read)
    BY <1>1, <1>2, <1>7
  <2> QED
    BY <2>1, <1>2, <1>8, LastRowsNext
<1> QED
  BY <1>3, <1>5, <1>7, <1>9
(* A bridge that was never restarted, of which no cycle raised and whose   *)
(* producer sent nothing twice has the rows in their order, those of a     *)
(* partition before those it has yet to deliver there.                     *)
Rising(s) == \A i, j \in 1..Len(s) : i < j => s[i] < s[j]

InFileOrder ==
  /\ Rising(queued) /\ \A i \in 1..Len(queued) : 2 * queued[i] <= offset
  /\ \A p \in Partition :
       /\ Rising(faults[p]) /\ \A i \in 1..Len(faults[p]) : 2 * faults[p][i] <= offset
       /\ \A i \in 1..Len(faults[p]), j \in 1..Len(queued) :
            PartOf[queued[j]] = p => faults[p][i] < queued[j]

OrderInv == BridgeInv /\ (SentOnce => InFileOrder)

LEMMA OrderInit == Init => OrderInv
<1> SUFFICES ASSUME Init PROVE OrderInv
  OBVIOUS
<1>1. queued = <<>> /\ faults = [p \in Partition |-> <<>>]
  BY DEF Init
<1> QED
  BY <1>1, BridgeInit DEF OrderInv, InFileOrder, Rising

(* The rows that are handed over come after those that are queued.         *)
LEMMA PumpFaultsOrder ==
  ASSUME BridgeTyped, InFileOrder, PumpFaults
  PROVE  InFileOrder'
<1> USE Sizes
<1>1. PICK s, u : s = WholeRows(offset, size) /\ u = queued \o s
  OBVIOUS
<1>2. /\ offset \in Nat /\ size \in Nat /\ offset <= size /\ queued \in Seq(Nat)
      /\ \A p \in Partition : faults[p] \in Seq(Nat)
  <2>1. \A i \in 1..Len(queued) : queued[i] \in Nat
    BY SeqElements, SpanIsTyped DEF BridgeTyped
  <2>2. ASSUME NEW p \in Partition PROVE faults[p] \in Seq(Nat)
    <3>1. PICK f : f = faults[p]
      OBVIOUS
    <3>2. f \in Seq(Row)
      BY <3>1 DEF BridgeTyped
    <3>3. \A i \in 1..Len(f) : f[i] \in Nat
      BY <3>2, SeqElements, SpanIsTyped
    <3> QED
      BY <3>1, <3>2, <3>3, SeqSubset
  <2> QED
    BY <2>1, <2>2, SeqSubset, SpanIsTyped DEF BridgeTyped
<1>3. queued' = u /\ offset' = size /\ faults' = faults
  BY <1>1 DEF PumpFaults, topics
<1>4. Consecutive(s, offset, size) /\ s \in Seq(Nat)
  BY <1>1, <1>2, WholeRowsConsecutive DEF Consecutive
<1>5. PICK a, b \in Nat : a = Len(queued) /\ b = Len(s)
  BY <1>2, <1>4, SeqElements
<1>6. /\ Len(u) = a + b
      /\ \A i \in 1..a : u[i] = queued[i]
      /\ \A i \in (a + 1)..(a + b) : u[i] = s[i - a]
  BY <1>1, <1>2, <1>4, <1>5, SeqAppended
<1>7. \A i \in 1..a : u[i] \in Nat /\ 2 * u[i] <= offset
  <2>1. \A i \in 1..a : queued[i] \in Nat
    BY <1>2, <1>5, SeqElements
  <2> QED
    BY <2>1, <1>5, <1>6 DEF InFileOrder
<1>8. ASSUME NEW i \in (a + 1)..(a + b)
      PROVE  /\ u[i] \in Nat /\ 2 * u[i] > offset + 1 /\ 2 * u[i] <= size
             /\ i - a \in 1..b
  <2>1. PICK k \in 1..b : k = i - a
    <3>1. i - a \in 1..b
      OBVIOUS
    <3> QED
      BY <3>1
  <2>2. u[i] = s[k] /\ s[k] \in Nat
    BY <2>1, <1>4, <1>5, <1>6, SeqElements
  <2>3. 2 * s[k] > offset + 1 /\ 2 * s[k] <= size
    BY <1>4, <1>5 DEF Consecutive
  <2> QED
    BY <2>1, <2>2, <2>3
<1>9. ASSUME NEW i \in 1..(a + b), NEW j \in 1..(a + b), i < j PROVE u[i] < u[j]
  <2>1. CASE j \in 1..a
    <3>1. i \in 1..a
      BY <2>1, <1>9
    <3>2. queued[i] < queued[j]
      BY <2>1, <3>1, <1>5, <1>9 DEF InFileOrder, Rising
    <3> QED
      BY <2>1, <3>1, <3>2, <1>6
  <2>2. CASE i \in 1..a /\ j \in (a + 1)..(a + b)
    <3>1. PICK x, y : x = u[i] /\ y = u[j]
      OBVIOUS
    <3>2. x \in Nat /\ 2 * x <= offset /\ y \in Nat /\ 2 * y > offset + 1
      BY <2>2, <3>1, <1>7, <1>8
    <3>3. x < y
      BY <3>2, <1>2
    <3> QED
      BY <3>1, <3>3
  <2>3. CASE i \in (a + 1)..(a + b)
    <3>1. j \in (a + 1)..(a + b)
      BY <2>3, <1>9
    <3>2. i - a \in 1..b /\ j - a \in 1..b /\ i - a < j - a
      BY <2>3, <3>1, <1>8, <1>9
    <3>3. s[i - a] < s[j - a]
      BY <3>2, <1>4, <1>5 DEF Consecutive
    <3> QED
      BY <2>3, <3>1, <3>3, <1>6
  <2> QED
    BY <2>1, <2>2, <2>3
<1>10. ASSUME NEW i \in 1..(a + b) PROVE u[i] \in Nat /\ 2 * u[i] <= size
  <2>1. CASE i \in 1..a
    BY <2>1, <1>2, <1>7
  <2>2. CASE i \in (a + 1)..(a + b)
    BY <2>2, <1>8
  <2> QED
    BY <2>1, <2>2
<1>11. ASSUME NEW p \in Partition, NEW f, f = faults[p]
       PROVE  /\ Rising(f) /\ \A i \in 1..Len(f) : 2 * f[i] <= size
              /\ \A i \in 1..Len(f), j \in 1..(a + b) : PartOf[u[j]] = p => f[i] < u[j]
  <2>1. /\ Rising(f) /\ \A i \in 1..Len(f) : 2 * f[i] <= offset
        /\ \A i \in 1..Len(f), j \in 1..a : PartOf[queued[j]] = p => f[i] < queued[j]
    BY <1>5, <1>11 DEF InFileOrder
  <2>2. \A i \in 1..Len(f) : f[i] \in Nat
    BY <1>2, <1>11, SeqElements
  <2>3. \A i \in 1..Len(f) : 2 * f[i] <= size
    BY <2>1, <2>2, <1>2
  <2>4. ASSUME NEW i \in 1..Len(f), NEW j \in 1..(a + b), PartOf[u[j]] = p
        PROVE  f[i] < u[j]
    <3>1. CASE j \in 1..a
      BY <3>1, <2>1, <2>4, <1>6
    <3>2. CASE j \in (a + 1)..(a + b)
      <4>1. PICK x, y : x = f[i] /\ y = u[j]
        OBVIOUS
      <4>2. x \in Nat /\ 2 * x <= offset /\ y \in Nat /\ 2 * y > offset + 1
        BY <3>2, <4>1, <2>1, <2>2, <1>8
      <4>3. x < y
        BY <4>2, <1>2
      <4> QED
        BY <4>1, <4>3
    <3> QED
      BY <3>1, <3>2
  <2> QED
    BY <2>1, <2>3, <2>4
<1>12. Rising(u) /\ \A i \in 1..Len(u) : 2 * u[i] <= size
  BY <1>6, <1>9, <1>10 DEF Rising
<1>13. ASSUME NEW p \in Partition
       PROVE  /\ Rising(faults[p]) /\ \A i \in 1..Len(faults[p]) : 2 * faults[p][i] <= size
              /\ \A i \in 1..Len(faults[p]), j \in 1..Len(u) :
                   PartOf[u[j]] = p => faults[p][i] < u[j]
  BY <1>6, <1>11
<1> QED
  BY <1>3, <1>12, <1>13 DEF InFileOrder

(* Without one of its rows the queue is as it was.                         *)
LEMMA RemovedOrder ==
  ASSUME BridgeTyped, InFileOrder, NEW i \in 1..Len(queued), NEW r,
         r = RemoveAt(queued, i)
  PROVE  /\ Rising(r)
         /\ \A j \in 1..Len(r) : /\ 2 * r[j] <= offset
                                 /\ \E l \in 1..Len(queued) : l # i /\ r[j] = queued[l]
<1>1. queued \in Seq(Row) /\ Len(queued) \in Nat
  BY DEF BridgeTyped
<1>2. r \in Seq(Row) /\ OneLess(queued, r, i)
  BY <1>1, RemovedRow, Zenon
<1>3. /\ Len(r) = Len(queued) - 1
      /\ \A j \in 1..Len(r) : /\ Behind(i, j) \in 1..Len(queued) /\ Behind(i, j) # i
                              /\ r[j] = queued[Behind(i, j)]
  BY <1>2 DEF OneLess
<1>4. ASSUME NEW j \in 1..Len(r), NEW l \in 1..Len(r), j < l PROVE r[j] < r[l]
  <2>1. Behind(i, j) < Behind(i, l)
    BY <1>3, <1>4 DEF Behind
  <2>2. PICK x, y \in 1..Len(queued) : x = Behind(i, j) /\ y = Behind(i, l)
    BY <1>3
  <2>3. queued[x] < queued[y]
    BY <2>1, <2>2 DEF InFileOrder, Rising
  <2> QED
    BY <2>2, <2>3, <1>3
<1> QED
  BY <1>3, <1>4 DEF InFileOrder, Rising

LEMMA DropBatchOrder ==
  ASSUME BridgeTyped, InFileOrder, DropBatch
  PROVE  InFileOrder'
<1>1. PICK i \in DOMAIN queued : queued' = RemoveAt(queued, i)
  BY DEF DropBatch
<1>2. i \in 1..Len(queued)
  BY DEF BridgeTyped
<1>3. UNCHANGED <<faults, offset>>
  BY DEF DropBatch, bridge, topics
<1>4. PICK r : r = RemoveAt(queued, i)
  OBVIOUS
<1>5. /\ Rising(r)
      /\ \A j \in 1..Len(r) : /\ 2 * r[j] <= offset
                              /\ \E l \in 1..Len(queued) : l # i /\ r[j] = queued[l]
  BY <1>2, <1>4, RemovedOrder
<1>6. \A p \in Partition :
        /\ Rising(faults[p]) /\ \A j \in 1..Len(faults[p]) : 2 * faults[p][j] <= offset
        /\ \A j \in 1..Len(faults[p]), l \in 1..Len(r) :
             PartOf[r[l]] = p => faults[p][j] < r[l]
  BY <1>5 DEF InFileOrder
<1>7. queued' = r
  BY <1>1, <1>4
<1> QED
  BY <1>3, <1>5, <1>6, <1>7 DEF InFileOrder

(* The first row of its partition goes to its end.                         *)
LEMMA DeliverOrder ==
  ASSUME BridgeTyped, InFileOrder, Deliver
  PROVE  InFileOrder'
<1> USE SpanIsTyped
<1>1. PICK i \in DOMAIN queued : /\ queued' = RemoveAt(queued, i)
                                 /\ FirstOfItsPartition(i) /\ Arrive(queued[i])
                                 /\ UNCHANGED offset
  BY DEF Deliver, bridge
<1>2. i \in 1..Len(queued) /\ queued \in Seq(Row) /\ queued[i] \in Row
  BY DEF BridgeTyped
<1>3. PICK r, k, p, f, g : /\ r = RemoveAt(queued, i) /\ k = queued[i] /\ p = PartOf[k]
                           /\ f = faults[p] /\ g = Append(f, k)
  OBVIOUS
<1>4. /\ Rising(r)
      /\ \A j \in 1..Len(r) : /\ 2 * r[j] <= offset
                              /\ \E l \in 1..Len(queued) : l # i /\ r[j] = queued[l]
  BY <1>2, <1>3, RemovedOrder
<1>5. /\ k \in Row /\ p \in Partition /\ f \in Seq(Row) /\ 2 * k <= offset
      /\ faults \in [Partition -> Seq(Row)]
  BY <1>2, <1>3 DEF BridgeTyped, InFileOrder
<1>6. PICK n \in Nat : n = Len(f)
  BY <1>5
<1>7. /\ g \in Seq(Row) /\ Len(g) = n + 1 /\ g[n + 1] = k
      /\ \A j \in 1..n : g[j] = f[j]
  BY <1>3, <1>5, <1>6
<1>8. faults'[p] = g /\ \A o \in Partition : o # p => faults'[o] = faults[o]
  BY <1>1, <1>3, <1>5, <1>7 DEF Arrive
<1>9. /\ Rising(f) /\ \A j \in 1..n : 2 * f[j] <= offset
      /\ \A j \in 1..n : f[j] < k
      /\ \A j \in 1..n, l \in 1..Len(queued) : PartOf[queued[l]] = p => f[j] < queued[l]
  BY <1>2, <1>3, <1>5, <1>6 DEF InFileOrder
<1>10. \A j \in 1..(n + 1) : j = n + 1 \/ j \in 1..n
  OBVIOUS
<1>11. Rising(g)
  <2> SUFFICES ASSUME NEW j \in 1..(n + 1), NEW l \in 1..(n + 1), j < l
               PROVE  g[j] < g[l]
    BY <1>7 DEF Rising
  <2>1. j \in 1..n
    OBVIOUS
  <2>2. CASE l = n + 1
    BY <2>1, <2>2, <1>7, <1>9
  <2>3. CASE l \in 1..n
    BY <2>1, <2>3, <1>6, <1>7, <1>9 DEF Rising
  <2> QED
    BY <2>2, <2>3, <1>10
<1>12. \A j \in 1..Len(g) : 2 * g[j] <= offset
  BY <1>5, <1>7, <1>9, <1>10
<1>13. ASSUME NEW j \in 1..Len(g), NEW l \in 1..Len(r), PartOf[r[l]] = p
       PROVE  g[j] < r[l]
  <2>1. PICK x \in 1..Len(queued) : x # i /\ r[l] = queued[x]
    BY <1>4
  <2>2. i < x
    <3>1. ~(x \in 1..(i - 1))
      BY <2>1, <1>1, <1>3, <1>13 DEF FirstOfItsPartition
    <3> QED
      BY <2>1, <3>1, <1>2
  <2>3. k < queued[x]
    BY <2>2, <1>2, <1>3 DEF InFileOrder, Rising
  <2>4. CASE j = n + 1
    BY <2>1, <2>3, <2>4, <1>7
  <2>5. CASE j \in 1..n
    BY <2>1, <2>5, <1>7, <1>9, <1>13
  <2> QED
    BY <2>4, <2>5, <1>7, <1>10
<1>14. ASSUME NEW o \in Partition
       PROVE  /\ Rising(faults'[o]) /\ \A j \in 1..Len(faults'[o]) : 2 * faults'[o][j] <= offset
              /\ \A j \in 1..Len(faults'[o]), l \in 1..Len(r) :
                   PartOf[r[l]] = o => faults'[o][j] < r[l]
  <2>1. CASE o = p
    BY <2>1, <1>8, <1>11, <1>12, <1>13
  <2>2. CASE o # p
    <3>1. faults'[o] = faults[o]
      BY <2>2, <1>8
    <3>2. /\ Rising(faults[o]) /\ \A j \in 1..Len(faults[o]) : 2 * faults[o][j] <= offset
          /\ \A j \in 1..Len(faults[o]), l \in 1..Len(r) :
               PartOf[r[l]] = o => faults[o][j] < r[l]
      BY <1>4 DEF InFileOrder
    <3> QED
      BY <3>1, <3>2
  <2> QED
    BY <2>1, <2>2
<1>15. queued' = r /\ offset' = offset
  BY <1>1, <1>3
<1> QED
  BY <1>4, <1>14, <1>15 DEF InFileOrder

LEMMA OrderNext ==
  ASSUME OrderInv, [Next]_vars
  PROVE  OrderInv'
<1>1. BridgeInv /\ BridgeTyped /\ (SentOnce => InFileOrder) /\ BridgeInv'
  BY BridgeNext DEF OrderInv, BridgeInv
<1>2. restarts \in Nat /\ aborts \in Nat /\ retries \in Nat
  BY <1>1 DEF BridgeTyped
<1>3. CASE PumpFaults \/ DropBatch \/ Deliver
  <2>1. SentOnce' => SentOnce
    BY <1>3 DEF PumpFaults, DropBatch, Deliver, SentOnce, bridge
  <2> QED
    BY <2>1, <1>1, <1>3, PumpFaultsOrder, DropBatchOrder, DeliverOrder DEF OrderInv
<1>4. CASE SendRaises \/ MetricsRaise \/ RestartBridge \/ ResendMetrics \/ RetryBatch
  <2>1. aborts' = aborts + 1 \/ restarts' = restarts + 1 \/ retries' = retries + 1
    BY <1>4 DEF SendRaises, MetricsRaise, RestartBridge, ResendMetrics, RetryBatch
  <2>2. /\ aborts' = aborts \/ aborts' = aborts + 1
        /\ restarts' = restarts \/ restarts' = restarts + 1
        /\ retries' = retries \/ retries' = retries + 1
    BY <1>4 DEF SendRaises, MetricsRaise, RestartBridge, ResendMetrics, RetryBatch,
       bridge, producer
  <2>3. ~SentOnce'
    BY <2>1, <2>2, <1>2 DEF SentOnce
  <2> QED
    BY <2>3, <1>1 DEF OrderInv
<1>5. ASSUME UNCHANGED <<faults, queued, offset, restarts, aborts, retries>>
      PROVE  OrderInv'
  <2>1. SentOnce' => SentOnce
    BY <1>5 DEF SentOnce
  <2>2. InFileOrder => InFileOrder'
    BY <1>5 DEF InFileOrder
  <2> QED
    BY <2>1, <2>2, <1>1 DEF OrderInv
<1>6. CASE PumpMetrics \/ AppendHalf \/ (\E s \in Stream : LogLine(s)) \/ LokiError
  <2>1. UNCHANGED <<faults, queued, offset, restarts, aborts, retries>>
    BY <1>6 DEF PumpMetrics, AppendHalf, LogLine, LokiError, bridge, producer, topics
  <2> QED
    BY <2>1, <1>5
<1>7. CASE Flush \/ (\E order \in Orders : PumpEvents(order))
  <2>1. UNCHANGED <<faults, queued, offset, restarts, aborts, retries>>
    BY <1>7 DEF Flush, PumpEvents, bridge, producer, topics
  <2> QED
    BY <2>1, <1>5
<1>8. CASE Start \/ Consume \/ Commit \/ CrashConsumer \/ UNCHANGED vars
  <2>1. UNCHANGED <<faults, queued, offset, restarts, aborts, retries>>
    BY <1>8 DEF Start, Consume, Commit, CrashConsumer, vars, bridge, producer, topics
  <2> QED
    BY <2>1, <1>5
<1> QED
  BY <1>3, <1>4, <1>6, <1>7, <1>8 DEF Next, Pump

-----------------------------------------------------------------------------
(* What a consumer that has caught up has read.                            *)

(* A partition's share of a reading.                                       *)
LEMMA UnreadCount ==
  ASSUME BridgeTyped, NEW from \in UpToTheEnds, NEW p \in Partition
  PROVE  /\ from[p] \in Nat /\ from[p] <= Len(faults[p]) /\ Len(faults[p]) \in Nat
         /\ IsFiniteSet(Unread(from, p))
         /\ Cardinality(Unread(from, p)) = Len(faults[p]) - from[p]
<1>1. PICK n : n = Len(faults[p])
  OBVIOUS
<1>2. \A o \in Partition : Ends[o] \in Nat
  BY DEF BridgeTyped, Ends
<1>3. n \in Nat /\ Ends[p] = n
  BY <1>1, <1>2 DEF Ends
<1>4. from[p] \in Nat /\ from[p] <= n
  <2>1. from[p] \in UNION {0..Ends[o] : o \in Partition} /\ from[p] <= n
    BY <1>3 DEF UpToTheEnds
  <2> QED
    BY <2>1, <1>2
<1>5. PICK a : a = from[p]
  OBVIOUS
<1>6. IsFiniteSet((a + 1)..n) /\ Cardinality((a + 1)..n) = n - a
  <2>1. a + 1 \in Int /\ n \in Int /\ (a + 1 > n => n - a = 0) /\ n - (a + 1) + 1 = n - a
    BY <1>3, <1>4, <1>5
  <2>2. /\ IsFiniteSet((a + 1)..n)
        /\ Cardinality((a + 1)..n) = IF a + 1 > n THEN 0 ELSE n - (a + 1) + 1
    BY <2>1, FS_Interval
  <2> QED
    BY <2>1, <2>2
<1>7. IsFiniteSet({p}) /\ Cardinality({p}) = 1
  BY FS_Singleton
<1>8. PICK I : I = (a + 1)..n
  OBVIOUS
<1>9. IsFiniteSet({p} \X I) /\ Cardinality({p} \X I) = Cardinality({p}) * Cardinality(I)
  BY <1>6, <1>7, <1>8, FS_Product
<1>10. Cardinality({p} \X I) = n - a
  <2>1. Cardinality(I) = n - a
    BY <1>6, <1>8
  <2> QED
    BY <2>1, <1>3, <1>4, <1>5, <1>7, <1>9
<1>11. Unread(from, p) = {p} \X I
  BY <1>1, <1>5, <1>8 DEF Unread
<1> QED
  BY <1>1, <1>3, <1>4, <1>5, <1>9, <1>10, <1>11

LEMMA AllUnreadCount ==
  ASSUME BridgeTyped, NEW from \in UpToTheEnds
  PROVE  Cardinality(AllUnread(from)) \in Nat
<1>1. PICK T : T = {Unread(from, p) : p \in Partition}
  OBVIOUS
<1>2. PICK f : f = [p \in Partition |-> Unread(from, p)]
  OBVIOUS
<1>3. f \in Surjection(Partition, T)
  BY <1>1, <1>2 DEF Surjection
<1>4. IsFiniteSet(Partition)
  BY StreamingAssumption
<1>5. IsFiniteSet(T)
  BY <1>3, <1>4, FS_Surjection
<1>6. \A t \in T : IsFiniteSet(t)
  BY <1>1, UnreadCount
<1>7. IsFiniteSet(UNION T)
  BY <1>5, <1>6, FS_UNION
<1>8. AllUnread(from) = UNION T
  BY <1>1 DEF AllUnread
<1> QED
  BY <1>7, <1>8, FS_CardinalityType

(* The places a reading takes its rows from: inside the partitions, and    *)
(* rising in each.                                                         *)
LEMMA Places ==
  ASSUME BridgeTyped, NEW from \in UpToTheEnds, NEW turn \in Turns(from)
  PROVE  /\ turn \in Seq(Partition)
         /\ \A m \in 1..Len(turn) : Place(from, turn, m) \in 1..Len(faults[turn[m]])
         /\ \A m, n \in 1..Len(turn) : m < n /\ turn[m] = turn[n] =>
              Place(from, turn, m) < Place(from, turn, n)
<1>1. PICK N \in Nat : N = Cardinality(AllUnread(from))
  BY AllUnreadCount
<1>2. /\ turn \in [1..N -> Partition]
      /\ \A p \in Partition :
           Cardinality({j \in 1..N : turn[j] = p}) = Cardinality(Unread(from, p))
  BY <1>1 DEF Turns
<1>3. turn \in Seq(Partition) /\ Len(turn) = N
  BY <1>2
<1> DEFINE Mine(m) == {j \in 1..m : turn[j] = turn[m]}
<1>4. ASSUME NEW m \in 1..N
      PROVE  /\ IsFiniteSet(Mine(m)) /\ Cardinality(Mine(m)) \in Nat
             /\ Cardinality(Mine(m)) >= 1
  <2>1. IsFiniteSet(1..m)
    BY FS_Interval
  <2>2. Mine(m) \in SUBSET (1..m) /\ m \in Mine(m)
    OBVIOUS
  <2> HIDE DEF Mine
  <2>3. IsFiniteSet(Mine(m))
    BY <2>1, <2>2, FS_Subset
  <2>4. Cardinality(Mine(m)) \in Nat
    BY <2>3, FS_CardinalityType
  <2>5. Cardinality(Mine(m)) # 0
    BY <2>2, <2>3, FS_EmptySet
  <2> QED
    BY <2>3, <2>4, <2>5
<1>5. ASSUME NEW m \in 1..N, NEW n \in 1..N, m < n, turn[m] = turn[n]
      PROVE  Cardinality(Mine(m)) < Cardinality(Mine(n))
  <2>1. Mine(m) \in SUBSET Mine(n) /\ n \in Mine(n) /\ n \notin Mine(m)
    BY <1>5
  <2>2. IsFiniteSet(Mine(n)) /\ Cardinality(Mine(m)) \in Nat /\ Cardinality(Mine(n)) \in Nat
    BY <1>4
  <2> HIDE DEF Mine
  <2>3. Cardinality(Mine(m)) <= Cardinality(Mine(n))
    BY <2>1, <2>2, FS_Subset
  <2>4. Cardinality(Mine(m)) # Cardinality(Mine(n))
    <3> SUFFICES ASSUME Cardinality(Mine(m)) = Cardinality(Mine(n)) PROVE FALSE
      OBVIOUS
    <3>1. Mine(m) = Mine(n)
      BY <2>1, <2>2, FS_Subset
    <3> QED
      BY <2>1, <3>1
  <2> QED
    BY <2>2, <2>3, <2>4
<1>6. ASSUME NEW m \in 1..N
      PROVE  from[turn[m]] \in Nat /\
             from[turn[m]] + Cardinality(Mine(m)) \in 1..Len(faults[turn[m]])
  <2>1. PICK p \in Partition : p = turn[m]
    BY <1>2
  <2>2. PICK S : S = {j \in 1..N : turn[j] = p}
    OBVIOUS
  <2>3. IsFiniteSet(1..N) /\ S \in SUBSET (1..N)
    BY <2>2, FS_Interval
  <2>4. IsFiniteSet(S)
    BY <2>3, FS_Subset
  <2>5. Mine(m) \in SUBSET S
    BY <2>1, <2>2
  <2>6. Cardinality(Mine(m)) \in Nat /\ Cardinality(Mine(m)) >= 1
    BY <1>4
  <2> HIDE DEF Mine
  <2>7. Cardinality(Mine(m)) <= Cardinality(S)
    BY <2>4, <2>5, FS_Subset
  <2>8. Cardinality(S) = Cardinality(Unread(from, p))
    BY <2>2, <1>2
  <2>9. /\ from[p] \in Nat /\ from[p] <= Len(faults[p]) /\ Len(faults[p]) \in Nat
        /\ Cardinality(Unread(from, p)) = Len(faults[p]) - from[p]
    BY UnreadCount
  <2>10. PICK c : c = Cardinality(Mine(m))
    OBVIOUS
  <2>11. c \in Nat /\ c >= 1 /\ c <= Len(faults[p]) - from[p]
    BY <2>6, <2>7, <2>8, <2>9, <2>10
  <2>12. from[p] + c \in 1..Len(faults[p])
    BY <2>9, <2>11
  <2> QED
    BY <2>1, <2>9, <2>10, <2>12
<1>7. \A m \in 1..N : Place(from, turn, m) = from[turn[m]] + Cardinality(Mine(m))
  BY DEF Place
<1>8. ASSUME NEW m \in 1..N, NEW n \in 1..N, m < n, turn[m] = turn[n]
      PROVE  Place(from, turn, m) < Place(from, turn, n)
  <2>1. PICK a, b, c : a = Cardinality(Mine(m)) /\ b = Cardinality(Mine(n))
                       /\ c = from[turn[m]]
    OBVIOUS
  <2>2. a \in Nat /\ b \in Nat /\ c \in Nat /\ a < b
    BY <2>1, <1>4, <1>5, <1>6, <1>8
  <2>3. Place(from, turn, m) = c + a /\ Place(from, turn, n) = c + b
    BY <2>1, <1>7, <1>8
  <2> QED
    BY <2>2, <2>3
<1> HIDE DEF Mine
<1>9. \A m \in 1..N : Place(from, turn, m) \in 1..Len(faults[turn[m]])
  BY <1>6, <1>7
<1> QED
  BY <1>3, <1>8, <1>9

(* In a reading of rows that were sent once none is there twice, and those *)
(* of one partition are in the order they were written.                    *)
LEMMA ReadingInOrder ==
  ASSUME BridgeInv, NEW read \in Readings
  PROVE  /\ read \in Seq(Row)
         /\ InFileOrder =>
              /\ \A m, n \in 1..Len(read) : read[m] = read[n] => m = n
              /\ \A m, n \in 1..Len(read) :
                   m < n /\ PartOf[read[m]] = PartOf[read[n]] => read[m] < read[n]
<1>1. BridgeTyped /\ InTheirPartition
  BY DEF BridgeInv, RowsInv
<1>2. PICK from \in UpToTheEnds : \E turn \in Turns(from) : read = Read(from, turn)
  BY DEF Readings
<1>3. PICK turn \in Turns(from) : read = Read(from, turn)
  BY <1>2
<1>4. /\ turn \in Seq(Partition)
      /\ \A m \in 1..Len(turn) : Place(from, turn, m) \in 1..Len(faults[turn[m]])
      /\ \A m, n \in 1..Len(turn) : m < n /\ turn[m] = turn[n] =>
           Place(from, turn, m) < Place(from, turn, n)
  BY <1>1, Places
<1>5. PICK N \in Nat : N = Len(turn)
  BY <1>4
<1>6. /\ DOMAIN read = 1..N
      /\ \A m \in 1..N : read[m] = faults[turn[m]][Place(from, turn, m)]
  BY <1>3, <1>5 DEF Read
<1>7. ASSUME NEW m \in 1..N
      PROVE  read[m] \in Row /\ turn[m] \in Partition /\ PartOf[read[m]] = turn[m]
  <2>1. PICK p, i, f : p = turn[m] /\ i = Place(from, turn, m) /\ f = faults[p]
    OBVIOUS
  <2>2. p \in Partition /\ i \in 1..Len(f)
    BY <2>1, <1>4, <1>5
  <2>3. f \in Seq(Row)
    BY <2>1, <2>2, <1>1 DEF BridgeTyped
  <2>4. f[i] \in Row
    BY <2>2, <2>3, SeqElements
  <2>5. PartOf[f[i]] = p
    BY <2>1, <2>2, <1>1 DEF InTheirPartition
  <2> QED
    BY <2>1, <2>2, <2>4, <2>5, <1>6
<1>8. read \in [1..N -> Row]
  <2>1. read = [m \in 1..N |-> read[m]]
    BY <1>3, <1>5 DEF Read
  <2> QED
    BY <2>1, <1>7
<1>9. read \in Seq(Row) /\ Len(read) = N
  BY <1>8
<1>10. ASSUME InFileOrder, NEW m \in 1..N, NEW n \in 1..N, m < n,
              PartOf[read[m]] = PartOf[read[n]]
       PROVE  read[m] < read[n]
  <2>1. PICK p \in Partition : p = turn[m] /\ p = turn[n]
    BY <1>7, <1>10
  <2>2. PICK i, j, f : i = Place(from, turn, m) /\ j = Place(from, turn, n) /\ f = faults[p]
    OBVIOUS
  <2>3. i \in 1..Len(f) /\ j \in 1..Len(f) /\ i < j
    BY <2>1, <2>2, <1>4, <1>5, <1>10
  <2>4. f[i] < f[j]
    BY <2>2, <2>3, <1>10 DEF InFileOrder, Rising
  <2> QED
    BY <2>1, <2>2, <2>4, <1>6
<1>11. ASSUME InFileOrder, NEW m \in 1..N, NEW n \in 1..N, read[m] = read[n]
       PROVE  m = n
  <2>1. read[m] \in Nat /\ read[n] \in Nat
    BY <1>7, SpanIsTyped
  <2>2. ~(m < n)
    BY <2>1, <1>10, <1>11
  <2>3. ~(n < m)
    BY <2>1, <1>10, <1>11
  <2> QED
    BY <2>2, <2>3
<1> QED
  BY <1>9, <1>10, <1>11

(* Wherever the copilot started reading, and however the partitions took   *)
(* turns, its brief names no incident twice, always the one read last and  *)
(* none that was read only before one it has dropped.  While nothing was   *)
(* sent twice it names the last rows it read, and, if they are written in  *)
(* the order the faults ended, those of a partition in that order.         *)
THEOREM BriefExplained == Spec => []BriefIsExplained
<1>1. OrderInv => BriefIsExplained
  <2> SUFFICES ASSUME OrderInv, NEW read \in Readings, read # <<>>
               PROVE  Explains(Incidents(read), read)
    BY DEF BriefIsExplained
  <2>1. BridgeInv /\ (SentOnce => InFileOrder)
    BY DEF OrderInv
  <2>2. /\ read \in Seq(Row)
        /\ InFileOrder =>
             /\ \A m, n \in 1..Len(read) : read[m] = read[n] => m = n
             /\ \A m, n \in 1..Len(read) :
                  m < n /\ PartOf[read[m]] = PartOf[read[n]] => read[m] < read[n]
    BY <2>1, ReadingInOrder
  <2>3. read \in Seq(Nat)
    <3>1. \A i \in 1..Len(read) : read[i] \in Nat
      BY <2>2, SpanIsTyped, SeqElements
    <3> QED
      BY <2>2, <3>1, SeqSubset
  <2>4. PICK q : q = Incidents(read)
    OBVIOUS
  <2>5. PICK len \in Nat : len = Len(read) /\ len >= 1 /\ DOMAIN read = 1..len
    BY <2>2
  <2>6. Kept(read, len, q)
    <3>1. len \in 0..Len(read)
      BY <2>5
    <3>2. Kept(read, len, Views(read)[len])
      BY <3>1, <2>3, ViewsKept
    <3> QED
      BY <3>2, <2>4, <2>5 DEF Incidents
  <2>7. q \in Seq(Nat) /\ Len(q) <= Keep /\ Len(q) \in Nat /\ DOMAIN q = 1..Len(q)
    BY <2>6 DEF Kept
  <2>8. IsInjective(q)
    BY <2>6, <2>7 DEF Kept, IsInjective
  <2>9. Last(read) \in ToSet(q)
    <3>1. Last(read) = read[len]
      BY <2>5 DEF Last
    <3>2. PICK i \in 1..Len(q) : q[i] = read[len]
      BY <2>5, <2>6 DEF Kept
    <3> QED
      BY <3>1, <3>2, <2>7 DEF ToSet
  <2>10. ASSUME NEW k \in ToSet(read) \ ToSet(q), NEW j \in ToSet(q)
         PROVE  \E m, n \in 1..Len(read) : read[m] = k /\ read[n] = j /\ m < n
    <3>1. PICK c \in 1..len : k = read[c]
      BY <2>5 DEF ToSet
    <3>2. PICK i \in 1..Len(q) : j = q[i]
      BY <2>7 DEF ToSet
    <3>3. \A l \in 1..Len(q) : q[l] # read[c]
      BY <3>1, <2>7, <2>10 DEF ToSet
    <3>4. Before(read, len, k, j)
      BY <3>1, <3>2, <3>3, <2>6 DEF Kept
    <3> QED
      BY <3>4, <2>5 DEF Before
  <2>11. ASSUME SentOnce
         PROVE  /\ \A n \in 1..Len(q) : q[n] = read[Len(read) - Len(q) + n]
                /\ Len(q) = Len(read) \/ Len(q) = Keep
                /\ EndsInOrder =>
                     \A m, n \in Resolved(q) :
                       m < n /\ PartOf[q[m]] = PartOf[q[n]] =>
                         Span[q[m]][2] <= Span[q[n]][2]
    <3>1. LastRows(read, len, q)
      <4>1. len \in 0..Len(read) /\ \A i, j \in 1..Len(read) : read[i] = read[j] => i = j
        BY <2>1, <2>2, <2>5, <2>11
      <4>2. LastRows(read, len, Views(read)[len])
        BY SMTT(30), <4>1, <2>3, ViewsLastRows
      <4> QED
        BY <4>2, <2>4, <2>5 DEF Incidents
    <3>2. PICK k \in Nat : k = Len(q) /\ k <= len
      BY <3>1, <2>5, <2>7 DEF LastRows
    <3>3. \A n \in 1..k : (len - k) + n \in 1..len /\ q[n] = read[(len - k) + n]
      BY <3>1, <3>2, <2>5 DEF LastRows
    <3>4. k = len \/ k = Keep
      BY <3>1, <3>2, <2>5 DEF LastRows
    <3>5. ASSUME EndsInOrder, NEW m \in Resolved(q), NEW n \in Resolved(q), m < n,
                 PartOf[q[m]] = PartOf[q[n]]
          PROVE  Span[q[m]][2] <= Span[q[n]][2]
      <4>1. m \in 1..k /\ n \in 1..k
        BY <3>2, <2>7 DEF Resolved
      <4>2. PICK x, y : x = (len - k) + m /\ y = (len - k) + n
        OBVIOUS
      <4>3. x \in 1..len /\ y \in 1..len /\ q[m] = read[x] /\ q[n] = read[y] /\ x < y
        BY <4>1, <4>2, <3>2, <3>3, <3>5
      <4>4. read[x] \in Row /\ read[y] \in Row /\ read[x] < read[y]
        BY <4>3, <3>5, <2>1, <2>2, <2>5, <2>11, SeqElements
      <4> QED
        BY <4>3, <4>4, <3>5 DEF EndsInOrder
    <3>6. \A n \in 1..Len(q) : q[n] = read[Len(read) - Len(q) + n]
      BY <3>2, <3>3, <2>5
    <3>7. Len(q) = Len(read) \/ Len(q) = Keep
      BY <3>2, <3>4, <2>5
    <3> QED
      BY <3>5, <3>6, <3>7
  <2>12. Explains(q, read)
    BY <2>7, <2>8, <2>9, <2>10, <2>11 DEF Explains
  <2> QED
    BY <2>4, <2>12
<1> QED
  BY <1>1, OrderInit, OrderNext, PTL DEF Spec
=============================================================================
