------------------------------ MODULE Streaming ------------------------------
(* The Kafka bridge, which polls the lab's sources and tails its label     *)
(* file (streaming/bridge.py), and the predictive consumer, which builds   *)
(* labelled training windows from the topics (streaming/consume.py).       *)
(*                                                                         *)
(* Time is counted in intervals; the bucket of the metrics is as long.  A  *)
(* fault's times are in half buckets: bucket b begins at 2b.  The label    *)
(* file is measured in half rows, so that an odd size is a row that is     *)
(* being written.  noc.metrics is the partition of one device, noc.faults  *)
(* has one sequence per partition; of noc.events, whose order nobody here  *)
(* reads, the model counts how often each event was sent.                  *)
EXTENDS Naturals, Sequences, FiniteSets, SequencesExt

CONSTANTS
  Series,      \* how many interfaces the device has
  Stream,      \* Loki streams
  Span,        \* label row -> when its fault began and ended, in half buckets
  Partition, PartOf,           \* of noc.faults; where a row's device puts it
  L, Stride,   \* PredictiveWindower's length and stride
  Keep, Recent,   \* incidents the copilot keeps; how long one counts as active
  MaxTime, MaxEvents, LogUntil,   \* bounds: intervals, log lines, and the
               \* intervals in which they are logged
  MaxFailures  \* bound: what fails (Failures)

ASSUME StreamingAssumption ==
  /\ Series \in Nat \ {0} /\ L \in Nat \ {0} /\ Stride \in 1..L
  /\ Keep \in Nat \ {0} /\ IsFiniteSet(Stream) /\ IsFiniteSet(Partition)
  /\ Span \in Seq(Nat \X Nat)
  /\ \A k \in DOMAIN Span : Span[k][1] <= Span[k][2]
  /\ PartOf \in [1..Len(Span) -> Partition]
  /\ {Recent, MaxTime, MaxEvents, LogUntil, MaxFailures} \subseteq Nat

VARIABLES
  now,         \* the cycle the bridge began last: it closes this interval
  size,        \* labels.jsonl, in half rows
  logged,      \* Loki's events: [stream, ts, at]
  pc,          \* the bridge's step in the cycle
  offset, cursor,              \* what it remembers of its sources
  torn,        \* label rows that were read while being written
  restarts, aborts,            \* of the bridge
  queued,      \* label rows its producer has accepted and not yet delivered
  lost,        \* label rows that were in a batch that failed
  drops, retries,              \* batches that failed, that were sent again
  metrics, events, faults,     \* the topics
  up, pos, committed,          \* the consumer and its offsets
  buf, since,  \* per entity: its last L rows, and the rows since a window
  ends, labels, whole,         \* the ends of noc.faults when it started, the
               \* labels it drained, and whether it reached the ends
  windows,     \* every window it emitted
  crashes

lab == <<size, logged>>
bridge == <<now, pc, offset, cursor, torn, restarts, aborts>>
producer == <<queued, lost, drops, retries>>
topics == <<metrics, events, faults>>
consumer == <<up, pos, committed, buf, since, ends, labels, whole, windows,
              crashes>>
vars == <<lab, bridge, producer, topics, consumer>>

Row == 1..Len(Span)
Ent == 1..Series
Bucket == 1..MaxTime
Event == [stream : Stream, ts : 1..MaxEvents, at : 1..(MaxTime + 1)]

Init ==
  /\ now = 0 /\ size = 0 /\ logged = {}
  /\ pc = "asleep" /\ offset = 0 /\ cursor = 0 /\ torn = {}
  /\ restarts = 0 /\ aborts = 0
  /\ queued = <<>> /\ lost = {} /\ drops = 0 /\ retries = 0
  /\ metrics = <<>> /\ faults = [p \in Partition |-> <<>>]
  /\ events = [e \in Event |-> 0]
  /\ up = "down" /\ pos = 0 /\ committed = 0
  /\ buf = [e \in Ent |-> <<>>] /\ since = [e \in Ent |-> 0]
  /\ ends = [p \in Partition |-> 0] /\ labels = {} /\ whole = TRUE
  /\ windows = {} /\ crashes = 0

-----------------------------------------------------------------------------
(* The lab.                                                                *)

(* A device logs a line, in the interval that is running.                  *)
LogLine(s) ==
  /\ Cardinality(logged) < MaxEvents /\ now < LogUntil
  /\ logged' = logged \cup {[stream |-> s, ts |-> Cardinality(logged) + 1,
                             at |-> now + 1]}
  /\ UNCHANGED <<size, bridge, producer, topics, consumer>>

(* The orchestrator's append reaches the file in two parts.                *)
AppendHalf ==
  /\ size < 2 * Len(Span)
  /\ size' = size + 1
  /\ UNCHANGED <<logged, bridge, producer, topics, consumer>>

-----------------------------------------------------------------------------
(* The bridge's cycle: metrics, events, faults.                            *)

(* The window of a cycle is the interval and one step more, three buckets. *)
(* The rows are sorted by time (export.py's groupby).                      *)
Polled(t) ==
  LET n == IF t < 3 THEN t ELSE 3 IN
  [k \in 1..(n * Series) |->
     [ent |-> ((k - 1) % Series) + 1, bucket |-> t - n + ((k - 1) \div Series) + 1]]

(* The ways to pick some of n rows and keep their order.                   *)
Picks(n) ==
  UNION {{f \in [1..m -> 1..n] : \A i, j \in 1..m : i < j => f[i] < f[j]} :
         m \in 0..n}

(* What has gone wrong: restarts, crashes, cycles given up, batches that   *)
(* failed or were sent again, a drain that ended early.                    *)
Failures ==
  restarts + aborts + crashes + drops + retries + IF whole THEN 0 ELSE 1

(* A cycle begins when the interval has passed.  Of its rows f arrive: the *)
(* others were in a batch that failed.  At MaxTime cycles go on, with no   *)
(* new buckets to poll.                                                    *)
PumpMetrics ==
  /\ pc = "asleep"
  /\ pc' = "events"
  /\ IF now < MaxTime
     THEN LET rows == Polled(now + 1) IN
          \E f \in Picks(Len(rows)) :
            /\ now' = now + 1
            /\ metrics' = metrics \o [i \in DOMAIN f |-> rows[f[i]]]
            /\ drops' = drops + IF Len(f) = Len(rows) THEN 0 ELSE 1
            /\ Len(f) # Len(rows) => Failures < MaxFailures
     ELSE UNCHANGED <<now, metrics, drops>>
  /\ UNCHANGED <<lab, offset, cursor, torn, restarts, aborts, queued, lost,
                 retries, events, faults, consumer>>

(* The rows arrive twice: an attempt got no answer and was made again.     *)
ResendMetrics ==
  /\ pc = "asleep" /\ now < MaxTime /\ Failures < MaxFailures
  /\ pc' = "events" /\ now' = now + 1 /\ retries' = retries + 1
  /\ metrics' = metrics \o (Polled(now + 1) \o Polled(now + 1))
  /\ UNCHANGED <<lab, offset, cursor, torn, restarts, aborts, queued, lost, drops,
                 events, faults, consumer>>

(* VictoriaMetrics does not answer a query, or a send raises: the cycle is *)
(* given up, but rows that were sent before may arrive.                    *)
MetricsRaise ==
  /\ pc = "asleep" /\ now < MaxTime /\ Failures < MaxFailures
  /\ now' = now + 1 /\ aborts' = aborts + 1
  /\ LET rows == Polled(now + 1) IN
     \E f \in Picks(Len(rows)) :
       metrics' = metrics \o [i \in DOMAIN f |-> rows[f[i]]]
  /\ UNCHANGED <<lab, pc, offset, cursor, torn, restarts, producer, events,
                 faults, consumer>>

Visible == {e \in logged : e.at <= now /\ e.at + 1 >= now}

Newest(s) == {e \in Visible : e.stream = s /\
                \A f \in Visible : f.stream = s => f.ts <= e.ts}

(* Mutant: nothing is remembered of what was sent.                         *)
SentByNoCursor(order) == UNION {Newest(order[i]) : i \in DOMAIN order}

(* Loki lists a stream newest first and the cursor moves with every event  *)
(* sent: of each stream only the newest can pass it, and only if it is     *)
(* newer than those of the streams before.                                 *)
Sent(order) ==
  UNION {{e \in Newest(order[i]) :
            /\ e.ts > cursor
            /\ \A j \in 1..(i - 1) : \A f \in Newest(order[j]) : f.ts < e.ts} :
         i \in DOMAIN order}

Latest(S) == CHOOSE t \in S : \A u \in S : u <= t

PumpEvents(order) ==
  /\ pc = "events"
  /\ events' = [e \in Event |-> events[e] + IF e \in Sent(order) THEN 1 ELSE 0]
  /\ cursor' = Latest({cursor} \cup {e.ts : e \in Sent(order)})
  /\ pc' = "faults"
  /\ UNCHANGED <<lab, now, offset, torn, restarts, aborts, producer, metrics,
                 faults, consumer>>

(* Loki does not answer: no events in this cycle.                          *)
LokiError ==
  /\ pc = "events" /\ Visible # {}
  /\ pc' = "faults"
  /\ UNCHANGED <<lab, now, offset, cursor, torn, restarts, aborts, producer,
                 topics, consumer>>

(* The rows that lie whole between two offsets.                            *)
WholeRows(from, to) ==
  LET before == (from + 1) \div 2 IN
  [n \in 1..((to \div 2) - before) |-> before + n]

(* Mutant: a label file is read once.                                      *)
PumpFaultsStuck ==
  /\ pc = "faults"
  /\ queued' = IF offset = 0 THEN queued \o WholeRows(offset, size) ELSE queued
  /\ offset' = size
  /\ pc' = "flush"
  /\ UNCHANGED <<lab, now, cursor, torn, restarts, aborts, lost, drops, retries,
                 topics, consumer>>

(* Read to the end of the file, hand what parses to the producer, remember *)
(* the position: it is past the half row, whose rest will not parse        *)
(* either, and past rows of which nobody knows whether they will arrive.   *)
PumpFaults ==
  /\ pc = "faults"
  /\ queued' = queued \o WholeRows(offset, size)
  /\ offset' = size
  /\ torn' = torn \cup {k \in Row : size = 2 * k - 1 /\ offset # size}
  /\ pc' = "flush"
  /\ UNCHANGED <<lab, now, cursor, restarts, aborts, lost, drops, retries,
                 topics, consumer>>

(* Mutant: the position is remembered before the rows are sent.            *)
SendRaisesLate ==
  \E n \in 0..Len(WholeRows(offset, size)) :
    /\ pc = "faults" /\ offset < size /\ Failures < MaxFailures
    /\ queued' = queued \o SubSeq(WholeRows(offset, size), 1, n)
    /\ offset' = size
    /\ pc' = "asleep" /\ aborts' = aborts + 1
    /\ UNCHANGED <<lab, now, cursor, torn, restarts, lost, drops, retries,
                   topics, consumer>>

(* A send raises after some rows (no metadata, a full buffer): the         *)
(* position stays where it was, and nothing is flushed.                    *)
SendRaises ==
  \E n \in 0..Len(WholeRows(offset, size)) :
    /\ pc = "faults" /\ offset < size /\ Failures < MaxFailures
    /\ queued' = queued \o SubSeq(WholeRows(offset, size), 1, n)
    /\ pc' = "asleep" /\ aborts' = aborts + 1
    /\ UNCHANGED <<lab, now, offset, cursor, torn, restarts, lost, drops,
                   retries, topics, consumer>>

(* The cycle ends when every row handed over was delivered or given up:    *)
(* flush raises for neither.                                               *)
Flush ==
  /\ pc = "flush" /\ queued = <<>>
  /\ pc' = "asleep"
  /\ UNCHANGED <<lab, now, offset, cursor, torn, restarts, aborts, producer,
                 topics, consumer>>

(* Mutant: the offset survives a restart, the producer's rows do not.      *)
RestartRemembering ==
  /\ Failures < MaxFailures
  /\ restarts' = restarts + 1
  /\ pc' = "asleep" /\ cursor' = 0 /\ queued' = <<>>
  /\ UNCHANGED <<lab, now, offset, torn, aborts, lost, drops, retries, topics,
                 consumer>>

(* The bridge is started again: it remembers nothing, and what its         *)
(* producer had not delivered is gone.                                     *)
RestartBridge ==
  /\ Failures < MaxFailures
  /\ restarts' = restarts + 1
  /\ pc' = "asleep" /\ offset' = 0 /\ cursor' = 0 /\ queued' = <<>>
  /\ UNCHANGED <<lab, now, torn, aborts, lost, drops, retries, topics, consumer>>

-----------------------------------------------------------------------------
(* The producer's sender thread.  Rows of one partition go in the order    *)
(* they were queued in.                                                    *)

FirstOfItsPartition(i) ==
  \A j \in 1..(i - 1) : PartOf[queued[j]] # PartOf[queued[i]]

(* Mutant: rows are spread over the partitions.                            *)
ArriveAnywhere(k) ==
  \E p \in Partition : faults' = [faults EXCEPT ![p] = Append(@, k)]

(* A record is keyed by its device, which decides the partition.           *)
Arrive(k) == faults' = [faults EXCEPT ![PartOf[k]] = Append(@, k)]

Deliver ==
  \E i \in DOMAIN queued :
    /\ FirstOfItsPartition(i)
    /\ Arrive(queued[i])
    /\ queued' = RemoveAt(queued, i)
    /\ UNCHANGED <<lab, bridge, lost, drops, retries, metrics, events, consumer>>

(* The batch is given up: its future has failed, and nobody looks at it.   *)
DropBatch ==
  \E i \in DOMAIN queued :
    /\ FirstOfItsPartition(i) /\ Failures < MaxFailures
    /\ queued' = RemoveAt(queued, i)
    /\ lost' = lost \cup {queued[i]} /\ drops' = drops + 1
    /\ UNCHANGED <<lab, bridge, retries, topics, consumer>>

(* An attempt got no answer and is made again, at once or behind others in *)
(* flight; the first may have been written.  (Of kafka-python, where it    *)
(* retries.)                                                               *)
RetryBatch ==
  \E i \in DOMAIN queued :
    /\ FirstOfItsPartition(i) /\ Failures < MaxFailures
    /\ retries' = retries + 1
    /\ \/ Arrive(queued[i]) /\ UNCHANGED queued
       \/ /\ Arrive(queued[i]) \/ UNCHANGED faults
          /\ queued' = Append(RemoveAt(queued, i), queued[i])
    /\ UNCHANGED <<lab, bridge, lost, drops, metrics, events, consumer>>

-----------------------------------------------------------------------------
(* The predictive consumer.                                                *)

(* The end of each partition of noc.faults.                                *)
Ends == [p \in Partition |-> Len(faults[p])]

(* How far each partition may have been read.                              *)
UpToTheEnds ==
  {n \in [Partition -> UNION {0..Ends[p] : p \in Partition}] :
     \A p \in Partition : n[p] <= Ends[p]}

Upto(n) == UNION {ToSet(SubSeq(faults[p], 1, n[p])) : p \in Partition}

(* Mutant: a partition is done one record before its end.                  *)
DrainShort(n) ==
  UNION {ToSet(SubSeq(faults[p], 1, IF n[p] = 0 THEN 0 ELSE n[p] - 1)) :
         p \in Partition}

(* noc.faults from its beginning: of each partition the first n rows.      *)
Drain(n) == Upto(n)

(* Labels first, to the ends the topic has now; or less, if a poll is      *)
(* quiet for five seconds, and none if the client does not yet know the    *)
(* topic.  Then noc.metrics from the committed offset, with empty buffers. *)
Start ==
  /\ up = "down"
  /\ up' = "poll"
  /\ ends' = Ends
  /\ \E n \in UpToTheEnds :
       /\ labels' = Drain(n)
       /\ whole' = (n = Ends)
       /\ n # Ends => Failures < MaxFailures
  /\ pos' = committed
  /\ buf' = [e \in Ent |-> <<>>] /\ since' = [e \in Ent |-> 0]
  /\ UNCHANGED <<lab, bridge, producer, topics, committed, windows, crashes>>

(* Fault against window [t0, t1]: interval overlap.  t1 is the beginning   *)
(* of the last bucket.                                                     *)
Overlaps(k, t0, t1) == Span[k][1] <= 2 * t1 /\ Span[k][2] >= 2 * t0

Window(e, rows) ==
  LET t0 == metrics[rows[1]].bucket
      t1 == metrics[rows[L]].bucket IN
  [ent |-> e, rows |-> rows, t0 |-> t0, t1 |-> t1, ends |-> ends,
   whole |-> whole, labels |-> {k \in labels : Overlaps(k, t0, t1)}]

Pushed(q, k) == IF Len(q) = L THEN Append(Tail(q), k) ELSE Append(q, k)

Due(q, n) == Len(q) = L /\ n >= Stride

(* add_metric: a row goes to its series; a window when L rows are there    *)
(* and a stride has passed since the last.                                 *)
Consume ==
  /\ up = "poll" /\ pos < Len(metrics)
  /\ LET e == metrics[pos + 1].ent
         q == Pushed(buf[e], pos + 1) IN
     /\ pos' = pos + 1
     /\ buf' = [buf EXCEPT ![e] = q]
     /\ IF Due(q, since[e] + 1)
        THEN /\ since' = [since EXCEPT ![e] = 0]
             /\ windows' = windows \cup {Window(e, q)}
             /\ up' = "commit"
        ELSE /\ since' = [since EXCEPT ![e] = @ + 1]
             /\ UNCHANGED <<windows, up>>
  /\ UNCHANGED <<lab, bridge, producer, topics, committed, ends, labels, whole,
                 crashes>>

(* Mutant: the end of the fetched batch is committed.                      *)
CommitFetched ==
  /\ up = "commit"
  /\ committed' = Len(metrics)
  /\ up' = "poll"
  /\ UNCHANGED <<lab, bridge, producer, topics, pos, buf, since, ends, labels,
                 whole, windows, crashes>>

(* After a window, the position of the whole partition is committed.       *)
Commit ==
  /\ up = "commit"
  /\ committed' = pos
  /\ up' = "poll"
  /\ UNCHANGED <<lab, bridge, producer, topics, pos, buf, since, ends, labels,
                 whole, windows, crashes>>

CrashConsumer ==
  /\ up # "down" /\ Failures < MaxFailures
  /\ crashes' = crashes + 1
  /\ up' = "down"
  /\ buf' = [e \in Ent |-> <<>>] /\ since' = [e \in Ent |-> 0]
  /\ UNCHANGED <<lab, bridge, producer, topics, pos, committed, ends, labels,
                 whole, windows>>

-----------------------------------------------------------------------------
(* The copilot's consumer.  It reads each partition from wherever its      *)
(* group stands, in any interleaving, and keeps what it reads: its view is *)
(* a function of the rows it has read.                                     *)

(* The place in its partition of the m-th row, if `from' were read before  *)
(* and the partitions take the turns `turn'.                               *)
Place(from, turn, m) ==
  from[turn[m]] + Cardinality({j \in 1..m : turn[j] = turn[m]})

Read(from, turn) ==
  [m \in 1..Len(turn) |-> faults[turn[m]][Place(from, turn, m)]]

(* What is behind `from', and the turns by which all of it is read.        *)
Unread(from, p) == {p} \X ((from[p] + 1)..Len(faults[p]))
AllUnread(from) == UNION {Unread(from, p) : p \in Partition}

Turns(from) ==
  LET n == Cardinality(AllUnread(from)) IN
  {turn \in [1..n -> Partition] :
     \A p \in Partition :
       Cardinality({j \in 1..n : turn[j] = p}) = Cardinality(Unread(from, p))}

(* Whatever a consumer that has caught up may have read.                   *)
Readings ==
  UNION {{Read(from, turn) : turn \in Turns(from)} : from \in UpToTheEnds}

(* Mutant: over the limit the newest incident goes.                        *)
AddFaultDropNewest(q, k) ==
  IF k \in ToSet(q) \/ Len(q) = Keep THEN q ELSE Append(q, k)

(* A label that is sent again keeps the place of its first arrival; over   *)
(* the limit the one that arrived first goes.                              *)
AddFault(q, k) ==
  IF k \in ToSet(q) THEN q
  ELSE IF Len(q) = Keep THEN Append(Tail(q), k) ELSE Append(q, k)

(* What it keeps after each of the rows it reads.                          *)
Views(read) ==
  LET q[n \in 0..Len(read)] ==
        IF n = 0 THEN <<>> ELSE AddFault(q[n - 1], read[n])
  IN  q

Incidents(read) == Views(read)[Len(read)]

(* partition_faults: a row is written when its fault has ended, so active  *)
(* is what ended lately.  Its two parts keep the order of arrival: each is *)
(* the set of its positions.                                               *)
IsActive(k) == Span[k][2] + Recent >= 2 * now
Active(q) == {n \in DOMAIN q : IsActive(q[n])}
Resolved(q) == DOMAIN q \ Active(q)

-----------------------------------------------------------------------------
Orders == {s \in [1..Cardinality(Stream) -> Stream] : ToSet(s) = Stream}

Pump == \/ PumpMetrics \/ PumpFaults \/ Flush
        \/ \E order \in Orders : PumpEvents(order)

Next ==
  \/ AppendHalf \/ \E s \in Stream : LogLine(s)
  \/ Pump \/ ResendMetrics \/ MetricsRaise \/ LokiError \/ SendRaises \/ RestartBridge
  \/ Deliver \/ DropBatch \/ RetryBatch
  \/ Start \/ Consume \/ Commit \/ CrashConsumer

(* Calls of the bridge have timeouts and it never gives up its loop, nor   *)
(* does the sender thread.  (Each cycle waits for the sender in Flush, so  *)
(* that one of the two makes progress is enough.)                          *)
Fairness == WF_<<bridge, producer>>(Pump \/ Deliver)

Spec == Init /\ [][Next]_vars
FairSpec == Spec /\ Fairness

-----------------------------------------------------------------------------
(* Properties.                                                             *)

Times(s, x) == Cardinality({i \in 1..Len(s) : s[i] = x})

Log(k) == faults[PartOf[k]]

TypeOK ==
  /\ now \in 0..MaxTime
  /\ size \in 0..(2 * Len(Span)) /\ offset \in 0..size
  /\ logged \in SUBSET Event /\ cursor \in 0..MaxEvents
  /\ pc \in {"asleep", "events", "faults", "flush"}
  /\ torn \in SUBSET Row /\ lost \in SUBSET Row /\ labels \in SUBSET Row
  /\ queued \in Seq(Row)
  /\ metrics \in Seq([ent : Ent, bucket : Bucket])
  /\ events \in [Event -> Nat] /\ faults \in [Partition -> Seq(Row)]
  /\ up \in {"down", "poll", "commit"} /\ whole \in BOOLEAN
  /\ pos \in 0..Len(metrics) /\ committed \in 0..pos
  /\ \A e \in Ent : Len(buf[e]) <= L /\ since[e] \in 0..(L - 1)

(* A label row the bridge's offset has passed is on noc.faults or still in *)
(* the producer, unless it was being written when it was read, or its      *)
(* batch failed: nothing else is lost, not even by a send that raises in   *)
(* the middle or a restart over a full producer.                           *)
PassedLabelsAreSent ==
  \A k \in Row : 2 * k <= offset =>
    k \in ToSet(Log(k)) \cup ToSet(queued) \cup torn \cup lost

(* A label is on noc.faults once, and once more for each time the bridge   *)
(* was restarted, a cycle raised or a batch was sent again; and in no      *)
(* other partition than its device's.                                      *)
RepeatsAreExplained ==
  \A k \in Row :
    /\ Times(Log(k), k) <= 1 + restarts + aborts + retries
    /\ \A p \in Partition : k \in ToSet(faults[p]) => p = PartOf[k]

(* An event is sent at most once for each life of the bridge, although     *)
(* every interval is polled twice.                                         *)
EventsAreNotRepeated ==
  \A e \in Event : events[e] <= 1 + restarts

(* Rows are polled two or three times and some are lost: of one series a   *)
(* row comes before an older one only if they are neighbours, unless a     *)
(* batch was sent twice.                                                   *)
MetricsAreNearlyOrdered ==
  retries = 0 =>
    \A i, j, k \in 1..Len(metrics) :
      i < j /\ j < k /\ metrics[i].ent = metrics[j].ent
                   /\ metrics[j].ent = metrics[k].ent =>
        metrics[i].bucket <= metrics[k].bucket

(* What is on the topics, and what is missing, is accounted for.           *)
SendsAreAccounted ==
  /\ TypeOK
  /\ PassedLabelsAreSent /\ RepeatsAreExplained
  /\ EventsAreNotRepeated /\ MetricsAreNearlyOrdered

(* If the drain of the consumer that built it reached the ends, a window   *)
(* carries the label of every fault that was on noc.faults when that       *)
(* consumer started and that ran at the beginning of the window's last     *)
(* bucket; unless rows were sent twice and it ends before it begins.       *)
WindowsAreLabelled ==
  \A w \in windows : w.whole /\ (retries = 0 \/ w.t0 <= w.t1) =>
    \A p \in Partition : \A k \in ToSet(SubSeq(faults[p], 1, w.ends[p])) :
      2 * w.t1 \in Span[k][1]..Span[k][2] => k \in w.labels

(* A row below the committed offset is in some window or still buffered,   *)
(* unless the consumer has crashed: no stride leaves rows out.             *)
CommittedRowsAreUsed ==
  crashes = 0 =>
    \A k \in 1..committed :
      \/ \E w \in windows : k \in ToSet(w.rows)
      \/ k \in ToSet(buf[metrics[k].ent])

EndsInOrder == \A m, n \in Row : m < n => Span[m][2] <= Span[n][2]

SentOnce == restarts = 0 /\ aborts = 0 /\ retries = 0

(* The view q explains the rows that were read.                            *)
Explains(q, read) ==
  /\ IsInjective(q) /\ Len(q) <= Keep
  /\ Last(read) \in ToSet(q)
  /\ \A k \in ToSet(read) \ ToSet(q) : \A j \in ToSet(q) :
       \E m, n \in 1..Len(read) : read[m] = k /\ read[n] = j /\ m < n
  /\ SentOnce =>
       /\ \A n \in 1..Len(q) : q[n] = read[Len(read) - Len(q) + n]
       /\ Len(q) = Len(read) \/ Len(q) = Keep
       /\ EndsInOrder =>
            \A m, n \in Resolved(q) :
              m < n /\ PartOf[q[m]] = PartOf[q[n]] =>
                Span[q[m]][2] <= Span[q[n]][2]

(* Wherever the copilot started reading, and however the partitions took   *)
(* turns: its brief names no incident twice, always the one read last, and *)
(* never one that was read only before another it has dropped.  As long as *)
(* no row was sent twice they are the last Keep rows it read, and, if rows *)
(* are written in the order the faults ended, the resolved incidents of a  *)
(* partition are listed in that order.  (Those of several are not.)        *)
BriefIsExplained ==
  \A read \in Readings : read # <<>> => Explains(Incidents(read), read)

(* Again and again all whole label rows are on noc.faults, but for those   *)
(* that were torn or whose batch failed: none waits forever.               *)
LabelsArrive ==
  []<>(\A k \in Row : 2 * k <= size => k \in ToSet(Log(k)) \cup torn \cup lost)
==============================================================================
