------------------------- MODULE SpanExporterProofs -------------------------
(* Proofs about SpanExporter, for every value of its constants. *)
EXTENDS SpanExporter, FiniteSetTheorems, SequenceTheorems, TLAPS

LEMMA InitTyped == Init => TypeOK
<1> SUFFICES ASSUME Init PROVE TypeOK
  OBVIOUS
<1>1. queue \in Seq(Items) /\ enqueued \in Seq(Items) /\ batch \in Seq(Spans) /\ committed \in Seq(Spans)
  BY DEF Init
<1>2. /\ todo \in [Apps -> SUBSET Spans]
      /\ result \in [Apps -> {"none", "success", "failure"}]
      /\ read \in [Apps -> Nat \union {NotCounting}]
  BY DEF Init
<1>3. /\ flush \in [Flushes -> {"idle", "waiting", "true", "false"}]
      /\ deadline \in [Flushes -> BOOLEAN]
      /\ need \in [Flushes -> Nat]
  BY DEF Init
<1>4. closer \in [Closers ->
          {"idle", "checked", "stopped", "joining", "joined", "timedout", "returned"}]
  BY DEF Init
<1>5. unfinished \in Int /\ stopAt \in Nat /\ dropped \in Nat /\ acked \in Nat
  BY DEF Init
<1>6. refused \in SUBSET Spans
  BY DEF Init
<1>7. stop \in BOOLEAN
  BY DEF Init
<1>8. /\ wpc \in {"loop", "get", "write", "ack", "sentinel", "done", "died"}
      /\ after \in {"loop", "sentinel", "done"}
  BY DEF Init
<1> QED BY <1>1, <1>2, <1>3, <1>4, <1>5, <1>6, <1>7, <1>8 DEF TypeOK

LEMMA StepTyped == TypeOK /\ [Next]_vars => TypeOK'
<1> SUFFICES ASSUME TypeOK, [Next]_vars PROVE TypeOK'
  OBVIOUS
<1> USE ExporterAssumption DEF appVars, workVars, flushVars, closeVars, queueVars
<1>1. ASSUME NEW a \in Apps, ExportCall(a) PROVE TypeOK'
  BY <1>1 DEF TypeOK, ExportCall, Unsent
<1>2. ASSUME NEW a \in Apps, ExportPut(a) PROVE TypeOK'
  BY <1>2 DEF TypeOK, ExportPut, Put, Items
<1>3. ASSUME NEW a \in Apps, ExportDrop(a) PROVE TypeOK'
  BY <1>3 DEF TypeOK, ExportDrop
<1>4. ASSUME NEW a \in Apps, ExportCount(a) PROVE TypeOK'
  BY <1>4 DEF TypeOK, ExportCount, NotCounting
<1>5. CASE WorkerTest
  BY <1>5 DEF TypeOK, WorkerTest, FlushThen
<1>6. CASE WorkerGetSpan
  <2>1. Head(queue) \in Spans /\ Tail(queue) \in Seq(Items)
    BY <1>6 DEF TypeOK, WorkerGetSpan, Items
  <2> QED BY <1>6, <2>1 DEF TypeOK, WorkerGetSpan, Take
<1>7. CASE WorkerGetSentinel
  BY <1>7 DEF TypeOK, WorkerGetSentinel, Take, FlushThen
<1>8. CASE WorkerGetTimeout
  BY <1>8 DEF TypeOK, WorkerGetTimeout, FlushThen
<1>9. CASE WorkerWrite
  BY <1>9 DEF TypeOK, WorkerWrite
<1>10. CASE WorkerWriteFails
  BY <1>10 DEF TypeOK, WorkerWriteFails
<1>11. CASE WorkerAck
  <2>1. batch' \in Seq(Spans) /\ acked' \in Nat
    <3>1. CASE acked + 1 < Len(batch)
      BY <1>11, <3>1 DEF TypeOK, WorkerAck
    <3>2. CASE ~(acked + 1 < Len(batch))
      <4>1. batch' = <<>> /\ acked' = 0
        BY <1>11, <3>2 DEF WorkerAck
      <4> QED BY <4>1
    <3> QED BY <3>1, <3>2
  <2>2. wpc' \in {"loop", "get", "write", "ack", "sentinel", "done", "died"}
    BY <1>11 DEF TypeOK, WorkerAck
  <2> QED BY <1>11, <2>1, <2>2 DEF TypeOK, WorkerAck, TaskDone
<1>12. CASE WorkerAckSentinel
  BY <1>12 DEF TypeOK, WorkerAckSentinel, TaskDone
<1>13. ASSUME NEW f \in Flushes, Flush(f) PROVE TypeOK'
  <2>1. CASE FlushCall(f)
    BY <2>1 DEF TypeOK, FlushCall
  <2>2. CASE FlushJoined(f)
    BY <2>2 DEF TypeOK, FlushJoined
  <2>3. CASE FlushReturn(f)
    BY <2>3 DEF TypeOK, FlushReturn
  <2>4. CASE FlushTimeout(f)
    BY <2>4 DEF TypeOK, FlushTimeout
  <2> QED BY <1>13, <2>1, <2>2, <2>3, <2>4 DEF Flush
<1>14. ASSUME NEW c \in Closers, CloseCheck(c) PROVE TypeOK'
  BY <1>14 DEF TypeOK, CloseCheck
<1>15. ASSUME NEW c \in Closers, CloseStop(c) PROVE TypeOK'
  BY <1>15 DEF TypeOK, CloseStop
<1>16. ASSUME NEW c \in Closers, CloseSentinel(c) PROVE TypeOK'
  <2>1. CASE Full
    BY <1>16, <2>1 DEF TypeOK, CloseSentinel
  <2>2. CASE ~Full
    <3>1. Put(Sentinel) /\ Sentinel \in Items
      BY <1>16, <2>2 DEF CloseSentinel, Items
    <3>2. queue' \in Seq(Items) /\ enqueued' \in Seq(Items) /\ unfinished' \in Int
      BY <3>1 DEF TypeOK, Put
    <3> QED BY <1>16, <3>2 DEF TypeOK, CloseSentinel
  <2> QED BY <2>1, <2>2
<1>17. ASSUME NEW c \in Closers, CloseJoin(c) PROVE TypeOK'
  BY <1>17 DEF TypeOK, CloseJoin
<1>18. CASE UNCHANGED vars
  BY <1>18 DEF TypeOK, vars
<1> QED
  BY <1>1, <1>2, <1>3, <1>4, <1>5, <1>6, <1>7, <1>8, <1>9, <1>10, <1>11, <1>12,
     <1>13, <1>14, <1>15, <1>16, <1>17, <1>18
     DEF Next, Export, Worker, WorkerStep, Close

\* Every variable keeps its shape, whatever the threads do.
THEOREM TypeCorrect == Spec => []TypeOK
<1>1. Init => TypeOK
  BY InitTyped
<1>2. TypeOK /\ [Next]_vars => TypeOK'
  BY StepTyped
<1> QED BY <1>1, <1>2, PTL DEF Spec
-----------------------------------------------------------------------------
(* The layout of the log, under the four things that move an item. *)

LEMMA LayoutPut ==
    ASSUME NEW S, NEW e \in Seq(S), NEW c \in Seq(S), NEW h \in Seq(S),
           NEW q \in Seq(S), NEW x \in S, NEW t \in {0, 1}, Layout(e, c, h, t, q)
    PROVE  Layout(Append(e, x), c, h, t, Append(q, x))
<1> DEFINE n == Len(c) + Len(h)
           e1 == Append(e, x)
           q1 == Append(q, x)
<1>1. /\ Len(e1) = Len(e) + 1 /\ \A i \in 1..Len(e) : e1[i] = e[i]
      /\ Len(q1) = Len(q) + 1 /\ \A i \in 1..Len(q) : q1[i] = q[i]
      /\ e1[Len(e) + 1] = x /\ q1[Len(q) + 1] = x
  OBVIOUS
<1>2. /\ Len(e) = n + t + Len(q)
      /\ \A i \in 1..Len(c) : e[i] = c[i]
      /\ \A i \in 1..Len(h) : e[Len(c) + i] = h[i]
      /\ t = 1 => e[n + 1] = Sentinel
      /\ \A i \in 1..Len(q) : e[n + t + i] = q[i]
  BY DEF Layout
<1>3. Len(c) \in Nat /\ Len(h) \in Nat /\ Len(q) \in Nat /\ Len(e) \in Nat
  OBVIOUS
<1> HIDE DEF e1, q1
<1>4. Len(e1) = n + t + Len(q1)
  BY <1>1, <1>2, <1>3
<1>5. \A i \in 1..Len(c) : e1[i] = c[i]
  <2>1. \A i \in 1..Len(c) : i \in 1..Len(e)
    BY <1>2, <1>3
  <2> QED BY <1>1, <1>2, <2>1
<1>6. \A i \in 1..Len(h) : e1[Len(c) + i] = h[i]
  <2>1. \A i \in 1..Len(h) : Len(c) + i \in 1..Len(e)
    BY <1>2, <1>3
  <2> QED BY <1>1, <1>2, <2>1
<1>7. t = 1 => e1[n + 1] = Sentinel
  <2>1. t = 1 => n + 1 \in 1..Len(e)
    BY <1>2, <1>3
  <2> QED BY <1>1, <1>2, <2>1
<1>8. \A i \in 1..Len(q1) : e1[n + t + i] = q1[i]
  <2>1. ASSUME NEW i \in 1..Len(q) PROVE e1[n + t + i] = q1[i]
    <3>1. n + t + i \in 1..Len(e)
      BY <1>2, <1>3
    <3> QED BY <1>1, <1>2, <3>1
  <2>2. e1[n + t + Len(q1)] = q1[Len(q1)]
    BY <1>1, <1>2, <1>3
  <2>3. \A i \in 1..Len(q1) : i \in 1..Len(q) \/ i = Len(q1)
    BY <1>1, <1>3
  <2> QED BY <2>1, <2>2, <2>3
<1>9. Layout(e1, c, h, t, q1)
  BY <1>4, <1>5, <1>6, <1>7, <1>8 DEF Layout
<1> QED BY <1>9 DEF e1, q1

LEMMA LayoutTake ==
    ASSUME NEW S, NEW e \in Seq(S), NEW c \in Seq(S), NEW h \in Seq(S),
           NEW q \in Seq(S), q # <<>>, Layout(e, c, h, 0, q)
    PROVE  Layout(e, c, Append(h, Head(q)), 0, Tail(q))
<1> DEFINE q1 == Tail(q)
           h1 == Append(h, Head(q))
<1>1. /\ Len(q) \in Nat \ {0} /\ Len(q1) = Len(q) - 1
      /\ \A i \in 1..Len(q1) : q1[i] = q[i + 1]
      /\ Len(h1) = Len(h) + 1 /\ \A i \in 1..Len(h) : h1[i] = h[i]
      /\ h1[Len(h) + 1] = q[1]
  OBVIOUS
<1>2. Len(c) \in Nat /\ Len(h) \in Nat
  OBVIOUS
<1> HIDE DEF q1, h1
<1>3. \A i \in 1..Len(h1) : e[Len(c) + i] = h1[i]
  <2>1. e[Len(c) + Len(h1)] = h1[Len(h1)]
    BY <1>1, <1>2 DEF Layout
  <2>2. \A i \in 1..Len(h) : e[Len(c) + i] = h1[i]
    BY <1>1, <1>2 DEF Layout
  <2>3. \A i \in 1..Len(h1) : i \in 1..Len(h) \/ i = Len(h1)
    BY <1>1, <1>2
  <2> QED BY <2>1, <2>2, <2>3
<1>4. ASSUME NEW i \in 1..Len(q1)
      PROVE  e[Len(c) + Len(h1) + 0 + i] = q1[i]
  <2>1. i + 1 \in 1..Len(q)
    BY <1>1
  <2>2. e[Len(c) + Len(h) + 0 + (i + 1)] = q[i + 1]
    BY <2>1 DEF Layout
  <2>3. Len(c) + Len(h) + 0 + (i + 1) = Len(c) + Len(h1) + 0 + i
    BY <1>1, <1>2
  <2> QED BY <1>1, <2>2, <2>3
<1>5. Len(e) = Len(c) + Len(h1) + 0 + Len(q1)
  <2>1. Len(e) = Len(c) + Len(h) + 0 + Len(q)
    BY DEF Layout
  <2> QED BY <1>1, <1>2, <2>1
<1>6. \A i \in 1..Len(c) : e[i] = c[i]
  BY DEF Layout
<1>7. 0 # 1
  OBVIOUS
<1>8. Layout(e, c, h1, 0, q1)
  BY <1>3, <1>4, <1>5, <1>6, <1>7, Zenon DEF Layout
<1> QED BY <1>8 DEF q1, h1

LEMMA LayoutTakeSentinel ==
    ASSUME NEW S, NEW e \in Seq(S), NEW c \in Seq(S), NEW h \in Seq(S),
           NEW q \in Seq(S), q # <<>>, Head(q) = Sentinel, Layout(e, c, h, 0, q)
    PROVE  Layout(e, c, h, 1, Tail(q))
<1> DEFINE q1 == Tail(q)
<1>1. /\ Len(q) \in Nat \ {0} /\ Len(q1) = Len(q) - 1 /\ q[1] = Sentinel
      /\ \A i \in 1..Len(q1) : q1[i] = q[i + 1]
  OBVIOUS
<1>2. Len(c) \in Nat /\ Len(h) \in Nat
  OBVIOUS
<1> HIDE DEF q1
<1>3. Layout(e, c, h, 1, q1)
  BY <1>1, <1>2 DEF Layout
<1> QED BY <1>3 DEF q1

LEMMA LayoutCommit ==
    ASSUME NEW S, NEW e \in Seq(S), NEW c \in Seq(S), NEW h \in Seq(S),
           NEW q \in Seq(S), NEW t \in {0, 1}, Layout(e, c, h, t, q)
    PROVE  Layout(e, c \o h, <<>>, t, q)
<1> DEFINE c1 == c \o h
<1>1. /\ Len(c1) = Len(c) + Len(h)
      /\ \A i \in 1..Len(c1) : c1[i] = IF i <= Len(c) THEN c[i] ELSE h[i - Len(c)]
  OBVIOUS
<1>2. Len(c) \in Nat /\ Len(h) \in Nat /\ Len(q) \in Nat
  OBVIOUS
<1> HIDE DEF c1
<1>3. ASSUME NEW i \in 1..Len(c1) PROVE e[i] = c1[i]
  <2>1. CASE i <= Len(c)
    BY <1>1, <1>2, <2>1 DEF Layout
  <2>2. CASE i > Len(c)
    <3> DEFINE j == i - Len(c)
    <3>1. j \in 1..Len(h) /\ Len(c) + j = i
      BY <1>1, <1>2, <2>2
    <3>2. c1[i] = h[j]
      BY <1>1, <1>2, <2>2
    <3>3. e[Len(c) + j] = h[j]
      BY <3>1 DEF Layout
    <3> QED BY <3>1, <3>2, <3>3
  <2> QED BY <1>1, <1>2, <2>1, <2>2
<1>4. Layout(e, c1, <<>>, t, q)
  <2> DEFINE h1 == <<>>
  <2>1. Len(h1) = 0
    OBVIOUS
  <2> HIDE DEF h1
  <2>2. Layout(e, c1, h1, t, q)
    BY <1>1, <1>2, <1>3, <2>1 DEF Layout
  <2> QED BY <2>2 DEF h1
<1> QED BY <1>4 DEF c1
-----------------------------------------------------------------------------
(* The inductive invariant, one lemma for each kind of step. *)

LEMMA InitInvariant == Init => IInv
<1> SUFFICES ASSUME Init PROVE IInv
  OBVIOUS
<1>1. /\ Len(queue) = 0 /\ Len(batch) = 0 /\ Len(committed) = 0 /\ Len(enqueued) = 0
      /\ batch = <<>> /\ ~SentinelTaken
  BY DEF Init, SentinelTaken
<1>2. Held = batch
  BY DEF Init, Held
<1>3. Accounted
  BY <1>1 DEF Init, Accounted, Outstanding
<1>4. Layout(enqueued, committed, Held, 0, queue)
  BY <1>1, <1>2 DEF Layout
<1>5. Conserved
  BY <1>1, <1>4 DEF Conserved
<1>6. WorkerShape
  BY <1>1, ExporterAssumption DEF Init, WorkerShape
<1>7. StopShape
  BY <1>1 DEF Init, StopShape
<1>8. FlushShape
  BY <1>1 DEF Init, FlushShape
<1> QED BY <1>3, <1>5, <1>6, <1>7, <1>8 DEF IInv

\* A step that touches neither the queue nor the daemon thread.
LEMMA QuietKeeps ==
    ASSUME Accounted, Conserved, WorkerShape, UNCHANGED <<queueVars, workVars>>
    PROVE  Accounted' /\ Conserved' /\ WorkerShape'
<1> USE DEF queueVars, workVars
<1>1. Held' = Held /\ (SentinelTaken' <=> SentinelTaken) /\ Outstanding' = Outstanding
  BY DEF Held, SentinelTaken, Outstanding
<1>2. Accounted' /\ WorkerShape'
  BY <1>1 DEF Accounted, WorkerShape
<1>3. PICK t \in {0, 1} : /\ Layout(enqueued, committed, Held, t, queue)
                          /\ wpc # "done" => (t = 1 <=> SentinelTaken)
  BY DEF Conserved
<1>4. Layout(enqueued', committed', Held', t, queue')
  BY <1>1, <1>3
<1>5. wpc' # "done" => (t = 1 <=> SentinelTaken')
  BY <1>1, <1>3
<1> QED BY <1>2, <1>4, <1>5 DEF Conserved

LEMMA QuietKeepsFlush ==
    ASSUME FlushShape, UNCHANGED <<queueVars, flushVars>>
    PROVE  FlushShape'
BY DEF FlushShape, queueVars, flushVars

LEMMA QuietKeepsStop ==
    ASSUME StopShape, UNCHANGED <<queueVars, workVars, closeVars>>
    PROVE  StopShape'
BY DEF StopShape, Held, queueVars, workVars, closeVars

\* An item is put: by export(), or by shutdown() after it set the flag.
LEMMA PutKeeps ==
    ASSUME TypeOK, IInv, NEW item \in Items, Put(item), stop \/ item # Sentinel,
           UNCHANGED workVars, UNCHANGED flushVars, stop' = stop, stopAt' = stopAt,
           \A c \in Closers : closer'[c] \in {"stopped", "joining"} => stop
    PROVE  IInv'
<1> USE DEF workVars, flushVars
<1>1. /\ Len(enqueued') = Len(enqueued) + 1 /\ Len(queue') = Len(queue) + 1
      /\ \A i \in 1..Len(enqueued) : enqueued'[i] = enqueued[i]
      /\ enqueued'[Len(enqueued) + 1] = item
      /\ Len(enqueued) \in Nat /\ Len(queue) \in Nat
      /\ DOMAIN enqueued = 1..Len(enqueued) /\ DOMAIN enqueued' = 1..Len(enqueued')
  BY DEF Put, TypeOK
<1>2. Held' = Held /\ (SentinelTaken' <=> SentinelTaken) /\ Outstanding' = Outstanding
  BY DEF Held, SentinelTaken, Outstanding
<1>3. Accounted'
  <2>1. Outstanding \in Int
    BY DEF TypeOK, Outstanding
  <2> QED BY <1>1, <1>2, <2>1 DEF Put, Accounted, IInv
<1>4. Conserved'
  <2>1. PICK t \in {0, 1} : /\ Layout(enqueued, committed, Held, t, queue)
                            /\ wpc # "done" => (t = 1 <=> SentinelTaken)
    BY DEF Conserved, IInv
  <2>2. /\ enqueued \in Seq(Items) /\ queue \in Seq(Items)
        /\ committed \in Seq(Items) /\ Held \in Seq(Items)
    BY DEF TypeOK, Held, Items
  <2>3. Layout(enqueued', committed', Held', t, queue')
    BY <1>2, <2>1, <2>2, LayoutPut DEF Put
  <2>4. wpc' # "done" => (t = 1 <=> SentinelTaken')
    BY <1>2, <2>1
  <2> QED BY <2>3, <2>4 DEF Conserved
<1>5. WorkerShape'
  BY DEF WorkerShape, IInv
<1>6. StopShape'
  <2>1. stopAt' <= Len(enqueued') /\ \A i \in 1..stopAt' : enqueued'[i] # Sentinel
    <3>1. stopAt \in Nat /\ stopAt <= Len(enqueued)
      BY DEF TypeOK, StopShape, IInv
    <3>2. \A i \in 1..stopAt : i \in 1..Len(enqueued)
      BY <1>1, <3>1
    <3> QED BY <1>1, <3>1, <3>2 DEF StopShape, IInv
  <2>2. ~stop' => stopAt' = 0 /\ \A i \in DOMAIN enqueued' : enqueued'[i] # Sentinel
    <3>1. \A i \in 1..Len(enqueued') : i \in 1..Len(enqueued) \/ i = Len(enqueued) + 1
      BY <1>1
    <3> QED BY <1>1, <3>1 DEF StopShape, IInv
  <2>3. \A c \in Closers : closer'[c] \in {"stopped", "joining"} => stop'
    OBVIOUS
  <2>4. wpc' = "done" => stop' /\ Len(committed') >= stopAt'
    BY DEF StopShape, IInv
  <2>5. wpc' \in {"write", "ack"} /\ after' = "done" =>
            stop' /\ Len(committed') + Len(Held') >= stopAt'
    BY <1>2 DEF StopShape, IInv
  <2> QED BY <2>1, <2>2, <2>3, <2>4, <2>5 DEF StopShape
<1>7. FlushShape'
  <2>1. \A f \in Flushes : need[f] \in Nat
    BY DEF TypeOK
  <2> QED BY <1>1, <2>1 DEF FlushShape, IInv
<1> QED BY <1>3, <1>4, <1>5, <1>6, <1>7 DEF IInv

\* The daemon thread moves while its batch, the store and the queue stay:
\* the loop's test and get()'s timeout.
LEMMA WorkerMoves ==
    ASSUME TypeOK, IInv, wpc \in {"loop", "get"}, ~SentinelTaken', Held' = Held,
           UNCHANGED <<batch, acked, committed>>,
           UNCHANGED flushVars, UNCHANGED closeVars, UNCHANGED queueVars,
           wpc' \in {"loop", "get"} => batch = <<>> \/ wpc = "loop",
           wpc' = "write" => batch # <<>>,
           wpc' \in {"sentinel", "done"} => batch = <<>>,
           wpc' \notin {"ack", "died", "sentinel"},
           wpc' = "done" \/ (wpc' = "write" /\ after' = "done") =>
               stop /\ queue = <<>>
    PROVE  IInv'
<1> USE DEF queueVars, flushVars, closeVars
<1>1. Held = batch /\ ~SentinelTaken /\ acked = 0
  BY DEF Held, SentinelTaken, IInv, WorkerShape
<1>2. Layout(enqueued, committed, Held, 0, queue)
  BY <1>1 DEF IInv, Conserved
<1>3. Accounted'
  BY <1>1 DEF Accounted, Outstanding, IInv
<1>4. Conserved'
  <2>1. Layout(enqueued', committed', Held', 0, queue')
    BY <1>2
  <2> QED BY <2>1 DEF Conserved
<1>5. WorkerShape'
  <2>1. Len(batch) < BatchSize /\ Len(batch) \in Nat
    BY DEF WorkerShape, IInv, TypeOK
  <2> QED BY <1>1, <2>1 DEF WorkerShape, IInv
<1>6. StopShape'
  <2>1. queue = <<>> => Len(committed) + Len(Held) = Len(enqueued)
    <3>1. queue = <<>> => Len(queue) = 0
      OBVIOUS
    <3>2. Len(committed) \in Nat /\ Len(Held) \in Nat
      BY <1>1 DEF TypeOK
    <3> QED BY <1>2, <3>1, <3>2 DEF Layout
  <2>2. stopAt <= Len(enqueued)
    BY DEF StopShape, IInv
  <2>3. batch = <<>> => Len(Held) = 0
    BY <1>1
  <2>4. Len(committed) \in Nat
    BY DEF TypeOK
  <2>5. wpc' = "done" => stop' /\ Len(committed') >= stopAt'
    BY <1>1, <2>1, <2>2, <2>3, <2>4
  <2>6. wpc' \in {"write", "ack"} /\ after' = "done" =>
            stop' /\ Len(committed') + Len(Held') >= stopAt'
    BY <1>1, <2>1, <2>2
  <2> QED BY <2>5, <2>6 DEF StopShape, IInv
<1>7. FlushShape'
  BY DEF FlushShape, IInv
<1> QED BY <1>3, <1>4, <1>5, <1>6, <1>7 DEF IInv

LEMMA TestKeeps == TypeOK /\ IInv /\ WorkerTest => IInv'
<1> SUFFICES ASSUME TypeOK, IInv, WorkerTest PROVE IInv'
  OBVIOUS
<1>1. Held' = Held /\ ~SentinelTaken'
  BY DEF WorkerTest, FlushThen, Held, SentinelTaken
<1>2. wpc' = "done" \/ (wpc' = "write" /\ after' = "done") => stop /\ queue = <<>>
  BY DEF WorkerTest, FlushThen, KeepRunning
<1>3. /\ wpc = "loop" /\ wpc' \in {"get", "write", "done"}
      /\ wpc' = "write" => batch # <<>>
      /\ wpc' = "done" => batch = <<>>
  BY DEF WorkerTest, FlushThen
<1>4. /\ UNCHANGED <<batch, acked, committed>>
      /\ UNCHANGED flushVars /\ UNCHANGED closeVars /\ UNCHANGED queueVars
  BY DEF WorkerTest
<1> QED BY <1>1, <1>2, <1>3, <1>4, WorkerMoves

LEMMA TimeoutKeeps == TypeOK /\ IInv /\ WorkerGetTimeout => IInv'
<1> SUFFICES ASSUME TypeOK, IInv, WorkerGetTimeout PROVE IInv'
  OBVIOUS
<1>1. Held' = Held /\ ~SentinelTaken'
  BY DEF WorkerGetTimeout, FlushThen, Held, SentinelTaken
<1>2. /\ wpc = "get" /\ wpc' \in {"loop", "write"}
      /\ wpc' = "write" => batch # <<>> /\ after' = "loop"
      /\ wpc' = "loop" => batch = <<>>
  BY DEF WorkerGetTimeout, FlushThen
<1>3. /\ UNCHANGED <<batch, acked, committed>>
      /\ UNCHANGED flushVars /\ UNCHANGED closeVars /\ UNCHANGED queueVars
  BY DEF WorkerGetTimeout
<1> QED BY <1>1, <1>2, <1>3, WorkerMoves

LEMMA GetSpanKeeps == TypeOK /\ IInv /\ WorkerGetSpan => IInv'
<1> SUFFICES ASSUME TypeOK, IInv, WorkerGetSpan PROVE IInv'
  OBVIOUS
<1> USE DEF flushVars, closeVars
<1>1. /\ wpc = "get" /\ acked = 0 /\ Held = batch /\ ~SentinelTaken
      /\ wpc' \in {"write", "loop"}
      /\ wpc' = "write" => after' = "loop"
  BY DEF WorkerGetSpan, IInv, WorkerShape, Held, SentinelTaken
<1>2. Held' = batch' /\ ~SentinelTaken'
  BY <1>1 DEF Held, SentinelTaken
<1>3. /\ batch' = Append(batch, Head(queue)) /\ queue # <<>> /\ queue' = Tail(queue)
      /\ UNCHANGED <<acked, committed, enqueued, unfinished>>
      /\ UNCHANGED flushVars /\ UNCHANGED closeVars
  BY DEF WorkerGetSpan, Take
<1>4. /\ Len(batch') = Len(batch) + 1 /\ Len(batch) \in Nat
      /\ Len(queue') = Len(queue) - 1 /\ Len(queue) \in Nat
  BY <1>3 DEF TypeOK
<1>5. Accounted'
  BY <1>1, <1>2, <1>3, <1>4 DEF TypeOK, Accounted, Outstanding, IInv
<1>6. Conserved'
  <2>1. Layout(enqueued, committed, batch, 0, queue)
    BY <1>1 DEF IInv, Conserved
  <2>2. /\ enqueued \in Seq(Items) /\ queue \in Seq(Items)
        /\ committed \in Seq(Items) /\ batch \in Seq(Items)
    BY DEF TypeOK, Items
  <2>3. Layout(enqueued', committed', Held', 0, queue')
    BY <1>2, <1>3, <2>1, <2>2, LayoutTake
  <2> QED BY <1>2, <2>3 DEF Conserved
<1>7. WorkerShape'
  <2>1. Len(batch) < BatchSize /\ BatchSize \in Nat
    BY <1>1, ExporterAssumption DEF WorkerShape, IInv
  <2>2. Len(batch') <= BatchSize /\ (wpc' = "loop" => Len(batch') < BatchSize)
    BY <1>4, <2>1 DEF WorkerGetSpan
  <2>3. batch' # <<>>
    <3>1. batch' = <<>> => Len(batch') = 0
      OBVIOUS
    <3> QED BY <1>4, <3>1
  <2> QED BY <1>1, <1>3, <2>2, <2>3 DEF WorkerShape
<1>8. StopShape'
  BY <1>1, <1>3 DEF StopShape, IInv
<1>9. FlushShape'
  BY <1>3 DEF FlushShape, IInv
<1> QED BY <1>5, <1>6, <1>7, <1>8, <1>9 DEF IInv

LEMMA GetSentinelKeeps == TypeOK /\ IInv /\ WorkerGetSentinel => IInv'
<1> SUFFICES ASSUME TypeOK, IInv, WorkerGetSentinel PROVE IInv'
  OBVIOUS
<1> USE DEF flushVars, closeVars
<1>1. /\ wpc = "get" /\ acked = 0 /\ Held = batch /\ ~SentinelTaken
      /\ Len(batch) < BatchSize
  BY DEF WorkerGetSentinel, IInv, WorkerShape, Held, SentinelTaken
<1>2. /\ IF batch # <<>> THEN wpc' = "write" /\ after' = "sentinel"
                         ELSE wpc' = "sentinel"
      /\ queue # <<>> /\ Head(queue) = Sentinel /\ queue' = Tail(queue)
      /\ UNCHANGED <<batch, acked, committed, enqueued, unfinished>>
      /\ UNCHANGED flushVars /\ UNCHANGED closeVars
  BY DEF WorkerGetSentinel, FlushThen, Take
<1>3. Held' = batch /\ SentinelTaken'
  BY <1>2 DEF Held, SentinelTaken
<1>4. Len(queue') = Len(queue) - 1 /\ Len(queue) \in Nat /\ Len(batch) \in Nat
  BY <1>2 DEF TypeOK
<1>5. Accounted'
  BY <1>1, <1>2, <1>3, <1>4 DEF TypeOK, Accounted, Outstanding, IInv
<1>6. Conserved'
  <2>1. Layout(enqueued, committed, batch, 0, queue)
    BY <1>1 DEF IInv, Conserved
  <2>2. /\ enqueued \in Seq(Items) /\ queue \in Seq(Items)
        /\ committed \in Seq(Items) /\ batch \in Seq(Items)
    BY DEF TypeOK, Items
  <2>3. Layout(enqueued', committed', Held', 1, queue')
    BY <1>2, <1>3, <2>1, <2>2, LayoutTakeSentinel
  <2> QED BY <1>3, <2>3 DEF Conserved
<1>7. WorkerShape'
  BY <1>1, <1>2, <1>4 DEF WorkerShape, IInv
<1>8. StopShape'
  BY <1>1, <1>2 DEF StopShape, IInv
<1>9. FlushShape'
  BY <1>2 DEF FlushShape, IInv
<1> QED BY <1>5, <1>6, <1>7, <1>8, <1>9 DEF IInv

LEMMA WriteKeeps == TypeOK /\ IInv /\ WorkerWrite => IInv'
<1> SUFFICES ASSUME TypeOK, IInv, WorkerWrite PROVE IInv'
  OBVIOUS
<1> USE DEF flushVars, closeVars, queueVars
<1>1. /\ wpc = "write" /\ wpc' = "ack" /\ committed' = committed \o batch
      /\ UNCHANGED <<batch, acked, after>> /\ UNCHANGED flushVars
      /\ UNCHANGED closeVars /\ UNCHANGED queueVars
  BY DEF WorkerWrite
<1>2. Held = batch /\ Held' = <<>> /\ (SentinelTaken' <=> SentinelTaken)
  BY <1>1 DEF Held, SentinelTaken
<1>3. Outstanding' = Outstanding
  BY <1>1, <1>2 DEF Outstanding
<1>4. Accounted'
  BY <1>1, <1>3 DEF Accounted, IInv
<1>5. Conserved'
  <2>1. PICK t \in {0, 1} : /\ Layout(enqueued, committed, Held, t, queue)
                            /\ wpc # "done" => (t = 1 <=> SentinelTaken)
    BY DEF Conserved, IInv
  <2>2. /\ enqueued \in Seq(Items) /\ queue \in Seq(Items)
        /\ committed \in Seq(Items) /\ batch \in Seq(Items)
    BY DEF TypeOK, Items
  <2>3. Layout(enqueued', committed', Held', t, queue')
    BY <1>1, <1>2, <2>1, <2>2, LayoutCommit
  <2> QED BY <1>1, <1>2, <2>1, <2>3 DEF Conserved
<1>6. WorkerShape'
  <2>1. acked = 0 /\ batch # <<>> /\ Len(batch) <= BatchSize
    BY <1>1 DEF WorkerShape, IInv
  <2>2. Len(batch) \in Nat \ {0}
    BY <2>1 DEF TypeOK
  <2> QED BY <1>1, <2>1, <2>2 DEF WorkerShape
<1>7. StopShape'
  <2>1. Len(committed') = Len(committed) + Len(batch) /\ Len(Held') = 0
        /\ Len(committed) \in Nat /\ Len(batch) \in Nat
    BY <1>1, <1>2 DEF TypeOK
  <2> QED BY <1>1, <1>2, <2>1 DEF StopShape, IInv
<1>8. FlushShape'
  BY <1>1 DEF FlushShape, IInv
<1> QED BY <1>4, <1>5, <1>6, <1>7, <1>8 DEF IInv

LEMMA WriteFailsKeeps == TypeOK /\ IInv /\ WorkerWriteFails => IInv'
<1> SUFFICES ASSUME TypeOK, IInv, WorkerWriteFails PROVE IInv'
  OBVIOUS
<1> USE DEF flushVars, closeVars, queueVars
<1>1. /\ wpc = "write" /\ wpc' = "died"
      /\ UNCHANGED <<batch, acked, after, committed>> /\ UNCHANGED flushVars
      /\ UNCHANGED closeVars /\ UNCHANGED queueVars
  BY DEF WorkerWriteFails
<1>2. Held' = Held /\ (SentinelTaken' <=> SentinelTaken)
  BY <1>1 DEF Held, SentinelTaken
<1>3. Accounted'
  BY <1>1, <1>2 DEF Accounted, Outstanding, IInv
<1>4. Conserved'
  <2>1. PICK t \in {0, 1} : /\ Layout(enqueued, committed, Held, t, queue)
                            /\ wpc # "done" => (t = 1 <=> SentinelTaken)
    BY DEF Conserved, IInv
  <2>2. Layout(enqueued', committed', Held', t, queue')
    BY <1>1, <1>2, <2>1
  <2> QED BY <1>1, <1>2, <2>1, <2>2 DEF Conserved
<1>5. WorkerShape'
  BY <1>1 DEF WorkerShape, IInv
<1>6. StopShape'
  BY <1>1 DEF StopShape, IInv
<1>7. FlushShape'
  BY <1>1 DEF FlushShape, IInv
<1> QED BY <1>3, <1>4, <1>5, <1>6, <1>7 DEF IInv

LEMMA AckKeeps == TypeOK /\ IInv /\ WorkerAck => IInv'
<1> SUFFICES ASSUME TypeOK, IInv, WorkerAck PROVE IInv'
  OBVIOUS
<1> USE DEF flushVars, closeVars
<1>1. /\ wpc = "ack" /\ unfinished' = unfinished - 1
      /\ UNCHANGED <<queue, enqueued, committed, after>>
      /\ UNCHANGED flushVars /\ UNCHANGED closeVars
  BY DEF WorkerAck, TaskDone
<1>2. /\ acked < Len(batch) /\ Len(batch) <= BatchSize
      /\ acked \in Nat /\ Len(batch) \in Nat /\ BatchSize \in Nat \ {0}
  BY <1>1, ExporterAssumption DEF IInv, WorkerShape, TypeOK
<1>3. Held = <<>> /\ Len(Held) = 0
  BY <1>1 DEF Held
<1>4. FlushShape'
  BY <1>1 DEF FlushShape, IInv
<1>5. PICK t \in {0, 1} : /\ Layout(enqueued, committed, Held, t, queue)
                          /\ t = 1 <=> SentinelTaken
  BY <1>1 DEF Conserved, IInv
<1>6. CASE acked + 1 < Len(batch)
  <2>1. acked' = acked + 1 /\ wpc' = wpc /\ batch' = batch
    BY <1>6 DEF WorkerAck
  <2>2. Held' = Held /\ (SentinelTaken' <=> SentinelTaken)
    BY <1>1, <2>1 DEF Held, SentinelTaken
  <2>3. Accounted'
    BY <1>1, <1>2, <2>1, <2>2 DEF TypeOK, Accounted, Outstanding, IInv
  <2>4. Conserved'
    BY <1>1, <1>5, <2>1, <2>2 DEF Conserved
  <2>5. WorkerShape'
    BY <1>1, <1>2, <1>6, <2>1 DEF WorkerShape
  <2>6. StopShape'
    BY <1>1, <2>1, <2>2 DEF StopShape, IInv
  <2> QED BY <1>4, <2>3, <2>4, <2>5, <2>6 DEF IInv
<1>7. CASE ~(acked + 1 < Len(batch))
  <2>1. acked' = 0 /\ wpc' = after /\ batch' = <<>> /\ Len(batch') = 0
    BY <1>7 DEF WorkerAck
  <2>2. after \in {"loop", "sentinel", "done"}
    BY DEF TypeOK
  <2>3. Held' = Held /\ (SentinelTaken' <=> SentinelTaken)
    BY <1>1, <1>3, <2>1, <2>2 DEF Held, SentinelTaken
  <2>4. Accounted'
    <3> DEFINE s == IF SentinelTaken THEN 1 ELSE 0
    <3>1. Len(batch) - acked = 1
      BY <1>2, <1>7
    <3>2. Outstanding = 1 + s /\ Outstanding' = 0 + s /\ s \in Int
      BY <2>1, <2>3, <3>1 DEF Outstanding
    <3>3. unfinished = Len(queue) + Outstanding /\ unfinished \in Int /\ Len(queue) \in Nat
      BY DEF IInv, Accounted, TypeOK
    <3> HIDE DEF s
    <3>4. unfinished' = Len(queue) + Outstanding'
      BY <1>1, <3>2, <3>3
    <3> QED BY <1>1, <3>4 DEF Accounted
  <2>5. Conserved'
    BY <1>1, <1>5, <2>3 DEF Conserved
  <2>6. WorkerShape'
    BY <1>2, <2>1, <2>2 DEF WorkerShape
  <2>7. StopShape'
    <3>1. wpc' = "done" => stop' /\ Len(committed') >= stopAt'
      <4>1. Len(committed) \in Nat
        BY DEF TypeOK
      <4> QED BY <1>1, <1>3, <2>1, <4>1 DEF StopShape, IInv
    <3>2. wpc' \notin {"write", "ack"}
      BY <2>1, <2>2
    <3> QED BY <1>1, <3>1, <3>2 DEF StopShape, IInv
  <2> QED BY <1>4, <2>4, <2>5, <2>6, <2>7 DEF IInv
<1> QED BY <1>6, <1>7

LEMMA AckSentinelKeeps == TypeOK /\ IInv /\ WorkerAckSentinel => IInv'
<1> SUFFICES ASSUME TypeOK, IInv, WorkerAckSentinel PROVE IInv'
  OBVIOUS
<1> USE DEF flushVars, closeVars
<1>1. /\ wpc = "sentinel" /\ wpc' = "done" /\ unfinished' = unfinished - 1
      /\ UNCHANGED <<queue, enqueued, batch, acked, after, committed>>
      /\ UNCHANGED flushVars /\ UNCHANGED closeVars
  BY DEF WorkerAckSentinel, TaskDone
<1>2. batch = <<>> /\ Len(batch) = 0 /\ acked = 0
  BY <1>1 DEF WorkerShape, IInv
<1>3. Held = batch /\ Held' = Held /\ SentinelTaken /\ ~SentinelTaken'
  BY <1>1 DEF Held, SentinelTaken
<1>4. Accounted'
  BY <1>1, <1>2, <1>3 DEF TypeOK, Accounted, Outstanding, IInv
<1>5. Layout(enqueued, committed, Held, 1, queue)
  BY <1>1, <1>3 DEF Conserved, IInv
<1>6. Conserved'
  <2>1. Layout(enqueued', committed', Held', 1, queue')
    BY <1>1, <1>3, <1>5
  <2> QED BY <1>1, <2>1 DEF Conserved
<1>7. WorkerShape'
  BY <1>1, <1>2 DEF WorkerShape, IInv
<1>8. StopShape'
  <2>1. Len(committed) + 1 \in DOMAIN enqueued /\ enqueued[Len(committed) + 1] = Sentinel
    <3>1. Len(committed) \in Nat /\ Len(queue) \in Nat /\ DOMAIN enqueued = 1..Len(enqueued)
      BY DEF TypeOK
    <3> QED BY <1>2, <1>3, <1>5, <3>1 DEF Layout
  <2>2. stop
    BY <2>1 DEF StopShape, IInv
  <2>3. Len(committed) >= stopAt
    <3>1. Len(committed) \in Nat /\ stopAt \in Nat
      BY DEF TypeOK
    <3>2. Len(committed) < stopAt => Len(committed) + 1 \in 1..stopAt
      BY <3>1
    <3> QED BY <2>1, <3>1, <3>2 DEF StopShape, IInv
  <2> QED BY <1>1, <2>2, <2>3 DEF StopShape, IInv
<1>9. FlushShape'
  BY <1>1 DEF FlushShape, IInv
<1> QED BY <1>4, <1>6, <1>7, <1>8, <1>9 DEF IInv

\* What shutdown() and force_flush() do outside the queue.
LEMMA CloseKeeps ==
    ASSUME TypeOK, IInv, NEW c \in Closers, CloseCheck(c) \/ CloseStop(c) \/ CloseJoin(c)
    PROVE  IInv'
<1>1. Accounted' /\ Conserved' /\ WorkerShape'
  BY QuietKeeps DEF IInv, CloseCheck, CloseStop, CloseJoin
<1>2. FlushShape'
  BY QuietKeepsFlush DEF IInv, CloseCheck, CloseStop, CloseJoin
<1>3. StopShape'
  <2> USE DEF queueVars, workVars
  <2>1. CASE CloseCheck(c) \/ CloseJoin(c)
    <3>1. \A d \in Closers : closer'[d] \in {"stopped", "joining"} =>
              closer[d] \in {"stopped", "joining"}
      BY <2>1 DEF CloseCheck, CloseJoin, TypeOK
    <3>2. UNCHANGED <<stop, stopAt, queueVars, workVars>>
      BY <2>1 DEF CloseCheck, CloseJoin
    <3> QED BY <3>1, <3>2 DEF StopShape, IInv, Held
  <2>2. CASE CloseStop(c)
    <3>1. stop' /\ UNCHANGED <<queueVars, workVars>>
      BY <2>2 DEF CloseStop
    <3>2. CASE stop
      <4>1. stopAt' = stopAt
        BY <2>2, <3>2 DEF CloseStop
      <4> QED BY <3>1, <3>2, <4>1 DEF StopShape, IInv, Held
    <3>3. CASE ~stop
      <4>1. /\ stopAt' = Len(enqueued) /\ Len(enqueued) \in Nat
            /\ DOMAIN enqueued = 1..Len(enqueued)
        BY <2>2, <3>3 DEF CloseStop, TypeOK
      <4>2. \A i \in DOMAIN enqueued : enqueued[i] # Sentinel
        BY <3>3 DEF StopShape, IInv
      <4>3. wpc # "done" /\ ~(wpc \in {"write", "ack"} /\ after = "done")
        BY <3>3 DEF StopShape, IInv
      <4> QED BY <3>1, <4>1, <4>2, <4>3 DEF StopShape
    <3> QED BY <3>2, <3>3
  <2> QED BY <2>1, <2>2
<1> QED BY <1>1, <1>2, <1>3 DEF IInv

LEMMA FlushKeeps ==
    ASSUME TypeOK, IInv, NEW f \in Flushes, Flush(f)
    PROVE  IInv'
<1>1. UNCHANGED <<queueVars, workVars, closeVars>>
  BY DEF Flush, FlushCall, FlushJoined, FlushReturn, FlushTimeout
<1>2. Accounted' /\ Conserved' /\ WorkerShape' /\ StopShape'
  BY <1>1, QuietKeeps, QuietKeepsStop DEF IInv
<1>3. FlushShape'
  <2>1. CASE FlushCall(f)
    <3>1. /\ flush' = [flush EXCEPT ![f] = "waiting"] /\ deadline' = deadline
          /\ need' = [need EXCEPT ![f] = Len(enqueued)] /\ enqueued' = enqueued
          /\ Len(enqueued) \in Nat
      BY <2>1 DEF FlushCall, queueVars, TypeOK
    <3> QED BY <3>1 DEF FlushShape, TypeOK, IInv
  <2>2. CASE FlushJoined(f)
    BY <2>2 DEF FlushJoined, FlushShape, TypeOK, IInv, queueVars
  <2>3. CASE FlushReturn(f)
    BY <2>3 DEF FlushReturn, FlushShape, TypeOK, IInv, queueVars
  <2>4. CASE FlushTimeout(f)
    BY <2>4 DEF FlushTimeout, FlushShape, TypeOK, IInv, queueVars
  <2> QED BY <2>1, <2>2, <2>3, <2>4 DEF Flush
<1> QED BY <1>2, <1>3 DEF IInv

LEMMA StepKeeps == TypeOK /\ IInv /\ [Next]_vars => IInv'
<1> SUFFICES ASSUME TypeOK, IInv, [Next]_vars PROVE IInv'
  OBVIOUS
<1>1. ASSUME NEW a \in Apps, ExportCall(a) \/ ExportDrop(a) \/ ExportCount(a)
      PROVE  IInv'
  <2>1. UNCHANGED <<queueVars, workVars, flushVars, closeVars>>
    BY <1>1 DEF ExportCall, ExportDrop, ExportCount
  <2> QED BY <2>1, QuietKeeps, QuietKeepsFlush, QuietKeepsStop DEF IInv
<1>2. ASSUME NEW a \in Apps, ExportPut(a) PROVE IInv'
  <2>1. PICK s \in todo[a] : Put(s)
    BY <1>2 DEF ExportPut
  <2>2. s \in Spans /\ s \in Items /\ s # Sentinel
    BY ExporterAssumption DEF TypeOK, Items
  <2>3. UNCHANGED workVars /\ UNCHANGED flushVars /\ UNCHANGED closeVars
    BY <1>2 DEF ExportPut
  <2>4. \A c \in Closers : closer'[c] \in {"stopped", "joining"} => stop
    BY <2>3 DEF closeVars, IInv, StopShape
  <2> QED BY <2>1, <2>2, <2>3, <2>4, PutKeeps DEF closeVars
<1>3. ASSUME NEW c \in Closers, CloseSentinel(c) PROVE IInv'
  <2>1. stop
    BY <1>3 DEF CloseSentinel, IInv, StopShape
  <2>2. UNCHANGED <<stop, stopAt, workVars, flushVars>>
    BY <1>3 DEF CloseSentinel
  <2>3. CASE Full
    <3>1. UNCHANGED queueVars
      BY <1>3, <2>3 DEF CloseSentinel
    <3>2. StopShape'
      BY <2>1, <2>2, <3>1 DEF StopShape, IInv, Held, queueVars, workVars
    <3> QED BY <2>2, <3>1, <3>2, QuietKeeps, QuietKeepsFlush DEF IInv
  <2>4. CASE ~Full
    <3>1. Put(Sentinel) /\ Sentinel \in Items
      BY <1>3, <2>4 DEF CloseSentinel, Items
    <3> QED BY <2>1, <2>2, <3>1, PutKeeps
  <2> QED BY <2>3, <2>4
<1>4. CASE UNCHANGED vars
  <2>1. UNCHANGED <<queueVars, workVars, flushVars, closeVars>>
    BY <1>4 DEF vars
  <2> QED BY <2>1, QuietKeeps, QuietKeepsFlush, QuietKeepsStop DEF IInv
<1> QED
  BY <1>1, <1>2, <1>3, <1>4, CloseKeeps, FlushKeeps, TestKeeps, GetSpanKeeps,
     GetSentinelKeeps, TimeoutKeeps, WriteKeeps, WriteFailsKeeps, AckKeeps,
     AckSentinelKeeps
     DEF Next, Export, Worker, WorkerStep, Close

\* No accepted item is lost track of, and the unfinished count is exact.
THEOREM InvariantHolds == Spec => []IInv
<1>1. Init => IInv
  BY InitInvariant
<1>2. TypeOK /\ IInv /\ [Next]_vars => IInv'
  BY StepKeeps
<1> QED BY <1>1, <1>2, TypeCorrect, PTL DEF Spec
-----------------------------------------------------------------------------
(* What follows from the invariant. *)

LEMMA CommittedInOrder ==
    ASSUME TypeOK, Conserved
    PROVE  /\ Len(committed) \in Nat /\ Len(enqueued) \in Nat
           /\ Len(committed) <= Len(enqueued)
           /\ \A i \in 1..Len(committed) : committed[i] = enqueued[i]
<1>1. PICK t \in {0, 1} : Layout(enqueued, committed, Held, t, queue)
  BY DEF Conserved
<1>2. Len(committed) \in Nat /\ Len(Held) \in Nat /\ Len(queue) \in Nat /\ Len(enqueued) \in Nat
  BY DEF TypeOK, Held
<1> QED BY <1>1, <1>2 DEF Layout

\* The store holds an initial part of what was accepted, in order.
THEOREM PrefixHolds == Spec => []StoreIsPrefix
<1>1. TypeOK /\ IInv => StoreIsPrefix
  BY CommittedInOrder DEF IInv, StoreIsPrefix
<1> QED BY <1>1, TypeCorrect, InvariantHolds, PTL

LEMMA PrefixPersisted ==
    ASSUME TypeOK, Conserved, NEW n \in Nat, n <= Len(committed)
    PROVE  Persisted(n)
<1>1. DOMAIN committed = 1..Len(committed)
  BY DEF TypeOK
<1> QED BY <1>1, CommittedInOrder DEF Persisted

\* A normal end of the daemon thread leaves nothing behind that was
\* accepted before the stop flag was set.
THEOREM StopDrainsHolds == Spec => []StopDrains
<1>1. TypeOK /\ IInv => StopDrains
  <2> SUFFICES ASSUME TypeOK, IInv, wpc = "done" PROVE stop /\ Persisted(stopAt)
    BY DEF StopDrains
  <2>1. stop /\ Len(committed) >= stopAt
    BY DEF IInv, StopShape
  <2>2. stopAt \in Nat /\ Len(committed) \in Nat
    BY DEF TypeOK
  <2> QED BY <2>1, <2>2, PrefixPersisted DEF IInv
<1> QED BY <1>1, TypeCorrect, InvariantHolds, PTL

\* Whatever a step does, the log and the store only grow at their ends.
LEMMA OnlyGrow ==
    ASSUME TypeOK, [Next]_vars
    PROVE  /\ Len(enqueued) <= Len(enqueued')
           /\ \A i \in 1..Len(enqueued) : enqueued'[i] = enqueued[i]
           /\ Len(committed) <= Len(committed')
           /\ \A i \in 1..Len(committed) : committed'[i] = committed[i]
<1>1. \/ UNCHANGED enqueued
      \/ \E x \in Items : enqueued' = Append(enqueued, x)
  BY ExporterAssumption
     DEF Next, vars, Export, Worker, WorkerStep, Flush, Close, Items, TypeOK,
         appVars, workVars, flushVars, closeVars, queueVars, Put, Take, TaskDone,
         ExportCall, ExportPut, ExportDrop, ExportCount, WorkerTest, WorkerGetSpan,
         WorkerGetSentinel, WorkerGetTimeout, WorkerWrite, WorkerWriteFails,
         WorkerAck, WorkerAckSentinel, FlushCall, FlushJoined, FlushReturn,
         FlushTimeout, CloseCheck, CloseStop, CloseSentinel, CloseJoin
<1>2. \/ UNCHANGED committed
      \/ committed' = committed \o batch
  BY DEF Next, vars, Export, Worker, WorkerStep, Flush, Close,
         appVars, workVars, flushVars, closeVars, queueVars,
         ExportCall, ExportPut, ExportDrop, ExportCount, WorkerTest, WorkerGetSpan,
         WorkerGetSentinel, WorkerGetTimeout, WorkerWrite, WorkerWriteFails,
         WorkerAck, WorkerAckSentinel, FlushCall, FlushJoined, FlushReturn,
         FlushTimeout, CloseCheck, CloseStop, CloseSentinel, CloseJoin
<1>3. /\ Len(enqueued) <= Len(enqueued')
      /\ \A i \in 1..Len(enqueued) : enqueued'[i] = enqueued[i]
  <2>1. enqueued \in Seq(Items)
    BY DEF TypeOK
  <2>2. CASE UNCHANGED enqueued
    BY <2>1, <2>2
  <2>3. CASE \E x \in Items : enqueued' = Append(enqueued, x)
    BY <2>1, <2>3
  <2> QED BY <1>1, <2>2, <2>3
<1>4. /\ Len(committed) <= Len(committed')
      /\ \A i \in 1..Len(committed) : committed'[i] = committed[i]
  BY <1>2 DEF TypeOK
<1> QED BY <1>3, <1>4

\* The queue's unfinished count is zero only when all is in the store.
LEMMA JoinedMeansPersisted ==
    ASSUME TypeOK, IInv, unfinished = 0
    PROVE  Persisted(Len(enqueued))
<1>1. /\ Len(queue) \in Nat /\ Len(batch) \in Nat /\ acked \in Nat
      /\ DOMAIN enqueued = 1..Len(enqueued) /\ DOMAIN committed = 1..Len(committed)
  BY DEF TypeOK
<1>2. Len(batch) - acked >= 0
  <2>1. wpc # "ack" => acked = 0
    BY DEF IInv, WorkerShape
  <2>2. wpc = "ack" => acked < Len(batch)
    BY DEF IInv, WorkerShape
  <2> QED BY <1>1, <2>1, <2>2
<1>3. Len(queue) = 0 /\ Len(batch) = acked /\ ~SentinelTaken
  BY <1>1, <1>2 DEF IInv, Accounted, Outstanding
<1>4. wpc # "ack" /\ Len(batch) = 0 /\ Len(Held) = 0
  BY <1>1, <1>3 DEF IInv, WorkerShape, Held
<1>5. PICK t \in {0, 1} : Layout(enqueued, committed, Held, t, queue)
  BY DEF Conserved, IInv
<1>6. /\ Len(enqueued) = Len(committed) + t
      /\ t = 1 => enqueued[Len(committed) + 1] = Sentinel
      /\ \A i \in 1..Len(committed) : enqueued[i] = committed[i]
      /\ Len(committed) \in Nat
  BY <1>3, <1>4, <1>5 DEF Layout, TypeOK
<1>7. ASSUME NEW i \in 1..Len(enqueued), enqueued[i] \in Spans
      PROVE  \E j \in DOMAIN committed : committed[j] = enqueued[i]
  <2>1. i # Len(committed) + 1
    BY <1>6, <1>7, ExporterAssumption
  <2>2. i \in 1..Len(committed)
    BY <1>6, <2>1
  <2> QED BY <1>1, <1>6, <2>2
<1> QED BY <1>7 DEF Persisted

\* force_flush() returns True only for a store that has every span accepted
\* before the call.
THEOREM FlushSoundHolds == Spec => []FlushSound
<1>1. Init => FlushSound
  BY DEF Init, FlushSound
<1>2. TypeOK /\ IInv /\ FlushSound /\ [Next]_vars => FlushSound'
  <2> SUFFICES ASSUME TypeOK, IInv, FlushSound, [Next]_vars,
                      NEW f \in Flushes, deadline'[f]
               PROVE  Persisted(need[f])'
    BY DEF FlushSound
  <2>1. \/ deadline[f] /\ need'[f] = need[f]
        \/ FlushJoined(f)
    BY DEF Next, vars, Export, Worker, WorkerStep, Flush, Close, TypeOK, IInv, FlushShape,
           appVars, workVars, flushVars, closeVars, queueVars,
           ExportCall, ExportPut, ExportDrop, ExportCount, WorkerTest, WorkerGetSpan,
           WorkerGetSentinel, WorkerGetTimeout, WorkerWrite, WorkerWriteFails,
           WorkerAck, WorkerAckSentinel, FlushCall, FlushJoined, FlushReturn,
           FlushTimeout, CloseCheck, CloseStop, CloseSentinel, CloseJoin
  <2>2. /\ need[f] \in Nat /\ need[f] <= Len(enqueued) /\ Len(enqueued) \in Nat
        /\ DOMAIN committed = 1..Len(committed) /\ Len(committed) \in Nat
    BY DEF TypeOK, IInv, FlushShape
  <2>3. Persisted(need[f]) /\ need'[f] = need[f]
    <3>1. CASE FlushJoined(f)
      BY <2>2, <3>1, JoinedMeansPersisted DEF FlushJoined, Persisted
    <3> QED BY <2>1, <3>1 DEF FlushSound
  <2>4. DOMAIN committed \subseteq DOMAIN committed'
    <3>1. DOMAIN committed' = 1..Len(committed') /\ Len(committed') \in Nat
      <4>1. committed' \in Seq(Spans)
        BY StepTyped DEF TypeOK
      <4> QED BY <4>1
    <3> QED BY <2>2, <3>1, OnlyGrow
  <2> QED BY <2>2, <2>3, <2>4, OnlyGrow DEF Persisted
<1> QED BY <1>1, <1>2, TypeCorrect, InvariantHolds, PTL DEF Spec

\* The store only grows, by whole batches of at most batch_size spans.
THEOREM WholeBatchesHold == Spec => CommitsWholeBatches
<1> DEFINE Grows ==
        /\ wpc = "write"
        /\ Len(committed') - Len(committed) \in 1..BatchSize
        /\ SubSeq(committed', 1, Len(committed)) = committed
<1>1. TypeOK /\ IInv /\ [Next]_vars => (committed' # committed => Grows)
  <2> SUFFICES ASSUME TypeOK, IInv, [Next]_vars, committed' # committed
               PROVE  Grows
    OBVIOUS
  <2>1. WorkerWrite
    BY DEF Next, vars, Export, Worker, WorkerStep, Flush, Close,
           appVars, workVars, flushVars, closeVars, queueVars,
           ExportCall, ExportPut, ExportDrop, ExportCount, WorkerTest, WorkerGetSpan,
           WorkerGetSentinel, WorkerGetTimeout, WorkerWriteFails,
           WorkerAck, WorkerAckSentinel, FlushCall, FlushJoined, FlushReturn,
           FlushTimeout, CloseCheck, CloseStop, CloseSentinel, CloseJoin
  <2>2. /\ wpc = "write" /\ committed' = committed \o batch
        /\ committed \in Seq(Spans) /\ batch \in Seq(Spans)
    BY <2>1 DEF WorkerWrite, TypeOK
  <2>3. Len(batch) \in 1..BatchSize
    <3>1. batch # <<>> /\ Len(batch) <= BatchSize
      BY <2>2 DEF IInv, WorkerShape
    <3>2. Len(batch) \in Nat \ {0}
      BY <2>2, <3>1
    <3> QED BY <3>1, <3>2, ExporterAssumption
  <2>4. Len(committed') = Len(committed) + Len(batch)
    BY <2>2
  <2>5. SubSeq(committed', 1, Len(committed)) = committed
    <3> DEFINE s == SubSeq(committed', 1, Len(committed))
    <3>1. committed' \in Seq(Spans) /\ Len(committed) \in Nat /\ Len(batch) \in Nat
      BY <2>2
    <3>2. s \in Seq(Spans) /\ Len(s) = Len(committed)
      BY <2>4, <3>1, SubSeqProperties
    <3>3. \A i \in 1..Len(committed) : s[i] = committed[i]
      BY <2>2, <2>4, <3>1, OnlyGrow, SubSeqProperties
    <3> HIDE DEF s
    <3>4. s = committed
      BY <2>2, <3>2, <3>3, SeqEqual
    <3> QED BY <3>4 DEF s
  <2>6. Len(committed') - Len(committed) = Len(batch)
    BY <2>2, <2>4
  <2> QED BY <2>2, <2>3, <2>5, <2>6
<1> QED BY <1>1, TypeCorrect, InvariantHolds, PTL DEF Spec, CommitsWholeBatches
-----------------------------------------------------------------------------
(* The exporter implements SpanDelivery. *)

LEMMA DeliveryStep ==
    ASSUME TypeOK, TypeOK', IInv, IInv', [Next]_vars
    PROVE  [Delivery!DNext]_(Delivery!dvars)
<1> USE DEF Delivery!dvars
<1>1. CASE UNCHANGED <<enqueued, committed, stop, stopAt, Status>>
  BY <1>1
<1>2. ASSUME NEW a \in Apps, ExportCall(a) \/ ExportDrop(a) \/ ExportCount(a)
      PROVE  UNCHANGED <<enqueued, committed, stop, stopAt, wpc>>
  BY <1>2 DEF ExportCall, ExportDrop, ExportCount, workVars, closeVars, queueVars
<1>3. ASSUME NEW a \in Apps, ExportPut(a) PROVE Delivery!DNext
  <2>1. PICK s \in todo[a] : Put(s)
    BY <1>3 DEF ExportPut
  <2>2. s \in Spans
    BY DEF TypeOK
  <2>3. UNCHANGED <<committed, stop, stopAt, wpc>>
    BY <1>3 DEF ExportPut, workVars, closeVars
  <2>4. Status' = Status
    BY <2>3 DEF Status
  <2>5. Delivery!Accept(s)
    BY <2>1, <2>3, <2>4 DEF Delivery!Accept, Put
  <2> QED BY <2>2, <2>5 DEF Delivery!DNext
<1>4. ASSUME NEW f \in Flushes, Flush(f)
      PROVE  UNCHANGED <<enqueued, committed, stop, stopAt, wpc>>
  BY <1>4 DEF Flush, FlushCall, FlushJoined, FlushReturn, FlushTimeout, workVars,
              closeVars, queueVars
<1>5. ASSUME NEW c \in Closers, CloseCheck(c) \/ CloseJoin(c)
      PROVE  UNCHANGED <<enqueued, committed, stop, stopAt, wpc>>
  BY <1>5 DEF CloseCheck, CloseJoin, workVars, queueVars
<1>6. ASSUME NEW c \in Closers, CloseStop(c)
      PROVE  Delivery!DNext \/ UNCHANGED Delivery!dvars
  <2>1. UNCHANGED <<enqueued, committed, wpc>> /\ stop' = TRUE
    BY <1>6 DEF CloseStop, workVars, queueVars
  <2>2. CASE stop
    <3>1. stopAt' = stopAt /\ Status' = Status
      BY <1>6, <2>1, <2>2 DEF CloseStop, Status
    <3> QED BY <2>1, <3>1
  <2>3. CASE ~stop
    <3>1. stopAt' = Len(enqueued) /\ wpc # "done"
      BY <1>6, <2>3 DEF CloseStop, IInv, StopShape
    <3>2. CASE wpc = "died"
      <4>1. Status = "failed" /\ Status' = "failed"
        BY <2>1, <3>2 DEF Status
      <4> QED BY <2>1, <3>1, <4>1 DEF Delivery!CloseFailed, Delivery!DNext
    <3>3. CASE wpc # "died"
      <4>1. Status = "open" /\ Status' = "closing"
        BY <2>1, <2>3, <3>1, <3>3 DEF Status
      <4> QED BY <2>1, <3>1, <4>1 DEF Delivery!BeginClose, Delivery!DNext
    <3> QED BY <3>2, <3>3
  <2> QED BY <2>2, <2>3 DEF TypeOK
<1>7. ASSUME NEW c \in Closers, CloseSentinel(c)
      PROVE  Delivery!DNext \/ UNCHANGED Delivery!dvars
  <2>1. stop /\ UNCHANGED <<committed, stop, stopAt, wpc>>
    BY <1>7 DEF CloseSentinel, IInv, StopShape, workVars
  <2>2. Status' = Status /\ Status # "open"
    BY <2>1 DEF Status
  <2>3. CASE Full
    BY <1>7, <2>1, <2>2, <2>3 DEF CloseSentinel, queueVars
  <2>4. CASE ~Full
    <3>1. enqueued' = Append(enqueued, Sentinel)
      BY <1>7, <2>4 DEF CloseSentinel, Put
    <3>2. Delivery!PutMark
      BY <2>1, <2>2, <3>1 DEF Delivery!PutMark
    <3> QED BY <3>2 DEF Delivery!DNext
  <2> QED BY <2>3, <2>4
<1>8. ASSUME WorkerTest \/ WorkerAck \/ WorkerAckSentinel \/ WorkerGetSpan
             \/ WorkerGetSentinel \/ WorkerGetTimeout
      PROVE  Delivery!DNext \/ UNCHANGED Delivery!dvars
  <2>1. UNCHANGED <<enqueued, committed, stop, stopAt>>
    BY <1>8 DEF WorkerTest, WorkerAck, WorkerAckSentinel, WorkerGetSpan,
                WorkerGetSentinel, WorkerGetTimeout, Take, TaskDone, closeVars, queueVars
  <2>2. wpc \notin {"done", "died"} /\ wpc' # "died"
    BY <1>8 DEF WorkerTest, WorkerAck, WorkerAckSentinel, WorkerGetSpan,
                WorkerGetSentinel, WorkerGetTimeout, FlushThen, TypeOK
  <2>3. CASE wpc' # "done"
    <3>1. Status' = Status
      BY <2>1, <2>2, <2>3 DEF Status
    <3> QED BY <2>1, <3>1
  <2>4. CASE wpc' = "done"
    <3>1. stop /\ Len(committed) >= stopAt
      BY <2>1, <2>4 DEF IInv, StopShape
    <3>2. Status = "closing" /\ Status' = "ended"
      BY <2>2, <2>4, <3>1 DEF Status
    <3>3. Delivery!End
      BY <2>1, <3>1, <3>2 DEF Delivery!End
    <3> QED BY <3>3 DEF Delivery!DNext
  <2> QED BY <2>3, <2>4
<1>9. CASE WorkerWrite
  <2>1. /\ wpc = "write" /\ wpc' = "ack" /\ committed' = committed \o batch
        /\ UNCHANGED <<enqueued, stop, stopAt>>
    BY <1>9 DEF WorkerWrite, closeVars, queueVars
  <2>2. Status' = Status /\ Status \in {"open", "closing"}
    BY <2>1 DEF Status
  <2>3. Len(batch) \in 1..BatchSize
    <3>1. batch # <<>> /\ Len(batch) <= BatchSize
      BY <2>1 DEF IInv, WorkerShape
    <3>2. Len(batch) \in Nat \ {0}
      BY <3>1 DEF TypeOK
    <3> QED BY <3>1, <3>2, ExporterAssumption
  <2>4. Len(committed') = Len(committed) + Len(batch) /\ Len(committed) \in Nat
    BY <2>1 DEF TypeOK
  <2>5. /\ Len(committed) + Len(batch) <= Len(enqueued)
        /\ \A i \in 1..Len(batch) : enqueued[Len(committed) + i] \in Spans
    <3>1. Held = batch
      BY <2>1 DEF Held
    <3>2. PICK t \in {0, 1} : Layout(enqueued, committed, batch, t, queue)
      BY <3>1 DEF IInv, Conserved
    <3>3. \A i \in 1..Len(batch) : batch[i] \in Spans
      BY DEF TypeOK
    <3>4. Len(queue) \in Nat
      BY DEF TypeOK
    <3> QED BY <2>3, <2>4, <3>2, <3>3, <3>4 DEF Layout
  <2>6. Delivery!Store
    BY <2>1, <2>2, <2>3, <2>4, <2>5 DEF Delivery!Store
  <2> QED BY <2>6 DEF Delivery!DNext
<1>10. CASE WorkerWriteFails
  <2>1. UNCHANGED <<enqueued, committed, stop, stopAt>> /\ wpc = "write" /\ wpc' = "died"
    BY <1>10 DEF WorkerWriteFails, closeVars, queueVars
  <2>2. Status \in {"open", "closing"} /\ Status' = "failed"
    BY <2>1 DEF Status
  <2> QED BY <2>1, <2>2 DEF Delivery!Fail, Delivery!DNext
<1>11. CASE UNCHANGED vars
  BY <1>11 DEF vars, workVars, closeVars, queueVars, Status
<1>12. UNCHANGED <<enqueued, committed, stop, stopAt, wpc>> => UNCHANGED Delivery!dvars
  BY DEF Status
<1> QED
  BY <1>2, <1>3, <1>4, <1>5, <1>6, <1>7, <1>8, <1>9, <1>10, <1>11, <1>12
     DEF Next, Export, Worker, WorkerStep, Close

\* The store follows the order of acceptance, never passes a shutdown's
\* mark, and a normal end comes only after all accepted in time is stored.
THEOREM Refinement == Spec => ImplementsDelivery
<1>1. Init => Delivery!DInit
  <2> SUFFICES ASSUME Init PROVE Delivery!DInit
    OBVIOUS
  <2>1. Len(committed) = 0 /\ Status = "open"
    BY DEF Init, Status
  <2> QED BY <2>1 DEF Init, Delivery!DInit
<1>2. TypeOK /\ TypeOK' /\ IInv /\ IInv' /\ [Next]_vars => [Delivery!DNext]_(Delivery!dvars)
  BY DeliveryStep
<1> QED
  BY <1>1, <1>2, TypeCorrect, InvariantHolds, PTL
     DEF Spec, ImplementsDelivery, Delivery!DSpec
-----------------------------------------------------------------------------
(* The drop counter *)

\* A span refused is in no call any more, and the calls share none; a call
\* about to write the counter has read less than the spans refused.
DropsInv ==
    /\ \A a, b \in Apps : a # b => todo[a] \intersect todo[b] = {}
    /\ \A a \in Apps : todo[a] \intersect refused = {}
    /\ dropped <= Cardinality(refused)
    /\ \A a \in Apps : read[a] # NotCounting => read[a] + 1 <= Cardinality(refused)
    /\ refused # {} => dropped > 0 \/ \E a \in Apps : read[a] # NotCounting

LEMMA RefusedFinite ==
    ASSUME TypeOK PROVE IsFiniteSet(refused) /\ Cardinality(refused) \in Nat
BY ExporterAssumption, FS_Subset, FS_CardinalityType DEF TypeOK

LEMMA DropsStep == TypeOK /\ DropsInv /\ [Next]_vars => DropsInv'
<1> SUFFICES ASSUME TypeOK, DropsInv, [Next]_vars PROVE DropsInv'
  OBVIOUS
<1>r. IsFiniteSet(refused) /\ Cardinality(refused) \in Nat BY RefusedFinite
<1>1. CASE UNCHANGED appVars BY <1>1 DEF appVars, DropsInv
<1>2. ASSUME NEW a \in Apps, ExportCall(a) PROVE DropsInv'
  <2>1. PICK S \in SUBSET Unsent : todo' = [todo EXCEPT ![a] = S] BY <1>2 DEF ExportCall
  <2>2. UNCHANGED <<read, dropped, refused>> BY <1>2 DEF ExportCall
  <2>3. S \intersect refused = {} /\ \A b \in Apps : S \intersect todo[b] = {}
    BY <2>1 DEF Unsent
  <2> QED BY <2>1, <2>2, <2>3 DEF DropsInv, TypeOK
<1>3. ASSUME NEW a \in Apps, ExportPut(a) PROVE DropsInv'
  <2>1. PICK s \in todo[a] : todo' = [todo EXCEPT ![a] = @ \ {s}] BY <1>3 DEF ExportPut
  <2>2. UNCHANGED <<read, dropped, refused>> BY <1>3 DEF ExportPut
  <2>3. \A b \in Apps : todo'[b] \subseteq todo[b] BY <2>1 DEF TypeOK
  <2> QED BY <2>2, <2>3 DEF DropsInv
<1>4. ASSUME NEW a \in Apps, ExportDrop(a) PROVE DropsInv'
  <2>1. PICK s \in todo[a] : /\ todo' = [todo EXCEPT ![a] = @ \ {s}]
                             /\ refused' = refused \union {s}
    BY <1>4 DEF ExportDrop
  <2>2. read' = [read EXCEPT ![a] = dropped] /\ dropped' = dropped BY <1>4 DEF ExportDrop
  <2>3. s \notin refused /\ \A b \in Apps : b # a => s \notin todo[b]
    BY DEF DropsInv
  <2>4. Cardinality(refused') = Cardinality(refused) + 1
    BY <1>r, <2>1, <2>3, FS_AddElement
  <2>5. \A b \in Apps : todo'[b] \subseteq todo[b] /\ s \notin todo'[b]
    BY <2>1, <2>3 DEF TypeOK
  <2>6. \A b \in Apps : todo'[b] \intersect refused' = {}
    BY <2>1, <2>5 DEF DropsInv
  <2>7. \A b, c \in Apps : b # c => todo'[b] \intersect todo'[c] = {}
    BY <2>5 DEF DropsInv
  <2>8. dropped' <= Cardinality(refused') BY <1>r, <2>2, <2>4 DEF DropsInv, TypeOK
  <2>9. ASSUME NEW b \in Apps, read'[b] # NotCounting PROVE read'[b] + 1 <= Cardinality(refused')
    <3>1. CASE b = a BY <1>r, <2>2, <2>4, <3>1 DEF DropsInv, TypeOK
    <3>2. CASE b # a
      <4>1. read'[b] = read[b] BY <2>2, <3>2 DEF TypeOK
      <4>2. read[b] \in Nat BY <2>9, <4>1 DEF TypeOK
      <4>3. read[b] + 1 <= Cardinality(refused) BY <2>9, <4>1 DEF DropsInv
      <4> QED BY <1>r, <2>4, <4>1, <4>2, <4>3
    <3> QED BY <3>1, <3>2
  <2>10. read'[a] # NotCounting BY <2>2 DEF TypeOK, NotCounting
  <2> QED BY <2>6, <2>7, <2>8, <2>9, <2>10 DEF DropsInv
<1>5. ASSUME NEW a \in Apps, ExportCount(a) PROVE DropsInv'
  <2>1. /\ read[a] # NotCounting /\ dropped' = read[a] + 1
        /\ read' = [read EXCEPT ![a] = NotCounting]
        /\ UNCHANGED <<todo, refused>>
    BY <1>5 DEF ExportCount
  <2>2. read[a] \in Nat BY <2>1 DEF TypeOK
  <2>3. dropped' <= Cardinality(refused') /\ dropped' > 0 BY <2>1, <2>2 DEF DropsInv
  <2>4. \A b \in Apps : read'[b] # NotCounting => read'[b] = read[b] BY <2>1 DEF TypeOK
  <2> QED BY <2>1, <2>3, <2>4 DEF DropsInv
<1> QED
  BY <1>1, <1>2, <1>3, <1>4, <1>5
     DEF Next, vars, Export, Worker, WorkerStep, Flush, Close, WorkerTest, WorkerGetSpan,
         WorkerGetSentinel, WorkerGetTimeout, WorkerWrite, WorkerWriteFails,
         WorkerAck, WorkerAckSentinel, FlushCall, FlushJoined, FlushReturn,
         FlushTimeout, CloseCheck, CloseStop, CloseSentinel, CloseJoin

\* However many increments of the drop counter are lost to one another, it
\* never claims more drops than there were, nor none where there was one.
THEOREM DropsHold == Spec => []DropsCounted
<1>1. Init => DropsInv
  <2> SUFFICES ASSUME Init PROVE DropsInv
    OBVIOUS
  <2>1. /\ refused = {} /\ dropped = 0
        /\ \A a \in Apps : todo[a] = {} /\ read[a] = NotCounting
    BY DEF Init
  <2> QED BY <2>1, FS_EmptySet DEF DropsInv
<1>2. DropsInv => DropsCounted BY DEF DropsInv, DropsCounted
<1> QED BY <1>1, <1>2, DropsStep, TypeCorrect, PTL DEF Spec
=============================================================================
