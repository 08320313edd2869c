---------------------------- MODULE SpanExporter ----------------------------
(***************************************************************************)
(* QueuedSQLiteSpanExporter (telefix/otel/exporter.py) over the SQLite     *)
(* trace store (telefix/storage/sqlite.py).                                *)
(*                                                                         *)
(* Application threads call export(), which puts spans in a bounded        *)
(* queue.Queue without blocking.  One daemon thread takes them out and     *)
(* writes them in batches.  force_flush() waits, on a helper thread, for   *)
(* the queue's count of unfinished tasks to reach zero; shutdown() sets a  *)
(* stop flag, puts a sentinel and joins the daemon thread for a while.     *)
(*                                                                         *)
(* An action is what a thread does between two points where another one    *)
(* can interleave: each queue.Queue method holds the queue's lock.         *)
(***************************************************************************)
EXTENDS Integers, Sequences, FiniteSets

CONSTANTS
    Spans,          \* (trace_id, span_id) pairs; the SDK ends each span once
    Apps,           \* application threads that call export()
    Flushes,        \* calls of force_flush()
    Closers,        \* calls of shutdown()
    MaxQueueSize,   \* max_queue_size, 2048 by default
    BatchSize,      \* batch_size, 128 by default
    MaxCall,        \* bound: most spans handed to one export() call
    WritesMayFail,  \* may TraceStore.write_spans raise (locked, disk full)?
    Sentinel        \* the None that shutdown() puts in the queue

ASSUME ExporterAssumption ==
    /\ IsFiniteSet(Spans)
    /\ Sentinel \notin Spans
    /\ MaxQueueSize \in Nat \ {0}
    /\ BatchSize \in Nat \ {0}
    /\ MaxCall \in Nat
    /\ WritesMayFail \in BOOLEAN

VARIABLES
    queue,       \* the items of self._queue
    unfinished,  \* its unfinished_tasks: puts minus task_done() calls
    stop,        \* self._stop
    dropped,     \* self._dropped_spans
    todo,        \* todo[a]: the spans a's export() call has still to put
    result,      \* result[a]: what a's export() call returns, so far
    read,        \* read[a]: the _dropped_spans a has read and will add 1 to
    wpc,         \* the point the daemon thread has reached
    batch,       \* its local batch
    acked,       \* task_done() calls already made for that batch
    after,       \* where it goes once the batch is acknowledged
    committed,   \* the store's rows, in the order they were committed
    flush,       \* flush[f]: how far the force_flush() call f is
    deadline,    \* deadline[f]: the event its waiter thread sets
    closer,      \* closer[c]: how far the shutdown() call c is
    \* history, read by no action:
    enqueued,    \* every item ever put, in order
    refused,     \* the spans refused by a full queue
    need,        \* need[f]: Len(enqueued) when f was called
    stopAt       \* Len(enqueued) when the stop flag was first set

appVars   == <<todo, result, read, dropped, refused>>
workVars  == <<wpc, batch, acked, after, committed>>
flushVars == <<flush, deadline, need>>
closeVars == <<stop, closer, stopAt>>
queueVars == <<queue, unfinished, enqueued>>
vars == <<appVars, workVars, flushVars, closeVars, queueVars>>

NotCounting == -1
ThreadEnded == wpc \in {"done", "died"}

Init ==
    /\ queue = <<>> /\ unfinished = 0 /\ enqueued = <<>>
    /\ stop = FALSE /\ stopAt = 0
    /\ dropped = 0 /\ refused = {}
    /\ todo = [a \in Apps |-> {}]
    /\ result = [a \in Apps |-> "none"]
    /\ read = [a \in Apps |-> NotCounting]
    /\ wpc = "loop" /\ batch = <<>> /\ acked = 0 /\ after = "loop"
    /\ committed = <<>>
    /\ flush = [f \in Flushes |-> "idle"]
    /\ deadline = [f \in Flushes |-> FALSE]
    /\ need = [f \in Flushes |-> 0]
    /\ closer = [c \in Closers |-> "idle"]
-----------------------------------------------------------------------------
(* queue.Queue, as far as the exporter uses it. *)

Full == Len(queue) >= MaxQueueSize

\* put_nowait, when it does not raise Full
Put(item) ==
    /\ ~Full
    /\ queue' = Append(queue, item)
    /\ enqueued' = Append(enqueued, item)
    /\ unfinished' = unfinished + 1

\* get, when it does not raise Empty
Take ==
    /\ queue # <<>>
    /\ queue' = Tail(queue)
    /\ UNCHANGED <<unfinished, enqueued>>

TaskDone ==
    /\ unfinished' = unfinished - 1
    /\ UNCHANGED <<queue, enqueued>>
-----------------------------------------------------------------------------
(* export().  Nothing in it looks at the stop flag. *)

Unsent == Spans \ (refused \union {enqueued[i] : i \in DOMAIN enqueued}
                           \union UNION {todo[b] : b \in Apps})

ExportCall(a) ==
    /\ todo[a] = {} /\ read[a] = NotCounting
    /\ \E S \in SUBSET Unsent :
        /\ Cardinality(S) \in 1..MaxCall
        /\ todo' = [todo EXCEPT ![a] = S]
    /\ result' = [result EXCEPT ![a] = "success"]
    /\ UNCHANGED <<read, dropped, refused, workVars, flushVars, closeVars, queueVars>>

ExportPut(a) ==
    /\ read[a] = NotCounting
    /\ \E s \in todo[a] :
        /\ todo' = [todo EXCEPT ![a] = @ \ {s}]
        /\ Put(s)
    /\ UNCHANGED <<result, read, dropped, refused, workVars, flushVars, closeVars>>

\* Variant: a refused span is not counted.
ExportDropUncounted(a) ==
    /\ read[a] = NotCounting
    /\ Full
    /\ \E s \in todo[a] :
        /\ todo' = [todo EXCEPT ![a] = @ \ {s}]
        /\ refused' = refused \union {s}
    /\ result' = [result EXCEPT ![a] = "failure"]
    /\ UNCHANGED <<read, dropped, workVars, flushVars, closeVars, queueVars>>

\* The queue is full: dropped = True, and the first half of the
\* self._dropped_spans += 1, its read.
ExportDrop(a) ==
    /\ read[a] = NotCounting
    /\ Full
    /\ \E s \in todo[a] :
        /\ todo' = [todo EXCEPT ![a] = @ \ {s}]
        /\ refused' = refused \union {s}
    /\ result' = [result EXCEPT ![a] = "failure"]
    /\ read' = [read EXCEPT ![a] = dropped]
    /\ UNCHANGED <<dropped, workVars, flushVars, closeVars, queueVars>>

\* The second half, its write: no lock is held in between.
ExportCount(a) ==
    /\ read[a] # NotCounting
    /\ dropped' = read[a] + 1
    /\ read' = [read EXCEPT ![a] = NotCounting]
    /\ UNCHANGED <<todo, result, refused, workVars, flushVars, closeVars, queueVars>>

Export(a) == ExportCall(a) \/ ExportPut(a) \/ ExportDrop(a) \/ ExportCount(a)
-----------------------------------------------------------------------------
(* _run_worker(). *)

\* Variant: the loop waits for a sentinel.
KeepRunningForever == TRUE

\* while not self._stop.is_set() or not self._queue.empty()
KeepRunning == ~stop \/ queue # <<>>

\* Variant: the batch at hand is not written first.
FlushThenSkipped(next) == wpc' = next /\ UNCHANGED after

\* Write the batch if there is one, then go to "next".
FlushThen(next) ==
    IF batch # <<>> THEN wpc' = "write" /\ after' = next
                    ELSE wpc' = next /\ UNCHANGED after

WorkerTest ==
    /\ wpc = "loop"
    /\ IF KeepRunning THEN wpc' = "get" /\ UNCHANGED after
                      ELSE FlushThen("done")
    /\ UNCHANGED <<batch, acked, committed, appVars, flushVars, closeVars, queueVars>>

\* Variant: task_done() as soon as the span is taken.
WorkerGetSpanAcks ==
    /\ wpc = "get"
    /\ queue # <<>> /\ Head(queue) # Sentinel
    /\ queue' = Tail(queue) /\ unfinished' = unfinished - 1 /\ UNCHANGED enqueued
    /\ batch' = Append(batch, Head(queue))
    /\ IF Len(batch') >= BatchSize THEN wpc' = "write" /\ after' = "loop"
                                   ELSE wpc' = "loop" /\ UNCHANGED after
    /\ UNCHANGED <<acked, committed, appVars, flushVars, closeVars>>

WorkerGetSpan ==
    /\ wpc = "get"
    /\ queue # <<>> /\ Head(queue) # Sentinel
    /\ Take
    /\ batch' = Append(batch, Head(queue))
    /\ IF Len(batch') >= BatchSize THEN wpc' = "write" /\ after' = "loop"
                                   ELSE wpc' = "loop" /\ UNCHANGED after
    /\ UNCHANGED <<acked, committed, appVars, flushVars, closeVars>>

WorkerGetSentinel ==
    /\ wpc = "get"
    /\ queue # <<>> /\ Head(queue) = Sentinel
    /\ Take
    /\ FlushThen("sentinel")
    /\ UNCHANGED <<batch, acked, committed, appVars, flushVars, closeVars>>

\* Variant: a timeout does not write the partial batch.
WorkerGetTimeoutIdle ==
    /\ wpc = "get"
    /\ queue = <<>>
    /\ wpc' = "loop"
    /\ UNCHANGED <<batch, acked, after, committed, appVars, flushVars, closeVars, queueVars>>

\* get() raises Empty once flush_interval has passed with nothing to take
WorkerGetTimeout ==
    /\ wpc = "get"
    /\ queue = <<>>
    /\ FlushThen("loop")
    /\ UNCHANGED <<batch, acked, committed, appVars, flushVars, closeVars, queueVars>>

\* _write_batch: write_spans commits the whole batch as one transaction ...
WorkerWrite ==
    /\ wpc = "write"
    /\ committed' = committed \o batch
    /\ wpc' = "ack"
    /\ UNCHANGED <<batch, acked, after, appVars, flushVars, closeVars, queueVars>>

\* ... or raises: nothing catches it, so the daemon thread ends there.
WorkerWriteFails ==
    /\ WritesMayFail
    /\ wpc = "write"
    /\ wpc' = "died"
    /\ UNCHANGED <<batch, acked, after, committed, appVars, flushVars, closeVars, queueVars>>

\* Variants: batch is not emptied; task_done() is not called.
WorkerAckKeepsBatch ==
    /\ wpc = "ack"
    /\ TaskDone
    /\ IF acked + 1 < Len(batch)
       THEN acked' = acked + 1 /\ UNCHANGED <<wpc, batch>>
       ELSE acked' = 0 /\ wpc' = after /\ UNCHANGED batch
    /\ UNCHANGED <<after, committed, appVars, flushVars, closeVars>>
WorkerAckForgets ==
    /\ wpc = "ack"
    /\ batch' = <<>> /\ wpc' = after
    /\ UNCHANGED <<acked, after, committed, appVars, flushVars, closeVars, queueVars>>

\* for _ in batch: self._queue.task_done(), then batch = []
WorkerAck ==
    /\ wpc = "ack"
    /\ TaskDone
    /\ IF acked + 1 < Len(batch)
       THEN acked' = acked + 1 /\ UNCHANGED <<wpc, batch>>
       ELSE acked' = 0 /\ batch' = <<>> /\ wpc' = after
    /\ UNCHANGED <<after, committed, appVars, flushVars, closeVars>>

\* task_done() for the sentinel, then break: no batch is left to write
WorkerAckSentinel ==
    /\ wpc = "sentinel"
    /\ TaskDone
    /\ wpc' = "done"
    /\ UNCHANGED <<batch, acked, after, committed, appVars, flushVars, closeVars>>

WorkerStep ==
    \/ WorkerTest \/ WorkerGetSpan \/ WorkerGetSentinel \/ WorkerGetTimeout
    \/ WorkerWrite \/ WorkerAck \/ WorkerAckSentinel

Worker == WorkerStep \/ WorkerWriteFails
-----------------------------------------------------------------------------
(* force_flush(): the caller and its waiter thread. *)

FlushCall(f) ==
    /\ flush[f] = "idle"
    /\ flush' = [flush EXCEPT ![f] = "waiting"]
    /\ need' = [need EXCEPT ![f] = Len(enqueued)]
    /\ UNCHANGED <<deadline, appVars, workVars, closeVars, queueVars>>

\* queue.join() returns; the thread is still there if its caller gave up
FlushJoined(f) ==
    /\ flush[f] # "idle" /\ ~deadline[f]
    /\ unfinished = 0
    /\ deadline' = [deadline EXCEPT ![f] = TRUE]
    /\ UNCHANGED <<flush, need, appVars, workVars, closeVars, queueVars>>

FlushReturn(f) ==
    /\ flush[f] = "waiting" /\ deadline[f]
    /\ flush' = [flush EXCEPT ![f] = "true"]
    /\ UNCHANGED <<deadline, need, appVars, workVars, closeVars, queueVars>>

FlushTimeout(f) ==
    /\ flush[f] = "waiting"
    /\ flush' = [flush EXCEPT ![f] = "false"]
    /\ UNCHANGED <<deadline, need, appVars, workVars, closeVars, queueVars>>

Flush(f) == FlushCall(f) \/ FlushJoined(f) \/ FlushReturn(f) \/ FlushTimeout(f)
-----------------------------------------------------------------------------
(* shutdown(). *)

\* if self._stop.is_set(): return
CloseCheck(c) ==
    /\ closer[c] = "idle"
    /\ closer' = [closer EXCEPT ![c] = IF stop THEN "returned" ELSE "checked"]
    /\ UNCHANGED <<stop, stopAt, appVars, workVars, flushVars, queueVars>>

CloseStop(c) ==
    /\ closer[c] = "checked"
    /\ stop' = TRUE
    /\ stopAt' = IF stop THEN stopAt ELSE Len(enqueued)
    /\ closer' = [closer EXCEPT ![c] = "stopped"]
    /\ UNCHANGED <<appVars, workVars, flushVars, queueVars>>

\* put_nowait(None); except queue.Full: pass
CloseSentinel(c) ==
    /\ closer[c] = "stopped"
    /\ IF Full THEN UNCHANGED queueVars ELSE Put(Sentinel)
    /\ closer' = [closer EXCEPT ![c] = "joining"]
    /\ UNCHANGED <<stop, stopAt, appVars, workVars, flushVars>>

\* self._thread.join(timeout=...): the thread has ended, or time is up
CloseJoin(c) ==
    /\ closer[c] = "joining"
    /\ \/ ThreadEnded /\ closer' = [closer EXCEPT ![c] = "joined"]
       \/ ~ThreadEnded /\ closer' = [closer EXCEPT ![c] = "timedout"]
    /\ UNCHANGED <<stop, stopAt, appVars, workVars, flushVars, queueVars>>

Close(c) == CloseCheck(c) \/ CloseStop(c) \/ CloseSentinel(c) \/ CloseJoin(c)
-----------------------------------------------------------------------------
Next ==
    \/ \E a \in Apps : Export(a)
    \/ Worker
    \/ \E f \in Flushes : Flush(f)
    \/ \E c \in Closers : Close(c)

Spec == Init /\ [][Next]_vars

(* The operating system runs every runnable thread: the daemon thread, the *)
(* waiters, and a caller that is inside shutdown().  get() wakes up by its *)
(* timeout.  Nothing makes an application call export() or shutdown().     *)
Fairness ==
    /\ WF_vars(WorkerStep)
    /\ \A f \in Flushes : WF_vars(FlushJoined(f))
    /\ \A c \in Closers : WF_vars(CloseStop(c) \/ CloseSentinel(c))

FairSpec == Spec /\ Fairness
-----------------------------------------------------------------------------
Items == Spans \union {Sentinel}

\* Every variable has the shape the code gives it.
TypeOK ==
    /\ queue \in Seq(Items) /\ enqueued \in Seq(Items)
    /\ unfinished \in Int
    /\ stop \in BOOLEAN /\ stopAt \in Nat
    /\ dropped \in Nat /\ refused \in SUBSET Spans
    /\ todo \in [Apps -> SUBSET Spans]
    /\ result \in [Apps -> {"none", "success", "failure"}]
    /\ read \in [Apps -> Nat \union {NotCounting}]
    /\ wpc \in {"loop", "get", "write", "ack", "sentinel", "done", "died"}
    /\ batch \in Seq(Spans) /\ committed \in Seq(Spans)
    /\ acked \in Nat
    /\ after \in {"loop", "sentinel", "done"}
    /\ flush \in [Flushes -> {"idle", "waiting", "true", "false"}]
    /\ deadline \in [Flushes -> BOOLEAN]
    /\ need \in [Flushes -> Nat]
    /\ closer \in [Closers ->
          {"idle", "checked", "stopped", "joining", "joined", "timedout", "returned"}]
-----------------------------------------------------------------------------
(* Where an accepted item can be. *)

\* The sentinel has been taken and its task_done() is still to come.
SentinelTaken ==
    wpc = "sentinel" \/ (wpc \in {"write", "ack", "died"} /\ after = "sentinel")

Outstanding == (Len(batch) - acked) + (IF SentinelTaken THEN 1 ELSE 0)

\* The queue counts as unfinished what it holds and what the daemon thread
\* has taken and not acknowledged: task_done() is never called once too
\* often, which would raise in the daemon thread, and never forgotten,
\* which would block every later force_flush().
Accounted == unfinished = Len(queue) + Outstanding

\* What the daemon thread holds and has not committed.
Held == IF wpc = "ack" THEN <<>> ELSE batch

\* The log e is c, then h, then t sentinels, then q.
Layout(e, c, h, t, q) ==
    LET n == Len(c) + Len(h) IN
    /\ Len(e) = n + t + Len(q)
    /\ \A i \in 1..Len(c) : e[i] = c[i]
    /\ \A i \in 1..Len(h) : e[Len(c) + i] = h[i]
    /\ t = 1 => e[n + 1] = Sentinel
    /\ \A i \in 1..Len(q) : e[n + t + i] = q[i]

\* Every item ever accepted is, in order, in the store, in the daemon
\* thread's hands or in the queue, with at most one sentinel taken.
Conserved ==
    \E t \in {0, 1} :
        /\ Layout(enqueued, committed, Held, t, queue)
        /\ wpc # "done" => (t = 1 <=> SentinelTaken)

\* What the daemon thread's local variables are at each point.
WorkerShape ==
    /\ Len(batch) <= BatchSize
    /\ wpc # "ack" => acked = 0
    /\ wpc \in {"loop", "get"} => Len(batch) < BatchSize
    /\ wpc \in {"write", "died"} => batch # <<>>
    /\ wpc = "ack" => acked < Len(batch)
    /\ wpc \in {"sentinel", "done"} => batch = <<>>

\* Sentinels and the stop flag: none is put before it is set.
StopShape ==
    /\ stopAt <= Len(enqueued)
    /\ \A i \in 1..stopAt : enqueued[i] # Sentinel
    /\ ~stop => stopAt = 0 /\ \A i \in DOMAIN enqueued : enqueued[i] # Sentinel
    /\ \A c \in Closers : closer[c] \in {"stopped", "joining"} => stop
    /\ wpc = "done" => stop /\ Len(committed) >= stopAt
    /\ wpc \in {"write", "ack"} /\ after = "done" =>
          stop /\ Len(committed) + Len(Held) >= stopAt

FlushShape ==
    \A f \in Flushes :
        /\ need[f] <= Len(enqueued)
        /\ flush[f] = "idle" => ~deadline[f]

\* The inductive invariant behind the properties below.
IInv == Accounted /\ Conserved /\ WorkerShape /\ StopShape /\ FlushShape
-----------------------------------------------------------------------------
(* What the exporter promises. *)

\* The n first items put in the queue, sentinels aside, are in the store.
Persisted(n) ==
    \A i \in 1..n : enqueued[i] \in Spans =>
        \E j \in DOMAIN committed : committed[j] = enqueued[i]

\* The store holds exactly the spans accepted first, in that order and
\* each once: no batch is skipped, written twice or overtaken.
\* (_run_worker's three flush sites, lines 86-107)
StoreIsPrefix ==
    /\ Len(committed) <= Len(enqueued)
    /\ \A i \in 1..Len(committed) : committed[i] = enqueued[i]

\* The queue's unfinished count never reaches zero, and so no waiter wakes,
\* while a span accepted before the flush is not in the store.  A
\* force_flush() that returns True therefore tells the truth, whatever
\* shutdowns and failed writes happen around it.
FlushSound ==
    \A f \in Flushes : deadline[f] => Persisted(need[f])

\* The daemon thread ends normally only after the stop flag, and only when
\* all that was accepted before the flag was set is in the store - also
\* when the sentinel found the queue full, or met it empty.
StopDrains ==
    wpc = "done" => stop /\ Persisted(stopAt)

\* The drop counter never claims more drops than happened, and cannot be
\* zero once a drop has been counted, whatever increments were lost.
DropsCounted ==
    /\ dropped <= Cardinality(refused)
    /\ refused # {} => dropped > 0 \/ \E a \in Apps : read[a] # NotCounting

\* Once the store has a span it keeps it, and only whole batches, of at
\* most batch_size spans, are added.
CommitsWholeBatches ==
    [][committed' # committed =>
          /\ wpc = "write"
          /\ Len(committed') - Len(committed) \in 1..BatchSize
          /\ SubSeq(committed', 1, Len(committed)) = committed]_vars

\* The i-th span accepted while the exporter is open reaches the store, if
\* writes do not fail: in a full batch, by get()'s timeout, or on shutdown.
AcceptedIsPersisted ==
    \A i \in 1..Cardinality(Spans) :
        (Len(enqueued) >= i /\ ~stop) ~> Len(committed) >= i

\* A force_flush() that no shutdown() overtakes is answered.
FlushAnswered ==
    \A f \in Flushes : (flush[f] = "waiting" /\ ~stop) ~> (deadline[f] \/ stop)

\* shutdown() ends the daemon thread even if its sentinel found no room.
ShutdownStopsWorker == stop ~> ThreadEnded
-----------------------------------------------------------------------------
(* The exporter implements SpanDelivery.                                   *)

Status ==
    CASE wpc = "done" -> "ended"
      [] wpc = "died" -> "failed"
      [] OTHER -> IF stop THEN "closing" ELSE "open"

Delivery == INSTANCE SpanDelivery WITH
    Mark <- Sentinel, MaxBatch <- BatchSize,
    log <- enqueued, stored <- Len(committed), status <- Status, closeAt <- stopAt

\* Every step of the exporter is a step of SpanDelivery or changes nothing
\* it can see: whichever way the threads interleave, the store follows the
\* order of acceptance and a normal end leaves nothing accepted in time.
ImplementsDelivery == Delivery!DSpec
-----------------------------------------------------------------------------
(* What docs/sqlite-store.md says and the code does not do. *)

\* "shutdown() drains queued spans before stopping the worker": when the
\* daemon thread is about to break, no span is still in the queue.  One
\* that export() accepted behind the sentinel is.
NothingStranded ==
    wpc = "sentinel" => \A i \in DOMAIN queue : queue[i] \notin Spans
=============================================================================
