--------------------------- MODULE SessionService ---------------------------
(***************************************************************************)
(* The diagnose endpoint (src/main.py) on several API pods: sessions in a  *)
(* store the pods share (state_store.py, the Redis backend), and in each   *)
(* pod the in-memory event stream, the offline evaluation worker and the   *)
(* review queue.                                                           *)
(*                                                                         *)
(* An await of the store or of the agent lets other requests run; between  *)
(* two awaits a handler runs alone.  The in-memory stream's coroutines     *)
(* never suspend, so publishing, and claiming with evaluating, are one     *)
(* step each.  A diagnosis, its session id when the client gave none, and  *)
(* its event are named after the request that made them.                   *)
(***************************************************************************)
EXTENDS Integers, FiniteSets

CONSTANTS
    Pods, Requests,
    Chosen,       \* session ids that clients choose themselves
    None,
    MaxCrashes    \* bound on crashes

Ids == Chosen \union Requests

\* DiagnosticSession, of which the response is all that matters.
SessionType == [response : Requests, count : Nat]

ASSUME ServiceAssumption ==
    /\ IsFiniteSet(Requests) /\ Chosen \intersect Requests = {}
    /\ None \notin Ids /\ None \notin Pods /\ None \notin SessionType
    /\ MaxCrashes \in Nat

VARIABLES
    pc,          \* pc[r]: what the handler of r awaits, or how it ended
    pod,         \* pod[r]: where it runs
    sid,         \* sid[r]: session_id
    held,        \* held[r]: the session r read and will save or answer with
    cited,       \* cited[r]: the diagnosis of r has citations
    tasks,       \* requests with a background task to run
    store,       \* store[s]: DiagnosticSession (its response and resume_count)
    stream,      \* stream[p][r]: InMemoryEventStream of pod p
    review,      \* review[p]: items of the offline worker in the queue of p
    crashes,
    \* history, read by no action:
    known,       \* requests whose session was stored when they arrived
    tracked,     \* diagnoses saved by a pod that has not crashed since
    evaluated,   \* evaluated[r]: how often the event of r was evaluated
    attempts,    \* attempts[s]: resuming requests that went to save
    answers,     \* answers[s]: resuming requests that were answered
    overlapped   \* sessions that two requests worked on at once

history == <<known, tracked, evaluated, attempts, answers, overlapped>>
handler == <<pc, pod, sid, held, cited, tasks>>
vars == <<handler, store, stream, review, crashes, history>>

Stored == {s \in Ids : store[s] # None}
Working == {"get", "resave", "agent", "save"}
Ended == {"done", "failed", "gone"}
Session(response, count) == [response |-> response, count |-> count]
EmptyStream == [r \in Requests |-> "absent"]

Init ==
    /\ pc = [r \in Requests |-> "new"]
    /\ pod = [r \in Requests |-> None]
    /\ sid = [r \in Requests |-> None]
    /\ held = [r \in Requests |-> None]
    /\ cited = [r \in Requests |-> FALSE]
    /\ tasks = {}
    /\ store = [s \in Ids |-> None]
    /\ stream = [p \in Pods |-> EmptyStream]
    /\ review = [p \in Pods |-> {}]
    /\ crashes = 0
    /\ known = {} /\ tracked = {} /\ overlapped = {}
    /\ evaluated = [r \in Requests |-> 0]
    /\ attempts = [s \in Ids |-> 0]
    /\ answers = [s \in Ids |-> 0]

Busy(s) == \E r \in Requests : sid[r] = s /\ pc[r] \in Working

\* A client asks with a session id: its own, or one an answer told it.
ArriveWithId(r, p, s) ==
    /\ pc[r] = "new"
    /\ s \in Requests => pc[s] = "done" /\ sid[s] = s
    /\ pc' = [pc EXCEPT ![r] = "get"]
    /\ pod' = [pod EXCEPT ![r] = p]
    /\ sid' = [sid EXCEPT ![r] = s]
    /\ known' = IF s \in Stored THEN known \union {r} ELSE known
    /\ overlapped' = IF Busy(s) THEN overlapped \union {s} ELSE overlapped
    /\ UNCHANGED <<held, cited, tasks, store, stream, review, crashes,
                   tracked, evaluated, attempts, answers>>

\* No session id: str(uuid4()), and straight to the agent.
ArriveNew(r, p) ==
    /\ pc[r] = "new"
    /\ pc' = [pc EXCEPT ![r] = "agent"]
    /\ pod' = [pod EXCEPT ![r] = p]
    /\ sid' = [sid EXCEPT ![r] = r]
    /\ UNCHANGED <<held, cited, tasks, store, stream, review, crashes, history>>

\* state_store.get returns: resume what is there, or diagnose.
GetReturns(r) ==
    /\ pc[r] = "get"
    /\ held' = [held EXCEPT ![r] = store[sid[r]]]
    /\ IF store[sid[r]] # None
       THEN /\ pc' = [pc EXCEPT ![r] = "resave"]
            /\ attempts' = [attempts EXCEPT ![sid[r]] = @ + 1]
       ELSE pc' = [pc EXCEPT ![r] = "agent"] /\ UNCHANGED attempts
    /\ UNCHANGED <<pod, sid, cited, tasks, store, stream, review, crashes,
                   known, tracked, evaluated, answers, overlapped>>

\* Variants: the stored response becomes the new request's; no increment.
ResumedAsNew(r) == Session(r, held[r].count + 1)
ResumedUncounted(r) == held[r]

\* existing.resume_count += 1, saved whole: whatever was saved since the
\* get is replaced.
Resumed(r) == Session(held[r].response, held[r].count + 1)

ResaveReturns(r) ==
    /\ pc[r] = "resave"
    /\ store' = [store EXCEPT ![sid[r]] = Resumed(r)]
    /\ pc' = [pc EXCEPT ![r] = "answering"]
    /\ UNCHANGED <<pod, sid, held, cited, tasks, stream, review, crashes, history>>

\* agent.diagnose returns a response, with or without citations.
AgentReturns(r, citations) ==
    /\ pc[r] = "agent"
    /\ cited' = [cited EXCEPT ![r] = citations]
    /\ held' = [held EXCEPT ![r] = Session(r, 0)]
    /\ pc' = [pc EXCEPT ![r] = "save"]
    /\ UNCHANGED <<pod, sid, tasks, store, stream, review, crashes, history>>

\* The diagnosis is saved, replacing a session saved since the get, and its
\* event is made, to be published after the response.
SaveReturns(r) ==
    /\ pc[r] = "save"
    /\ store' = [store EXCEPT ![sid[r]] = held[r]]
    /\ tasks' = tasks \union {r}
    /\ tracked' = tracked \union {r}
    /\ pc' = [pc EXCEPT ![r] = "answering"]
    /\ UNCHANGED <<pod, sid, held, cited, stream, review, crashes,
                   known, evaluated, attempts, answers, overlapped>>

\* The response is sent.
Answer(r) ==
    /\ pc[r] = "answering"
    /\ pc' = [pc EXCEPT ![r] = "done"]
    /\ answers' = IF held[r].response = r THEN answers
                  ELSE [answers EXCEPT ![sid[r]] = @ + 1]
    /\ UNCHANGED <<pod, sid, held, cited, tasks, store, stream, review, crashes,
                   known, tracked, evaluated, attempts, overlapped>>

\* The background task runs: event_stream.publish.
Publish(r) ==
    /\ pc[r] = "done" /\ r \in tasks
    /\ tasks' = tasks \ {r}
    /\ stream' = [stream EXCEPT ![pod[r]][r] = "pending"]
    /\ UNCHANGED <<pc, pod, sid, held, cited, store, review, crashes, history>>

\* The agent, or a read of the store, raises: the client gets a 500.
AgentRaises(r) ==
    /\ pc[r] = "agent"
    /\ pc' = [pc EXCEPT ![r] = "failed"]
    /\ UNCHANGED <<pod, sid, held, cited, tasks, store, stream, review, crashes, history>>

GetRaises(r) ==
    /\ pc[r] = "get"
    /\ pc' = [pc EXCEPT ![r] = "failed"]
    /\ UNCHANGED <<pod, sid, held, cited, tasks, store, stream, review, crashes, history>>

\* A save raises: Redis has applied it, or not.
SaveRaises(r) ==
    /\ pc[r] \in {"save", "resave"}
    /\ pc' = [pc EXCEPT ![r] = "failed"]
    /\ store' \in {store, [store EXCEPT ![sid[r]] =
                              IF pc[r] = "save" THEN held[r] ELSE Resumed(r)]}
    /\ UNCHANGED <<pod, sid, held, cited, tasks, stream, review, crashes, history>>

Pending(p) == {r \in Requests : stream[p][r] = "pending"}

\* Variant: events are evaluated without being claimed.
ProcessEventsUnclaimed(p) ==
    /\ Pending(p) # {}
    /\ review' = [review EXCEPT ![p] = @ \union {r \in Pending(p) : ~cited[r]}]
    /\ evaluated' = [r \in Requests |->
          IF r \in Pending(p) THEN evaluated[r] + 1 ELSE evaluated[r]]
    /\ UNCHANGED <<handler, store, stream, crashes, known, tracked, attempts, answers, overlapped>>

\* process_pending claims every pending event of the pod and evaluates it:
\* without retrieved context groundedness is 0.5, and it goes to review.
ProcessEvents(p) ==
    /\ Pending(p) # {}
    /\ stream' = [stream EXCEPT ![p] = [r \in Requests |->
          IF r \in Pending(p) THEN "processed" ELSE stream[p][r]]]
    /\ review' = [review EXCEPT ![p] = @ \union {r \in Pending(p) : ~cited[r]}]
    /\ evaluated' = [r \in Requests |->
          IF r \in Pending(p) THEN evaluated[r] + 1 ELSE evaluated[r]]
    /\ UNCHANGED <<handler, store, crashes, known, tracked, attempts, answers, overlapped>>

At(p) == {r \in Requests : pod[r] = p}
Running(p) == {r \in At(p) : pc[r] \notin Ended}
AfterCrash(p) == /\ pc' = [r \in Requests |-> IF r \in Running(p) THEN "gone" ELSE pc[r]]
                 /\ tasks' = tasks \ At(p)
                 /\ stream' = [stream EXCEPT ![p] = EmptyStream]
                 /\ review' = [review EXCEPT ![p] = {}]
                 /\ tracked' = tracked \ At(p)
                 /\ crashes < MaxCrashes /\ crashes' = crashes + 1
                 /\ UNCHANGED <<pod, sid, held, cited, known, evaluated, attempts,
                                answers, overlapped>>

\* Variant: the sessions were in the memory of the pod.
CrashLosesStore(p) == AfterCrash(p) /\ store' = [s \in Ids |-> None]

\* A pod dies and restarts: what it had in memory is lost, Redis is not.
Crash(p) == AfterCrash(p) /\ UNCHANGED store

Handle(r) ==
    \/ GetReturns(r) \/ ResaveReturns(r) \/ SaveReturns(r) \/ Answer(r) \/ Publish(r)
    \/ AgentRaises(r) \/ GetRaises(r) \/ SaveRaises(r)
    \/ \E citations \in BOOLEAN : AgentReturns(r, citations)

Next ==
    \/ \E r \in Requests, p \in Pods : ArriveNew(r, p) \/ \E s \in Ids : ArriveWithId(r, p, s)
    \/ \E r \in Requests : Handle(r)
    \/ \E p \in Pods : ProcessEvents(p) \/ Crash(p)

Spec == Init /\ [][Next]_vars
-----------------------------------------------------------------------------
\* Every variable has the shape the code gives it; a handler past its read
\* of the store holds the session it will answer with.
TypeOK ==
    /\ pc \in [Requests -> {"new", "answering"} \union Working \union Ended]
    /\ pod \in [Requests -> Pods \union {None}]
    /\ sid \in [Requests -> Ids \union {None}]
    /\ held \in [Requests -> SessionType \union {None}]
    /\ cited \in [Requests -> BOOLEAN]
    /\ store \in [Ids -> SessionType \union {None}]
    /\ stream \in [Pods -> [Requests -> {"absent", "pending", "processed"}]]
    /\ review \in [Pods -> SUBSET Requests]
    /\ crashes \in Nat
    /\ tasks \in SUBSET Requests /\ known \in SUBSET Requests
    /\ tracked \in SUBSET Requests /\ overlapped \in SUBSET Ids
    /\ evaluated \in [Requests -> Nat]
    /\ attempts \in [Ids -> Nat] /\ answers \in [Ids -> Nat]
    /\ \A r \in Requests :
        /\ IF pc[r] = "new" THEN pod[r] = None /\ sid[r] = None /\ held[r] = None
           ELSE pod[r] \in Pods /\ sid[r] \in Ids
        /\ pc[r] \in {"resave", "save", "answering", "done"} => held[r] # None

\* A session once stored is only ever resumed: a request that arrives after
\* the save, on any pod and after any crash, never runs the agent again.
NoRediagnosis ==
    \A r \in known : pc[r] \notin {"agent", "save"} /\ (held[r] = None \/ held[r].response # r)

\* What the store holds, and what a client is answered, was diagnosed for
\* that same session; as long as requests on the session did not overlap,
\* all of them are answered alike.
Answered(r) == pc[r] \in {"answering", "done"}
ResponsesConsistent ==
    /\ \A s \in Stored : sid[store[s].response] = s
    /\ \A r \in Requests : Answered(r) => sid[held[r].response] = sid[r]
    /\ \A q, r \in Requests :
        Answered(q) /\ Answered(r) /\ sid[q] = sid[r] /\ sid[q] \notin overlapped
        => held[q].response = held[r].response

\* resume_count never exceeds the resumptions tried; without overlap it
\* counts every one that was answered (with overlap, updates are lost).
ResumeCountBounds ==
    \A s \in Stored :
        /\ store[s].count <= attempts[s]
        /\ s \notin overlapped => store[s].count >= answers[s]

\* The event of a diagnosis is to be published or in the stream of the pod
\* until the pod crashes, is evaluated at most once, and is under review
\* exactly when it was evaluated and had no citation; an event is there
\* only for a stored session.
EventAccounting ==
    /\ \A r \in tracked : (r \in tasks) <=> (stream[pod[r]][r] = "absent")
    /\ \A p \in Pods, r \in Requests :
        /\ stream[p][r] # "absent" => pod[r] = p /\ r \in tracked /\ sid[r] \in Stored
        /\ stream[p][r] = "pending" => evaluated[r] = 0
        /\ stream[p][r] = "processed" => evaluated[r] = 1
        /\ r \in review[p] <=> stream[p][r] = "processed" /\ ~cited[r]
=============================================================================
