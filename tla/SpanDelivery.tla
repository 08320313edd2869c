---------------------------- MODULE SpanDelivery ----------------------------
(***************************************************************************)
(* What the span exporter promises its users, without threads, queue or    *)
(* batches in memory: a log of accepted items of which the store holds an  *)
(* initial part that only grows, and a service that closes only once what  *)
(* was accepted before closing began is stored.  It may also fail, and     *)
(* then the store keeps what it has.                                       *)
(***************************************************************************)
EXTENDS Integers, Sequences

CONSTANTS Spans, Mark, MaxBatch

VARIABLES
    log,      \* spans accepted, and marks, in order
    stored,   \* how much of the log the store holds
    status,   \* "open", "closing", "ended" or "failed"
    closeAt   \* length of the log when closing began

dvars == <<log, stored, status, closeAt>>

DInit == log = <<>> /\ stored = 0 /\ status = "open" /\ closeAt = 0

\* Accepting never waits and is never refused because the service closes.
Accept(s) ==
    /\ log' = Append(log, s)
    /\ UNCHANGED <<stored, status, closeAt>>

\* A mark is put when closing; storing never passes it.
PutMark ==
    /\ status # "open"
    /\ log' = Append(log, Mark)
    /\ UNCHANGED <<stored, status, closeAt>>

Store ==
    /\ status \in {"open", "closing"}
    /\ \E n \in 1..MaxBatch :
        /\ stored + n <= Len(log)
        /\ \A i \in 1..n : log[stored + i] \in Spans
        /\ stored' = stored + n
    /\ UNCHANGED <<log, status, closeAt>>

BeginClose ==
    /\ status = "open"
    /\ status' = "closing"
    /\ closeAt' = Len(log)
    /\ UNCHANGED <<log, stored>>

\* The service failed or ended before the first shutdown call: closing a
\* service that has failed only records when.
CloseFailed ==
    /\ status = "failed"
    /\ closeAt' = Len(log)
    /\ UNCHANGED <<log, stored, status>>

End ==
    /\ status = "closing" /\ stored >= closeAt
    /\ status' = "ended"
    /\ UNCHANGED <<log, stored, closeAt>>

Fail ==
    /\ status \in {"open", "closing"}
    /\ status' = "failed"
    /\ UNCHANGED <<log, stored, closeAt>>

DNext ==
    \/ \E s \in Spans : Accept(s)
    \/ PutMark \/ Store \/ BeginClose \/ CloseFailed \/ End \/ Fail

DSpec == DInit /\ [][DNext]_dvars
=============================================================================
