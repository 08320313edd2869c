------------------------------ MODULE Diagnosis ------------------------------
(***************************************************************************)
(* What the broadband agent promises to whoever asks for a diagnosis,      *)
(* without graph or tools: the modem is reset at most once, and only if it *)
(* is degraded and the customer consents; a call whose modem was reset is  *)
(* answered; "resolved" is only said after a reset.                        *)
(***************************************************************************)
CONSTANTS Calls

VARIABLES
    asked,   \* asked[c]: condition of the modem and consent of the customer
    reset,   \* reset[c]: the modem was reset
    answer   \* answer[c]: "none", "open", the workflow status, or "failed"

dvars == <<asked, reset, answer>>

Questions == [condition : {"online", "degraded", "offline"}, consent : BOOLEAN]
MayReset(q) == q.condition = "degraded" /\ q.consent

\* What the status has to be.
Status(q, wasReset) ==
    IF wasReset THEN "resolved"
    ELSE IF q.condition = "online" THEN "no_action" ELSE "escalate"

DInit ==
    /\ asked \in [Calls -> Questions]
    /\ reset = [c \in Calls |-> FALSE]
    /\ answer = [c \in Calls |-> "none"]

\* The caller asks (again).
Ask(c) ==
    /\ answer[c] # "open"
    /\ \E q \in Questions : asked' = [asked EXCEPT ![c] = q]
    /\ reset' = [reset EXCEPT ![c] = FALSE]
    /\ answer' = [answer EXCEPT ![c] = "open"]

Reset(c) ==
    /\ answer[c] = "open" /\ ~reset[c] /\ MayReset(asked[c])
    /\ reset' = [reset EXCEPT ![c] = TRUE]
    /\ UNCHANGED <<asked, answer>>

Answer(c) ==
    /\ answer[c] = "open"
    /\ MayReset(asked[c]) => reset[c]
    /\ answer' = [answer EXCEPT ![c] = Status(asked[c], reset[c])]
    /\ UNCHANGED <<asked, reset>>

\* Only the retrieval can fail, and it comes first.
Fail(c) ==
    /\ answer[c] = "open" /\ ~reset[c]
    /\ answer' = [answer EXCEPT ![c] = "failed"]
    /\ UNCHANGED <<asked, reset>>

DNext == \E c \in Calls : Ask(c) \/ Reset(c) \/ Answer(c) \/ Fail(c)

DSpec == DInit /\ [][DNext]_dvars
=============================================================================
