------------------------ MODULE SessionServiceProofs ------------------------
(***************************************************************************)
(* Theorems about SessionService, for any number of pods, requests and     *)
(* crashes.                                                                *)
(***************************************************************************)
EXTENDS SessionService, FiniteSetTheorems, TLAPS

\* Where a request is once it has made a diagnosis.
Made == {"save", "answering", "done", "failed", "gone"}

\* x is a diagnosis that was made for session s.
MadeFor(sids, at, seen, x, s) == sids[x] = s /\ at[x] \in Made /\ x \notin seen

SidsOK == \A q, r \in Requests : sid[q] = r /\ q # r => pc[r] = "done" /\ sid[r] = r
StoreMade == \A s \in Ids : store[s] # None => MadeFor(sid, pc, known, store[s].response, s)
HeldMade == \A r \in Requests : held[r] # None => MadeFor(sid, pc, known, held[r].response, sid[r])
SaveHolds == \A r \in Requests : pc[r] = "save" => held[r] = Session(r, 0)
AgentNew == \A r \in Requests : pc[r] \in {"agent", "save"} => r \notin known
KnownStored == \A r \in known : sid[r] \in Stored
AnsweredStored == \A r \in Requests : Answered(r) => sid[r] \in Stored

NamesOK == /\ SidsOK /\ StoreMade /\ HeldMade /\ SaveHolds
           /\ AgentNew /\ KnownStored /\ AnsweredStored

\* Without overlap a session is one request's at a time, and what a request
\* has read of it is what is stored.
AloneOK ==
    \A r \in Requests : sid[r] # None /\ sid[r] \notin overlapped =>
        /\ \A q \in Requests : sid[q] = sid[r] /\ q # r =>
              pc[q] \notin Working \/ pc[r] \notin Working
        /\ pc[r] = "resave" => held[r] = store[sid[r]]
        /\ pc[r] \in {"agent", "save"} => store[sid[r]] = None
        /\ Answered(r) => held[r].response = store[sid[r]].response

\* Resumptions of s that are saved and not yet answered.
Unanswered(s) ==
    {r \in Requests : sid[r] = s /\ pc[r] = "answering" /\ held[r].response # r}

CountsOK ==
    /\ \A s \in Stored : store[s].count <= attempts[s]
    /\ \A r \in Requests : pc[r] = "resave" => held[r].count + 1 <= attempts[sid[r]]
    /\ \A s \in Ids : store[s] = None => answers[s] = 0
    /\ \A s \in Stored \ overlapped :
          Cardinality(Unanswered(s)) + answers[s] <= store[s].count

EventsOK ==
    /\ EventAccounting
    /\ tasks \subseteq tracked
    /\ \A r \in tracked : Answered(r)
    /\ \A r \in Requests : evaluated[r] # 0 => pc[r] = "done"
    /\ \A r \in tasks : evaluated[r] = 0
    /\ \A p \in Pods, r \in Requests : stream[p][r] # "absent" => pc[r] = "done"

IInv == TypeOK /\ NamesOK /\ AloneOK /\ CountsOK /\ EventsOK
-----------------------------------------------------------------------------
(* Types *)

LEMMA SessionTyped ==
    ASSUME NEW r \in Requests, NEW n \in Nat
    PROVE  /\ Session(r, n) \in SessionType /\ Session(r, n).response = r
           /\ Session(r, n).count = n /\ Session(r, n) # None
<1>1. Session(r, n) \in SessionType BY DEF Session, SessionType
<1>2. Session(r, n).response = r /\ Session(r, n).count = n BY DEF Session
<1> QED BY <1>1, <1>2, ServiceAssumption

LEMMA ResumedTyped ==
    ASSUME TypeOK, NEW r \in Requests, held[r] # None
    PROVE  /\ Resumed(r) \in SessionType /\ Resumed(r) # None
           /\ Resumed(r).response = held[r].response
           /\ Resumed(r).count = held[r].count + 1 /\ held[r].count \in Nat
<1>1. held[r] \in SessionType BY DEF TypeOK
<1>2. held[r].response \in Requests /\ held[r].count \in Nat BY <1>1 DEF SessionType
<1> QED BY <1>2, SessionTyped DEF Resumed

LEMMA TypeInit == Init => TypeOK
BY DEF Init, TypeOK, EmptyStream, Working, Ended

LEMMA TypeStep == TypeOK /\ [Next]_vars => TypeOK'
<1> SUFFICES ASSUME TypeOK, [Next]_vars PROVE TypeOK'
  OBVIOUS
<1> USE DEF TypeOK
<1>1. ASSUME NEW r \in Requests, NEW p \in Pods, ArriveNew(r, p) PROVE TypeOK'
  BY <1>1 DEF ArriveNew, history, Ids, Working
<1>2. ASSUME NEW r \in Requests, NEW p \in Pods, NEW s \in Ids, ArriveWithId(r, p, s) PROVE TypeOK'
  BY <1>2 DEF ArriveWithId, Working
<1>3. ASSUME NEW r \in Requests, GetReturns(r) PROVE TypeOK'
  <2>1. /\ pc[r] = "get" /\ held' = [held EXCEPT ![r] = store[sid[r]]]
        /\ pc' = [pc EXCEPT ![r] = IF store[sid[r]] # None THEN "resave" ELSE "agent"]
        /\ attempts' = IF store[sid[r]] # None THEN [attempts EXCEPT ![sid[r]] = @ + 1] ELSE attempts
        /\ UNCHANGED <<pod, sid, cited, tasks, store, stream, review, crashes,
                       known, tracked, evaluated, answers, overlapped>>
    BY <1>3 DEF GetReturns
  <2>2. sid[r] \in Ids /\ store[sid[r]] \in SessionType \union {None} BY <2>1
  <2>3. pc' \in [Requests -> {"new", "answering"} \union Working \union Ended]
    BY <2>1 DEF Working
  <2>4. attempts' \in [Ids -> Nat] BY <2>1, <2>2
  <2>5. held' \in [Requests -> SessionType \union {None}] BY <2>1, <2>2
  <2>6. ASSUME NEW q \in Requests
        PROVE  /\ IF pc'[q] = "new" THEN pod[q] = None /\ sid[q] = None /\ held'[q] = None
                  ELSE pod[q] \in Pods /\ sid[q] \in Ids
               /\ pc'[q] \in {"resave", "save", "answering", "done"} => held'[q] # None
    <3>1. CASE q = r BY <2>1, <2>2, <3>1
    <3>2. CASE q # r BY <2>1, <3>2
    <3> QED BY <3>1, <3>2
  <2> HIDE DEF TypeOK
  <2> QED BY <2>1, <2>3, <2>4, <2>5, <2>6 DEF TypeOK
<1>4. ASSUME NEW r \in Requests, ResaveReturns(r) PROVE TypeOK'
  BY <1>4 DEF ResaveReturns, Resumed, Session, SessionType, history
<1>5. ASSUME NEW r \in Requests, NEW c \in BOOLEAN, AgentReturns(r, c) PROVE TypeOK'
  <2>1. Session(r, 0) \in SessionType BY SessionTyped
  <2>2. /\ held' = [held EXCEPT ![r] = Session(r, 0)] /\ cited' = [cited EXCEPT ![r] = c]
        /\ pc' = [pc EXCEPT ![r] = "save"] /\ pc[r] = "agent"
        /\ UNCHANGED <<pod, sid, tasks, store, stream, review, crashes, history>>
    BY <1>5 DEF AgentReturns
  <2> HIDE DEF TypeOK
  <2>3. held' \in [Requests -> SessionType \union {None}] BY <2>1, <2>2 DEF TypeOK
  <2>4. cited' \in [Requests -> BOOLEAN] BY <2>2 DEF TypeOK
  <2>5. Session(r, 0) # None BY SessionTyped
  <2>6. pc' \in [Requests -> {"new", "answering"} \union Working \union Ended]
    BY <2>2 DEF TypeOK, Working
  <2>7. \A q \in Requests : pc'[q] \in {"resave", "save", "answering", "done"} => held'[q] # None
    BY <2>2, <2>5 DEF TypeOK
  <2>8. \A q \in Requests : IF pc'[q] = "new" THEN pod[q] = None /\ sid[q] = None /\ held'[q] = None
                             ELSE pod[q] \in Pods /\ sid[q] \in Ids
    BY <2>2 DEF TypeOK
  <2> QED BY <2>2, <2>3, <2>4, <2>6, <2>7, <2>8 DEF TypeOK, history
<1>6. ASSUME NEW r \in Requests, SaveReturns(r) PROVE TypeOK'
  BY <1>6 DEF SaveReturns
<1>7. ASSUME NEW r \in Requests, Answer(r) PROVE TypeOK'
  BY <1>7 DEF Answer, Ended
<1>8. ASSUME NEW r \in Requests, Publish(r) PROVE TypeOK'
  BY <1>8 DEF Publish, history
<1>9. ASSUME NEW r \in Requests, AgentRaises(r) \/ GetRaises(r) PROVE TypeOK'
  BY <1>9 DEF AgentRaises, GetRaises, Ended, history
<1>10. ASSUME NEW r \in Requests, SaveRaises(r) PROVE TypeOK'
  <2>1. held[r] # None /\ sid[r] \in Ids BY <1>10 DEF SaveRaises
  <2>2. held[r] \in SessionType /\ Resumed(r) \in SessionType BY <2>1, ResumedTyped
  <2>3. store' \in [Ids -> SessionType \union {None}]
    BY <1>10, <2>1, <2>2 DEF SaveRaises
  <2> QED BY <1>10, <2>3 DEF SaveRaises, Ended, history
<1>11. ASSUME NEW p \in Pods, ProcessEvents(p) PROVE TypeOK'
  <2>1. evaluated' \in [Requests -> Nat] BY <1>11 DEF ProcessEvents
  <2>2. review' \in [Pods -> SUBSET Requests]
    <3> DEFINE found == {r \in Pending(p) : ~cited[r]}
    <3>1. found \subseteq Requests BY DEF Pending
    <3>2. review' = [review EXCEPT ![p] = @ \union found] BY <1>11 DEF ProcessEvents
    <3> HIDE DEF found
    <3> QED BY <3>1, <3>2
  <2>3. stream' \in [Pods -> [Requests -> {"absent", "pending", "processed"}]]
    BY <1>11 DEF ProcessEvents
  <2> QED BY <1>11, <2>1, <2>2, <2>3 DEF ProcessEvents, handler
<1>12. ASSUME NEW p \in Pods, Crash(p) PROVE TypeOK'
  <2>1. pc' = [r \in Requests |-> IF r \in Running(p) THEN "gone" ELSE pc[r]]
    BY <1>12 DEF Crash, AfterCrash
  <2>2. pc' \in [Requests -> {"new", "answering"} \union Working \union Ended]
    BY <2>1 DEF Ended
  <2>3. stream' \in [Pods -> [Requests -> {"absent", "pending", "processed"}]]
    BY <1>12 DEF Crash, AfterCrash, EmptyStream
  <2>4. review' \in [Pods -> SUBSET Requests] BY <1>12 DEF Crash, AfterCrash
  <2>5. crashes' \in Nat BY <1>12 DEF Crash, AfterCrash
  <2>6. ASSUME NEW r \in Requests
        PROVE  /\ IF pc'[r] = "new" THEN pod[r] = None /\ sid[r] = None /\ held[r] = None
                  ELSE pod[r] \in Pods /\ sid[r] \in Ids
               /\ pc'[r] \in {"resave", "save", "answering", "done"} => held[r] # None
    <3>1. CASE r \in Running(p)
      <4>1. pc[r] # "new" BY <3>1, ServiceAssumption DEF Running, At
      <4>2. pc'[r] = "gone" BY <2>1, <3>1
      <4> QED BY <4>1, <4>2
    <3>2. CASE r \notin Running(p) BY <2>1, <3>2
    <3> QED BY <3>1, <3>2
  <2> QED BY <1>12, <2>2, <2>3, <2>4, <2>5, <2>6 DEF Crash, AfterCrash
<1>13. ASSUME UNCHANGED vars PROVE TypeOK'
  BY <1>13 DEF vars, handler, history
<1> QED BY <1>1, <1>2, <1>3, <1>4, <1>5, <1>6, <1>7, <1>8, <1>9, <1>10, <1>11, <1>12, <1>13
        DEF Next, Handle
-----------------------------------------------------------------------------
(* Names and diagnoses *)

LEMMA NamesInit == Init => NamesOK
<1> SUFFICES ASSUME Init PROVE NamesOK
  OBVIOUS
<1>1. /\ \A r \in Requests : pc[r] = "new" /\ sid[r] = None /\ held[r] = None
      /\ \A s \in Ids : store[s] = None
      /\ known = {}
  BY DEF Init
<1>2. SidsOK BY <1>1, ServiceAssumption DEF SidsOK, Ids
<1>3. StoreMade /\ HeldMade BY <1>1 DEF StoreMade, HeldMade
<1>4. SaveHolds /\ AgentNew /\ KnownStored /\ AnsweredStored
  BY <1>1 DEF SaveHolds, AgentNew, KnownStored, AnsweredStored, Answered
<1> QED BY <1>2, <1>3, <1>4 DEF NamesOK

\* What is stored or held was made by a request.
LEMMA Makers ==
    ASSUME TypeOK
    PROVE  /\ \A s \in Ids : store[s] # None => store[s].response \in Requests /\ store[s].count \in Nat
           /\ \A r \in Requests : held[r] # None => held[r].response \in Requests /\ held[r].count \in Nat
           /\ \A s : s \in Stored <=> s \in Ids /\ store[s] # None
<1>1. \A s \in Ids : store[s] # None => store[s] \in SessionType BY DEF TypeOK
<1>2. \A r \in Requests : held[r] # None => held[r] \in SessionType BY DEF TypeOK
<1> QED BY <1>1, <1>2 DEF SessionType, Stored

\* No handler moves, but for those that raise or die.
Backed(before, after) ==
    \A r \in Requests :
        after[r] # before[r] => before[r] \notin {"new", "done"} /\ after[r] \in {"failed", "gone"}

\* No session is read or written.
Quiet == /\ UNCHANGED <<sid, held, store, known, overlapped, attempts, answers>>
         /\ Backed(pc, pc')

\* A save takes effect, whether or not its handler hears of it.
Saved(r) == IF pc[r] = "save" THEN held[r] ELSE Resumed(r)
Saving(r) ==
    /\ pc[r] \in {"save", "resave"}
    /\ \E end \in {"answering", "failed"} : pc' = [pc EXCEPT ![r] = end]
    /\ store' = [store EXCEPT ![sid[r]] = Saved(r)]
    /\ UNCHANGED <<sid, held, known, overlapped, attempts, answers>>

Step(r) ==
    \/ \E p \in Pods : ArriveNew(r, p) \/ \E s \in Ids : ArriveWithId(r, p, s)
    \/ GetReturns(r) \/ (\E c \in BOOLEAN : AgentReturns(r, c)) \/ Saving(r) \/ Answer(r)

\* What a step can do to the sessions.
LEMMA StepKinds ==
    ASSUME TypeOK, [Next]_vars PROVE Quiet \/ \E r \in Requests : Step(r)
<1>p. pc \in [Requests -> {"new", "answering"} \union Working \union Ended]
  BY DEF TypeOK
<1>1. ASSUME NEW r \in Requests, ResaveReturns(r) PROVE Saving(r)
  BY <1>1 DEF ResaveReturns, Saving, Saved, history
<1>2. ASSUME NEW r \in Requests, SaveReturns(r) PROVE Saving(r)
  BY <1>2 DEF SaveReturns, Saving, Saved
<1>3. ASSUME NEW r \in Requests, SaveRaises(r) PROVE Quiet \/ Saving(r)
  <2>1. CASE store' = store BY <1>p, <1>3, <2>1 DEF SaveRaises, Quiet, Backed, history
  <2>2. CASE store' # store BY <1>3, <2>2 DEF SaveRaises, Saving, Saved, history
  <2> QED BY <2>1, <2>2
<1>4. ASSUME NEW r \in Requests, AgentRaises(r) \/ GetRaises(r) PROVE Quiet
  BY <1>p, <1>4 DEF AgentRaises, GetRaises, Quiet, Backed, history
<1>5. ASSUME NEW r \in Requests, Publish(r) PROVE Quiet
  BY <1>5 DEF Publish, Quiet, Backed, history
<1>6. ASSUME NEW p \in Pods, ProcessEvents(p) PROVE Quiet
  BY <1>6 DEF ProcessEvents, Quiet, Backed, handler
<1>7. ASSUME NEW p \in Pods, Crash(p) PROVE Quiet
  <2>1. /\ pc' = [r \in Requests |-> IF r \in Running(p) THEN "gone" ELSE pc[r]]
        /\ UNCHANGED <<sid, held, store, known, overlapped, attempts, answers>>
    BY <1>7 DEF Crash, AfterCrash
  <2>2. \A r \in Running(p) : pc[r] \notin {"new", "done"}
    BY ServiceAssumption DEF Running, At, Ended, TypeOK
  <2> QED BY <2>1, <2>2 DEF Quiet, Backed
<1>8. ASSUME UNCHANGED vars PROVE Quiet
  BY <1>8 DEF vars, handler, history, Quiet, Backed
<1> QED BY <1>1, <1>2, <1>3, <1>4, <1>5, <1>6, <1>7, <1>8 DEF Next, Handle, Step

\* A step that leaves the sessions alone and moves no diagnosis back.
LEMMA NamesKept ==
    ASSUME TypeOK, NamesOK, Quiet PROVE NamesOK'
<1> USE DEF NamesOK, Quiet, Backed
<1>m. ASSUME NEW x \in Requests, NEW s, MadeFor(sid, pc, known, x, s) PROVE MadeFor(sid', pc', known', x, s)
  BY <1>m DEF MadeFor, Made
<1>1. SidsOK' BY DEF SidsOK
<1>2. StoreMade' BY <1>m, Makers DEF StoreMade
<1>3. HeldMade' BY <1>m, Makers DEF HeldMade
<1>4. SaveHolds' BY DEF SaveHolds
<1>5. AgentNew' BY DEF AgentNew
<1>6. KnownStored' BY DEF KnownStored, Stored
<1>7. AnsweredStored' BY DEF AnsweredStored, Answered, Stored
<1> QED BY <1>1, <1>2, <1>3, <1>4, <1>5, <1>6, <1>7

\* A step that stores what its handler holds, under its session.
LEMMA StoresMade ==
    ASSUME TypeOK, NamesOK, NEW r \in Requests, Saving(r) PROVE NamesOK'
<1>n. /\ SidsOK /\ StoreMade /\ HeldMade /\ SaveHolds
      /\ AgentNew /\ KnownStored /\ AnsweredStored
  BY DEF NamesOK
<1>p. pc \in [Requests -> {"new", "answering"} \union Working \union Ended]
  BY DEF TypeOK
<1>h. held[r] # None /\ sid[r] \in Ids BY DEF Saving, TypeOK
<1>x. Saved(r) # None /\ Saved(r).response = held[r].response
  BY <1>h, ResumedTyped DEF Saved
<1>s. store'[sid[r]] = Saved(r) /\ \A s \in Ids : s # sid[r] => store'[s] = store[s]
  BY <1>h DEF Saving, TypeOK
<1>u. /\ UNCHANGED <<sid, held, known>> /\ pc[r] \in {"save", "resave"}
      /\ pc' = [pc EXCEPT ![r] = "answering"] \/ pc' = [pc EXCEPT ![r] = "failed"]
  BY DEF Saving
<1>m. ASSUME NEW y \in Requests, NEW t, MadeFor(sid, pc, known, y, t) PROVE MadeFor(sid', pc', known', y, t)
  BY <1>p, <1>m, <1>u DEF MadeFor, Made
<1>1. SidsOK' BY <1>n, <1>p, <1>u DEF SidsOK
<1>2. StoreMade'
  <2> SUFFICES ASSUME NEW s \in Ids, store'[s] # None PROVE MadeFor(sid', pc', known', store'[s].response, s)
    BY <1>u DEF StoreMade
  <2>1. CASE s = sid[r]
    <3>1. held[r].response \in Requests /\ MadeFor(sid, pc, known, held[r].response, sid[r])
      BY <1>h, <1>n, Makers DEF HeldMade
    <3>2. MadeFor(sid', pc', known', held[r].response, s) BY <1>m, <2>1, <3>1
    <3>3. store'[s].response = held[r].response BY <1>s, <1>x, <2>1
    <3> QED BY <3>2, <3>3
  <2>2. CASE s # sid[r] BY <1>m, <1>n, <1>s, <2>2, Makers DEF StoreMade
  <2> QED BY <2>1, <2>2
<1>3. HeldMade' BY <1>m, <1>n, <1>u, Makers DEF HeldMade
<1>4. SaveHolds' BY <1>n, <1>p, <1>u DEF SaveHolds
<1>5. AgentNew' BY <1>n, <1>p, <1>u DEF AgentNew
<1>t. \A s \in Stored : s \in Stored' BY <1>s, <1>x DEF Stored
<1>6. KnownStored' BY <1>n, <1>t, <1>u DEF KnownStored
<1>7. AnsweredStored' BY <1>h, <1>n, <1>p, <1>s, <1>t, <1>u, <1>x DEF AnsweredStored, Answered, Stored
<1> QED BY <1>1, <1>2, <1>3, <1>4, <1>5, <1>6, <1>7 DEF NamesOK

LEMMA NamesStep == TypeOK /\ NamesOK /\ [Next]_vars => NamesOK'
<1> SUFFICES ASSUME TypeOK, NamesOK, [Next]_vars PROVE NamesOK'
  OBVIOUS
<1>n. /\ SidsOK /\ StoreMade /\ HeldMade /\ SaveHolds
      /\ AgentNew /\ KnownStored /\ AnsweredStored
  BY DEF NamesOK
<1>p. pc \in [Requests -> {"new", "answering"} \union Working \union Ended]
  BY DEF TypeOK
<1>1. ASSUME NEW r \in Requests, NEW p \in Pods, ArriveNew(r, p) PROVE NamesOK'
  <2>1. /\ pc[r] = "new" /\ pc' = [pc EXCEPT ![r] = "agent"] /\ sid' = [sid EXCEPT ![r] = r]
        /\ UNCHANGED <<held, store, known>>
    BY <1>1 DEF ArriveNew, history
  <2>2. sid[r] = None /\ held[r] = None BY <2>1 DEF TypeOK
  <2>m. ASSUME NEW x \in Requests, NEW s, MadeFor(sid, pc, known, x, s) PROVE MadeFor(sid', pc', known', x, s)
    <3>1. x # r BY <2>1, <2>m DEF MadeFor, Made
    <3> QED BY <2>1, <2>m, <3>1, <1>p DEF MadeFor, TypeOK
  <2>3. SidsOK' BY <1>n, <1>p, <2>1, <2>2 DEF SidsOK, TypeOK
  <2>4. StoreMade' BY <1>n, <2>1, <2>m, Makers DEF StoreMade
  <2>5. HeldMade'
    <3> SUFFICES ASSUME NEW q \in Requests, held[q] # None PROVE MadeFor(sid', pc', known', held[q].response, sid'[q])
      BY <2>1 DEF HeldMade
    <3>1. q # r BY <2>2
    <3>2. sid'[q] = sid[q] BY <2>1, <3>1
    <3> QED BY <1>n, <2>m, <3>2, Makers DEF HeldMade
  <2>6. SaveHolds' BY <1>n, <1>p, <2>1 DEF SaveHolds
  <2>k. r \notin known BY <1>n, <2>2, ServiceAssumption DEF KnownStored, Stored
  <2>7. AgentNew' BY <1>n, <1>p, <2>1, <2>k DEF AgentNew
  <2>8. KnownStored' BY <1>n, <2>1, <2>k DEF KnownStored, Stored, TypeOK
  <2>9. AnsweredStored' BY <1>n, <1>p, <2>1 DEF AnsweredStored, Answered, Stored, TypeOK
  <2> QED BY <2>3, <2>4, <2>5, <2>6, <2>7, <2>8, <2>9 DEF NamesOK
<1>2. ASSUME NEW r \in Requests, NEW p \in Pods, NEW s \in Ids, ArriveWithId(r, p, s) PROVE NamesOK'
  <2>1. /\ pc[r] = "new" /\ pc' = [pc EXCEPT ![r] = "get"] /\ sid' = [sid EXCEPT ![r] = s]
        /\ s \in Requests => pc[s] = "done" /\ sid[s] = s
        /\ known' = IF s \in Stored THEN known \union {r} ELSE known
        /\ UNCHANGED <<held, store>>
    BY <1>2 DEF ArriveWithId
  <2>2. sid[r] = None /\ held[r] = None BY <2>1 DEF TypeOK
  <2>m. ASSUME NEW x \in Requests, NEW t, MadeFor(sid, pc, known, x, t) PROVE MadeFor(sid', pc', known', x, t)
    <3>1. x # r BY <2>1, <2>m DEF MadeFor, Made
    <3> QED BY <2>1, <2>m, <3>1, <1>p DEF MadeFor, TypeOK
  <2>3. SidsOK' BY <1>n, <1>p, <2>1, <2>2 DEF SidsOK, TypeOK
  <2>4. StoreMade' BY <1>n, <2>1, <2>m, Makers DEF StoreMade
  <2>5. HeldMade'
    <3> SUFFICES ASSUME NEW q \in Requests, held[q] # None PROVE MadeFor(sid', pc', known', held[q].response, sid'[q])
      BY <2>1 DEF HeldMade
    <3>1. q # r BY <2>2
    <3>2. sid'[q] = sid[q] BY <2>1, <3>1
    <3> QED BY <1>n, <2>m, <3>2, Makers DEF HeldMade
  <2>6. SaveHolds' BY <1>n, <1>p, <2>1 DEF SaveHolds
  <2>7. AgentNew' BY <1>n, <1>p, <2>1 DEF AgentNew
  <2>8. KnownStored' BY <1>n, <2>1, <2>2, ServiceAssumption DEF KnownStored, Stored, TypeOK
  <2>9. AnsweredStored' BY <1>n, <1>p, <2>1 DEF AnsweredStored, Answered, Stored, TypeOK
  <2> QED BY <2>3, <2>4, <2>5, <2>6, <2>7, <2>8, <2>9 DEF NamesOK
<1>3. ASSUME NEW r \in Requests, GetReturns(r) PROVE NamesOK'
  <2>1. /\ pc[r] = "get" /\ held' = [held EXCEPT ![r] = store[sid[r]]]
        /\ pc' = [pc EXCEPT ![r] = IF store[sid[r]] # None THEN "resave" ELSE "agent"]
        /\ UNCHANGED <<sid, store, known>>
    BY <1>3 DEF GetReturns
  <2>2. sid[r] \in Ids BY <2>1 DEF TypeOK
  <2>m. ASSUME NEW x \in Requests, NEW t, MadeFor(sid, pc, known, x, t) PROVE MadeFor(sid', pc', known', x, t)
    <3>1. x # r BY <2>1, <2>m DEF MadeFor, Made
    <3> QED BY <2>1, <2>m, <3>1, <1>p DEF MadeFor
  <2>3. SidsOK' BY <1>n, <1>p, <2>1 DEF SidsOK
  <2>4. StoreMade' BY <1>n, <2>1, <2>m, Makers DEF StoreMade
  <2>5. HeldMade'
    <3> SUFFICES ASSUME NEW q \in Requests, held'[q] # None PROVE MadeFor(sid', pc', known', held'[q].response, sid[q])
      BY <2>1 DEF HeldMade
    <3>1. CASE q = r
      <4>1. held'[q] = store[sid[r]] BY <2>1, <3>1 DEF TypeOK
      <4>2. store[sid[r]] # None BY <4>1
      <4>3. MadeFor(sid, pc, known, store[sid[r]].response, sid[r]) BY <1>n, <2>2, <4>2 DEF StoreMade
      <4> QED BY <2>2, <2>m, <3>1, <4>1, <4>2, <4>3, Makers
    <3>2. CASE q # r
      <4>1. held'[q] = held[q] BY <2>1, <3>2 DEF TypeOK
      <4> QED BY <1>n, <2>m, <4>1, Makers DEF HeldMade
    <3> QED BY <3>1, <3>2
  <2>6. SaveHolds' BY <1>n, <1>p, <2>1 DEF SaveHolds, TypeOK
  <2>7. AgentNew' BY <1>n, <1>p, <2>1, <2>2 DEF AgentNew, KnownStored, Stored
  <2>8. KnownStored' BY <1>n, <2>1 DEF KnownStored, Stored
  <2>9. AnsweredStored' BY <1>n, <1>p, <2>1 DEF AnsweredStored, Answered, Stored
  <2> QED BY <2>3, <2>4, <2>5, <2>6, <2>7, <2>8, <2>9 DEF NamesOK
<1>4. ASSUME NEW r \in Requests, NEW c \in BOOLEAN, AgentReturns(r, c) PROVE NamesOK'
  <2>1. /\ pc[r] = "agent" /\ pc' = [pc EXCEPT ![r] = "save"]
        /\ held' = [held EXCEPT ![r] = Session(r, 0)]
        /\ UNCHANGED <<sid, store, known>>
    BY <1>4 DEF AgentReturns, history
  <2>2. r \notin known /\ sid[r] \in Ids BY <1>n, <2>1 DEF AgentNew, TypeOK
  <2>3. Session(r, 0) # None /\ Session(r, 0).response = r BY SessionTyped
  <2>m. ASSUME NEW x \in Requests, NEW t, MadeFor(sid, pc, known, x, t) PROVE MadeFor(sid', pc', known', x, t)
    <3>1. x # r BY <2>1, <2>m DEF MadeFor, Made
    <3> QED BY <2>1, <2>m, <3>1, <1>p DEF MadeFor
  <2>r. MadeFor(sid', pc', known', r, sid'[r]) BY <1>p, <2>1, <2>2 DEF MadeFor, Made
  <2>4. SidsOK' BY <1>n, <1>p, <2>1 DEF SidsOK
  <2>5. StoreMade' BY <1>n, <2>1, <2>m, Makers DEF StoreMade
  <2>6. HeldMade'
    <3> SUFFICES ASSUME NEW q \in Requests, held'[q] # None PROVE MadeFor(sid', pc', known', held'[q].response, sid'[q])
      BY DEF HeldMade
    <3>1. CASE q = r
      <4>1. held'[q] = Session(r, 0) BY <2>1, <3>1 DEF TypeOK
      <4> QED BY <2>3, <2>r, <3>1, <4>1
    <3>2. CASE q # r
      <4>1. held'[q] = held[q] /\ sid'[q] = sid[q] BY <2>1, <3>2 DEF TypeOK
      <4> QED BY <1>n, <2>m, <4>1, Makers DEF HeldMade
    <3> QED BY <3>1, <3>2
  <2>7. SaveHolds' BY <1>n, <1>p, <2>1 DEF SaveHolds, TypeOK
  <2>8. AgentNew' BY <1>n, <1>p, <2>1 DEF AgentNew
  <2>9. KnownStored' BY <1>n, <2>1 DEF KnownStored, Stored
  <2>10. AnsweredStored' BY <1>n, <1>p, <2>1 DEF AnsweredStored, Answered, Stored
  <2> QED BY <2>4, <2>5, <2>6, <2>7, <2>8, <2>9, <2>10 DEF NamesOK
<1>5. ASSUME NEW r \in Requests, Answer(r) PROVE NamesOK'
  <2>1. /\ pc[r] = "answering" /\ pc' = [pc EXCEPT ![r] = "done"]
        /\ UNCHANGED <<sid, held, store, known>>
    BY <1>5 DEF Answer
  <2>m. ASSUME NEW x \in Requests, NEW t, MadeFor(sid, pc, known, x, t) PROVE MadeFor(sid', pc', known', x, t)
    BY <1>p, <2>1, <2>m DEF MadeFor, Made
  <2>2. SidsOK' BY <1>n, <1>p, <2>1 DEF SidsOK
  <2>3. StoreMade' BY <1>n, <2>1, <2>m, Makers DEF StoreMade
  <2>4. HeldMade' BY <1>n, <2>1, <2>m, Makers DEF HeldMade
  <2>5. SaveHolds' BY <1>n, <1>p, <2>1 DEF SaveHolds
  <2>6. AgentNew' BY <1>n, <1>p, <2>1 DEF AgentNew
  <2>7. KnownStored' BY <1>n, <2>1 DEF KnownStored, Stored
  <2>8. AnsweredStored' BY <1>n, <1>p, <2>1 DEF AnsweredStored, Answered, Stored
  <2> QED BY <2>2, <2>3, <2>4, <2>5, <2>6, <2>7, <2>8 DEF NamesOK
<1>6. ASSUME NEW r \in Requests, Saving(r) PROVE NamesOK' BY <1>6, StoresMade
<1>7. ASSUME Quiet PROVE NamesOK' BY <1>7, NamesKept
<1> QED BY <1>1, <1>2, <1>3, <1>4, <1>5, <1>6, <1>7, StepKinds DEF Step
-----------------------------------------------------------------------------
(* Requests that work on a session alone *)

LEMMA AloneInit == Init => AloneOK
BY DEF Init, AloneOK

\* A step that reads and writes no session.
LEMMA AloneQuiet == ASSUME TypeOK, AloneOK, Quiet PROVE AloneOK'
BY DEF AloneOK, Quiet, Backed, Answered, Working

LEMMA AloneSaving ==
    ASSUME TypeOK, NamesOK, AloneOK, NEW r \in Requests, Saving(r) PROVE AloneOK'
<1>p. pc \in [Requests -> {"new", "answering"} \union Working \union Ended]
  BY DEF TypeOK
<1>h. held[r] # None /\ sid[r] \in Ids BY DEF Saving, TypeOK
<1>x. Saved(r) # None /\ Saved(r).response = held[r].response
  BY <1>h, ResumedTyped DEF Saved
<1>s. store'[sid[r]] = Saved(r) /\ \A s \in Ids : s # sid[r] => store'[s] = store[s]
  BY <1>h DEF Saving, TypeOK
<1>u. /\ UNCHANGED <<sid, held, overlapped>> /\ pc[r] \in {"save", "resave"}
      /\ pc' = [pc EXCEPT ![r] = "answering"] \/ pc' = [pc EXCEPT ![r] = "failed"]
  BY DEF Saving
<1>w. pc'[r] \notin Working /\ \A q \in Requests : q # r => pc'[q] = pc[q]
  BY <1>p, <1>u DEF Working
<1> SUFFICES ASSUME NEW q \in Requests, sid[q] # None, sid[q] \notin overlapped
             PROVE  /\ \A t \in Requests : sid[t] = sid[q] /\ t # q =>
                          pc'[t] \notin Working \/ pc'[q] \notin Working
                    /\ pc'[q] = "resave" => held[q] = store'[sid[q]]
                    /\ pc'[q] \in {"agent", "save"} => store'[sid[q]] = None
                    /\ pc'[q] \in {"answering", "done"} => held[q].response = store'[sid[q]].response
  BY <1>u DEF AloneOK, Answered
<1>q. sid[q] \in Ids BY DEF TypeOK
<1>1. CASE q = r BY <1>1, <1>p, <1>s, <1>u, <1>w, <1>x DEF Working
<1>2. CASE q # r /\ sid[q] = sid[r]
  <2>1. pc[q] \notin Working BY <1>2, <1>u DEF AloneOK, Working
  <2>2. pc'[q] = pc[q] BY <1>2, <1>w
  <2>3. pc[q] \in {"answering", "done"} => held[q].response = held[r].response
    <3> SUFFICES ASSUME pc[q] \in {"answering", "done"} PROVE held[q].response = held[r].response
      OBVIOUS
    <3>1. store[sid[r]] # None BY <1>2 DEF NamesOK, AnsweredStored, Answered, Stored
    <3>2. pc[r] = "resave" /\ held[r] = store[sid[r]] BY <1>2, <1>u, <3>1 DEF AloneOK
    <3>3. held[q].response = store[sid[q]].response BY DEF AloneOK, Answered
    <3> QED BY <1>2, <3>2, <3>3
  <2> QED BY <1>2, <1>s, <1>x, <2>1, <2>2, <2>3 DEF Working
<1>3. CASE sid[q] # sid[r]
  <2>1. store'[sid[q]] = store[sid[q]] /\ pc'[q] = pc[q] BY <1>3, <1>q, <1>s, <1>w
  <2>2. \A t \in Requests : sid[t] = sid[q] => pc'[t] = pc[t] BY <1>3, <1>w
  <2> QED BY <2>1, <2>2 DEF AloneOK, Answered
<1> QED BY <1>1, <1>2, <1>3

LEMMA AloneStep == TypeOK /\ NamesOK /\ AloneOK /\ [Next]_vars => AloneOK'
<1> SUFFICES ASSUME TypeOK, NamesOK, AloneOK, [Next]_vars PROVE AloneOK'
  OBVIOUS
<1>p. pc \in [Requests -> {"new", "answering"} \union Working \union Ended]
  BY DEF TypeOK
<1>1. ASSUME NEW r \in Requests, NEW p \in Pods, ArriveNew(r, p) PROVE AloneOK'
  <2>1. /\ pc[r] = "new" /\ pc' = [pc EXCEPT ![r] = "agent"] /\ sid' = [sid EXCEPT ![r] = r]
        /\ UNCHANGED <<held, store, overlapped>>
    BY <1>1 DEF ArriveNew, history
  <2>2. \A q \in Requests : q # r => sid[q] # r BY <2>1 DEF NamesOK, SidsOK
  <2>3. store[r] = None
    <3> SUFFICES ASSUME store[r] # None PROVE FALSE
      OBVIOUS
    <3>1. store[r].response \in Requests /\ MadeFor(sid, pc, known, store[r].response, r)
      BY Makers DEF NamesOK, StoreMade, Ids
    <3> QED BY <2>1, <2>2, <3>1 DEF MadeFor, Made
  <2>4. sid'[r] = r /\ pc'[r] = "agent"
        /\ \A q \in Requests : q # r => sid'[q] = sid[q] /\ pc'[q] = pc[q]
    BY <2>1 DEF TypeOK
  <2> QED BY <2>1, <2>2, <2>3, <2>4 DEF AloneOK, Answered
<1>2. ASSUME NEW r \in Requests, NEW p \in Pods, NEW s \in Ids, ArriveWithId(r, p, s) PROVE AloneOK'
  <2>1. /\ pc[r] = "new" /\ pc' = [pc EXCEPT ![r] = "get"] /\ sid' = [sid EXCEPT ![r] = s]
        /\ overlapped' = IF Busy(s) THEN overlapped \union {s} ELSE overlapped
        /\ UNCHANGED <<held, store>>
    BY <1>2 DEF ArriveWithId
  <2>2. sid'[r] = s /\ pc'[r] = "get"
        /\ \A q \in Requests : q # r => sid'[q] = sid[q] /\ pc'[q] = pc[q]
    BY <2>1 DEF TypeOK
  <2>3. s \notin overlapped' => \A q \in Requests : sid[q] = s => pc[q] \notin Working
    BY <2>1 DEF Busy
  <2>4. overlapped \subseteq overlapped' BY <2>1
  <2> QED BY <2>1, <2>2, <2>3, <2>4 DEF AloneOK, Answered
<1>3. ASSUME NEW r \in Requests, GetReturns(r) PROVE AloneOK'
  <2>1. /\ pc[r] = "get" /\ held' = [held EXCEPT ![r] = store[sid[r]]]
        /\ pc' = [pc EXCEPT ![r] = IF store[sid[r]] # None THEN "resave" ELSE "agent"]
        /\ UNCHANGED <<sid, store, overlapped>>
    BY <1>3 DEF GetReturns
  <2>2. /\ held'[r] = store[sid[r]] /\ pc[r] \in Working
        /\ pc'[r] = IF store[sid[r]] # None THEN "resave" ELSE "agent"
        /\ \A q \in Requests : q # r => held'[q] = held[q] /\ pc'[q] = pc[q]
    BY <2>1 DEF TypeOK, Working
  <2> QED BY <2>1, <2>2 DEF AloneOK, Answered
<1>4. ASSUME NEW r \in Requests, NEW c \in BOOLEAN, AgentReturns(r, c) PROVE AloneOK'
  <2>1. /\ pc[r] = "agent" /\ pc' = [pc EXCEPT ![r] = "save"]
        /\ held' = [held EXCEPT ![r] = Session(r, 0)]
        /\ UNCHANGED <<sid, store, overlapped>>
    BY <1>4 DEF AgentReturns, history
  <2>2. /\ pc[r] \in Working /\ pc'[r] = "save"
        /\ \A q \in Requests : q # r => held'[q] = held[q] /\ pc'[q] = pc[q]
    BY <2>1 DEF TypeOK, Working
  <2> QED BY <2>1, <2>2 DEF AloneOK, Answered
<1>5. ASSUME NEW r \in Requests, Answer(r) PROVE AloneOK'
  <2>1. /\ pc[r] = "answering" /\ pc' = [pc EXCEPT ![r] = "done"]
        /\ UNCHANGED <<sid, held, store, overlapped>>
    BY <1>5 DEF Answer
  <2> QED BY <1>p, <2>1 DEF AloneOK, Answered, Working
<1>6. ASSUME NEW r \in Requests, Saving(r) PROVE AloneOK' BY <1>6, AloneSaving
<1>7. ASSUME Quiet PROVE AloneOK' BY <1>7, AloneQuiet
<1> QED BY <1>1, <1>2, <1>3, <1>4, <1>5, <1>6, <1>7, StepKinds DEF Step
-----------------------------------------------------------------------------
(* Resume counts *)

LEMMA UnansweredFinite == ASSUME NEW s PROVE IsFiniteSet(Unanswered(s))
BY ServiceAssumption, FS_Subset DEF Unanswered

LEMMA UnansweredSize == ASSUME NEW s PROVE Cardinality(Unanswered(s)) \in Nat
BY UnansweredFinite, FS_CardinalityType

LEMMA FewerUnanswered ==
    ASSUME NEW s, Unanswered(s)' \subseteq Unanswered(s)
    PROVE  Cardinality(Unanswered(s)') <= Cardinality(Unanswered(s))
BY UnansweredFinite, FS_Subset

LEMMA CountsInit == Init => CountsOK
BY DEF Init, CountsOK, Stored

\* Nothing is saved: fewer resumptions wait for their answer, and no
\* attempt is forgotten.
LEMMA CountsKept ==
    ASSUME TypeOK, CountsOK, UNCHANGED <<store, answers>>, TypeOK',
           overlapped \subseteq overlapped',
           \A s \in Ids : attempts[s] <= attempts'[s],
           \A r \in Requests : pc'[r] = "resave" => held'[r].count + 1 <= attempts'[sid'[r]],
           \A s \in Ids : Unanswered(s)' \subseteq Unanswered(s)
    PROVE  CountsOK'
<1>a. \A s \in Ids : attempts[s] \in Nat /\ attempts'[s] \in Nat /\ answers[s] \in Nat
  BY DEF TypeOK
<1>1. ASSUME NEW s \in Stored' PROVE store'[s].count <= attempts'[s]
  <2>1. s \in Ids /\ s \in Stored /\ store[s].count \in Nat BY Makers DEF Stored
  <2>2. store[s].count <= attempts[s] BY <2>1 DEF CountsOK
  <2>3. attempts[s] <= attempts'[s] BY <2>1
  <2> QED BY <1>a, <2>1, <2>2, <2>3
<1>2. \A s \in Ids : store'[s] = None => answers'[s] = 0 BY DEF CountsOK
<1>3. ASSUME NEW s \in Stored', s \notin overlapped'
      PROVE  Cardinality(Unanswered(s)') + answers'[s] <= store'[s].count
  <2>1. s \in Ids /\ s \in Stored \ overlapped /\ store[s].count \in Nat
    BY <1>3, Makers DEF Stored
  <2>2. Cardinality(Unanswered(s)) + answers[s] <= store[s].count BY <2>1 DEF CountsOK
  <2>3. Cardinality(Unanswered(s)') <= Cardinality(Unanswered(s)) BY <2>1, FewerUnanswered
  <2>4. Cardinality(Unanswered(s)) \in Nat BY UnansweredSize
  <2>5. Cardinality(Unanswered(s)') \in Nat
    BY <2>1, UnansweredFinite, FS_Subset, FS_CardinalityType
  <2> QED BY <1>a, <2>1, <2>2, <2>3, <2>4, <2>5
<1> QED BY <1>1, <1>2, <1>3 DEF CountsOK

LEMMA CountsSaving ==
    ASSUME TypeOK, NamesOK, AloneOK, CountsOK, NEW r \in Requests, Saving(r) PROVE CountsOK'
<1>p. pc \in [Requests -> {"new", "answering"} \union Working \union Ended]
  BY DEF TypeOK
<1>h. held[r] # None /\ sid[r] \in Ids BY DEF Saving, TypeOK
<1>c. held[r].count \in Nat /\ \A s \in Ids : attempts[s] \in Nat /\ answers[s] \in Nat
  BY <1>h, Makers DEF TypeOK
<1>x. /\ Saved(r) # None
      /\ pc[r] = "save" => Saved(r).count = 0 /\ held[r].response = r
      /\ pc[r] = "resave" => Saved(r).count = held[r].count + 1
  BY <1>h, ResumedTyped, SessionTyped DEF Saved, NamesOK, SaveHolds
<1>s. store'[sid[r]] = Saved(r) /\ \A s \in Ids : s # sid[r] => store'[s] = store[s]
  BY <1>h DEF Saving, TypeOK
<1>u. /\ UNCHANGED <<sid, held, overlapped, attempts, answers>> /\ pc[r] \in {"save", "resave"}
      /\ pc' = [pc EXCEPT ![r] = "answering"] \/ pc' = [pc EXCEPT ![r] = "failed"]
  BY DEF Saving
<1>w. pc'[r] # "resave" /\ \A q \in Requests : q # r => pc'[q] = pc[q]
  BY <1>p, <1>u
<1>1. ASSUME NEW s \in Stored' PROVE store'[s].count <= attempts'[s]
  <2>1. s \in Ids /\ store'[s] # None BY DEF Stored
  <2>2. CASE s = sid[r]
    <3>1. CASE pc[r] = "save" BY <1>c, <1>s, <1>u, <1>x, <2>1, <2>2, <3>1
    <3>2. CASE pc[r] = "resave"
      <4>1. held[r].count + 1 <= attempts[s] BY <2>2, <3>2 DEF CountsOK
      <4> QED BY <1>s, <1>u, <1>x, <2>2, <3>2, <4>1
    <3> QED BY <1>u, <3>1, <3>2
  <2>3. CASE s # sid[r] BY <1>s, <1>u, <2>1, <2>3 DEF CountsOK, Stored
  <2> QED BY <2>2, <2>3
<1>2. \A q \in Requests : pc'[q] = "resave" => held'[q].count + 1 <= attempts'[sid'[q]]
  BY <1>u, <1>w DEF CountsOK
<1>3. \A s \in Ids : store'[s] = None => answers'[s] = 0
  BY <1>s, <1>u, <1>x DEF CountsOK
<1>4. ASSUME NEW s \in Stored', s \notin overlapped'
      PROVE  Cardinality(Unanswered(s)') + answers'[s] <= store'[s].count
  <2>1. s \in Ids /\ store'[s] # None /\ s \notin overlapped BY <1>4, <1>u DEF Stored
  <2>2. CASE s # sid[r]
    <3>1. store'[s] = store[s] /\ s \in Stored \ overlapped BY <1>s, <2>1, <2>2 DEF Stored
    <3>2. Unanswered(s)' = Unanswered(s) BY <1>u, <1>w, <2>2 DEF Unanswered
    <3> QED BY <1>u, <3>1, <3>2 DEF CountsOK
  <2>3. CASE s = sid[r] /\ pc[r] = "save"
    <3>1. store[s] = None BY <1>h, <2>1, <2>3, ServiceAssumption DEF AloneOK
    <3>2. answers[s] = 0 BY <2>1, <3>1 DEF CountsOK
    <3>3. \A q \in Requests : sid[q] = s => pc[q] \notin {"answering", "done"}
      BY <3>1 DEF NamesOK, AnsweredStored, Answered, Stored
    <3>4. Unanswered(s)' = {}
      BY <1>u, <1>w, <1>x, <2>3, <3>3 DEF Unanswered
    <3> QED BY <1>s, <1>u, <1>x, <2>3, <3>2, <3>4, FS_EmptySet
  <2>4. CASE s = sid[r] /\ pc[r] = "resave"
    <3>1. held[r] = store[s] BY <1>h, <2>1, <2>4, ServiceAssumption DEF AloneOK
    <3>2. s \in Stored \ overlapped BY <1>h, <2>1, <3>1 DEF Stored
    <3>3. Cardinality(Unanswered(s)) + answers[s] <= held[r].count BY <3>1, <3>2 DEF CountsOK
    <3>4. Unanswered(s)' \subseteq Unanswered(s) \union {r}
      BY <1>u, <1>w DEF Unanswered
    <3>5. IsFiniteSet(Unanswered(s)) BY UnansweredFinite
    <3>6. /\ IsFiniteSet(Unanswered(s) \union {r})
          /\ Cardinality(Unanswered(s) \union {r}) \in {Cardinality(Unanswered(s)), Cardinality(Unanswered(s)) + 1}
      BY <3>5, FS_AddElement
    <3>7. /\ IsFiniteSet(Unanswered(s)')
          /\ Cardinality(Unanswered(s)') <= Cardinality(Unanswered(s) \union {r})
      BY <3>4, <3>6, FS_Subset
    <3>8. Cardinality(Unanswered(s)') \in Nat /\ Cardinality(Unanswered(s)) \in Nat
      BY <3>5, <3>7, FS_CardinalityType
    <3>9. store'[s].count = held[r].count + 1 /\ answers'[s] = answers[s]
      BY <1>s, <1>u, <1>x, <2>4
    <3> QED BY <1>c, <2>1, <3>3, <3>6, <3>7, <3>8, <3>9
  <2> QED BY <1>u, <2>2, <2>3, <2>4
<1> QED BY <1>1, <1>2, <1>3, <1>4 DEF CountsOK

LEMMA CountsAnswer ==
    ASSUME TypeOK, NamesOK, CountsOK, NEW r \in Requests, Answer(r) PROVE CountsOK'
<1>p. pc \in [Requests -> {"new", "answering"} \union Working \union Ended]
  BY DEF TypeOK
<1>u. /\ pc[r] = "answering" /\ pc' = [pc EXCEPT ![r] = "done"]
      /\ answers' = IF held[r].response = r THEN answers
                    ELSE [answers EXCEPT ![sid[r]] = @ + 1]
      /\ UNCHANGED <<sid, held, store, overlapped, attempts>>
  BY DEF Answer
<1>h. sid[r] \in Ids /\ store[sid[r]] # None
  BY <1>u DEF NamesOK, AnsweredStored, Answered, Stored
<1>a. \A s \in Ids : answers[s] \in Nat /\ (store[s] # None => store[s].count \in Nat)
  BY Makers DEF TypeOK
<1>1. \A s \in Stored' : store'[s].count <= attempts'[s] BY <1>u DEF CountsOK, Stored
<1>2. \A q \in Requests : pc'[q] = "resave" => held'[q].count + 1 <= attempts'[sid'[q]]
  BY <1>p, <1>u DEF CountsOK
<1>3. \A s \in Ids : store'[s] = None => answers'[s] = 0
  BY <1>h, <1>u DEF CountsOK, TypeOK
<1>4. ASSUME NEW s \in Stored', s \notin overlapped'
      PROVE  Cardinality(Unanswered(s)') + answers'[s] <= store'[s].count
  <2>1. s \in Ids /\ s \in Stored \ overlapped /\ store'[s] = store[s]
    BY <1>4, <1>u DEF Stored
  <2>2. Cardinality(Unanswered(s)) + answers[s] <= store[s].count BY <2>1 DEF CountsOK
  <2>3. Cardinality(Unanswered(s)) \in Nat BY UnansweredSize
  <2>4. CASE s = sid[r] /\ held[r].response # r
    <3>1. r \in Unanswered(s) BY <1>u, <2>4 DEF Unanswered
    <3>2. Unanswered(s)' = Unanswered(s) \ {r} BY <1>p, <1>u DEF Unanswered
    <3>3. Cardinality(Unanswered(s)') = Cardinality(Unanswered(s)) - 1
      BY <3>1, <3>2, UnansweredFinite, FS_RemoveElement
    <3>4. answers'[s] = answers[s] + 1 BY <1>u, <2>1, <2>4 DEF TypeOK
    <3> QED BY <1>a, <2>1, <2>2, <2>3, <3>3, <3>4
  <2>5. CASE ~(s = sid[r] /\ held[r].response # r)
    <3>1. Unanswered(s)' = Unanswered(s) BY <1>p, <1>u, <2>5 DEF Unanswered
    <3>2. answers'[s] = answers[s] BY <1>h, <1>u, <2>1, <2>5 DEF TypeOK
    <3> QED BY <2>1, <2>2, <3>1, <3>2
  <2> QED BY <2>4, <2>5
<1> QED BY <1>1, <1>2, <1>3, <1>4 DEF CountsOK

LEMMA CountsStep == TypeOK /\ NamesOK /\ AloneOK /\ CountsOK /\ [Next]_vars => CountsOK'
<1> SUFFICES ASSUME TypeOK, NamesOK, AloneOK, CountsOK, [Next]_vars PROVE CountsOK'
  OBVIOUS
<1>t. TypeOK' BY TypeStep
<1>p. pc \in [Requests -> {"new", "answering"} \union Working \union Ended]
  BY DEF TypeOK
<1>a. \A s \in Ids : attempts[s] \in Nat BY DEF TypeOK
<1>l. \A s \in Ids : attempts[s] <= attempts[s] BY <1>a
<1>1. ASSUME NEW r \in Requests, NEW p \in Pods, ArriveNew(r, p) PROVE CountsOK'
  <2>1. /\ pc[r] = "new" /\ pc' = [pc EXCEPT ![r] = "agent"] /\ sid' = [sid EXCEPT ![r] = r]
        /\ UNCHANGED <<held, store, overlapped, attempts, answers>>
    BY <1>1 DEF ArriveNew, history
  <2>2. /\ pc'[r] = "agent"
        /\ \A q \in Requests : q # r => pc'[q] = pc[q] /\ sid'[q] = sid[q]
    BY <2>1 DEF TypeOK
  <2>3. \A s \in Ids : Unanswered(s)' \subseteq Unanswered(s) BY <2>1, <2>2 DEF Unanswered
  <2>4. \A q \in Requests : pc'[q] = "resave" => held'[q].count + 1 <= attempts'[sid'[q]]
    BY <2>1, <2>2 DEF CountsOK
  <2> QED BY <1>l, <1>t, <2>1, <2>3, <2>4, CountsKept
<1>2. ASSUME NEW r \in Requests, NEW p \in Pods, NEW s \in Ids, ArriveWithId(r, p, s) PROVE CountsOK'
  <2>1. /\ pc[r] = "new" /\ pc' = [pc EXCEPT ![r] = "get"] /\ sid' = [sid EXCEPT ![r] = s]
        /\ overlapped \subseteq overlapped'
        /\ UNCHANGED <<held, store, attempts, answers>>
    BY <1>2 DEF ArriveWithId
  <2>2. /\ pc'[r] = "get"
        /\ \A q \in Requests : q # r => pc'[q] = pc[q] /\ sid'[q] = sid[q]
    BY <2>1 DEF TypeOK
  <2>3. \A t \in Ids : Unanswered(t)' \subseteq Unanswered(t) BY <2>1, <2>2 DEF Unanswered
  <2>4. \A q \in Requests : pc'[q] = "resave" => held'[q].count + 1 <= attempts'[sid'[q]]
    BY <2>1, <2>2 DEF CountsOK
  <2> QED BY <1>l, <1>t, <2>1, <2>3, <2>4, CountsKept
<1>3. ASSUME NEW r \in Requests, GetReturns(r) PROVE CountsOK'
  <2>1. /\ pc[r] = "get" /\ held' = [held EXCEPT ![r] = store[sid[r]]]
        /\ pc' = [pc EXCEPT ![r] = IF store[sid[r]] # None THEN "resave" ELSE "agent"]
        /\ attempts' = IF store[sid[r]] # None THEN [attempts EXCEPT ![sid[r]] = @ + 1] ELSE attempts
        /\ UNCHANGED <<sid, store, overlapped, answers>>
    BY <1>3 DEF GetReturns
  <2>2. /\ held'[r] = store[sid[r]]
        /\ pc'[r] = IF store[sid[r]] # None THEN "resave" ELSE "agent"
        /\ \A q \in Requests : q # r => held'[q] = held[q] /\ pc'[q] = pc[q]
    BY <2>1 DEF TypeOK
  <2>h. sid[r] \in Ids /\ \A q \in Requests : pc[q] = "resave" => sid[q] \in Ids /\ held[q] # None
    BY <2>1 DEF TypeOK
  <2>3. \A s \in Ids : Unanswered(s)' \subseteq Unanswered(s) BY <2>1, <2>2 DEF Unanswered
  <2>4. \A s \in Ids : attempts[s] <= attempts'[s] /\ attempts'[s] \in Nat BY <1>a, <2>1, <2>h DEF TypeOK
  <2>5. store[sid[r]] # None => attempts'[sid[r]] = attempts[sid[r]] + 1 BY <2>1, <2>h DEF TypeOK
  <2>6. ASSUME NEW q \in Requests, pc'[q] = "resave" PROVE held'[q].count + 1 <= attempts'[sid'[q]]
    <3>1. CASE q = r
      <4>1. store[sid[r]] # None BY <2>2, <2>6, <3>1
      <4>2. store[sid[r]].count <= attempts[sid[r]] /\ store[sid[r]].count \in Nat
        BY <2>h, <4>1, Makers DEF CountsOK, Stored
      <4> QED BY <1>a, <2>1, <2>2, <2>5, <2>h, <3>1, <4>1, <4>2
    <3>2. CASE q # r
      <4>1. held'[q] = held[q] /\ pc[q] = "resave" /\ sid'[q] = sid[q] BY <2>1, <2>2, <2>6, <3>2
      <4>2. held[q].count + 1 <= attempts[sid[q]] /\ held[q].count \in Nat
        BY <2>h, <4>1, Makers DEF CountsOK
      <4>3. attempts[sid[q]] <= attempts'[sid[q]] /\ attempts[sid[q]] \in Nat /\ attempts'[sid[q]] \in Nat
        BY <1>a, <2>4, <2>h, <4>1
      <4> QED BY <4>1, <4>2, <4>3
    <3> QED BY <3>1, <3>2
  <2> QED BY <1>t, <2>1, <2>3, <2>4, <2>6, CountsKept
<1>4. ASSUME NEW r \in Requests, NEW c \in BOOLEAN, AgentReturns(r, c) PROVE CountsOK'
  <2>1. /\ pc[r] = "agent" /\ pc' = [pc EXCEPT ![r] = "save"]
        /\ held' = [held EXCEPT ![r] = Session(r, 0)]
        /\ UNCHANGED <<sid, store, overlapped, attempts, answers>>
    BY <1>4 DEF AgentReturns, history
  <2>2. /\ pc'[r] = "save"
        /\ \A q \in Requests : q # r => pc'[q] = pc[q] /\ held'[q] = held[q]
    BY <2>1 DEF TypeOK
  <2>3. \A s \in Ids : Unanswered(s)' \subseteq Unanswered(s) BY <2>1, <2>2 DEF Unanswered
  <2>4. \A q \in Requests : pc'[q] = "resave" => held'[q].count + 1 <= attempts'[sid'[q]]
    BY <2>1, <2>2 DEF CountsOK
  <2> QED BY <1>l, <1>t, <2>1, <2>3, <2>4, CountsKept
<1>5. ASSUME Quiet PROVE CountsOK'
  <2>1. UNCHANGED <<sid, held, store, overlapped, attempts, answers>> BY <1>5 DEF Quiet
  <2>2. \A q \in Requests : pc'[q] # pc[q] => pc'[q] \in {"failed", "gone"} BY <1>5 DEF Quiet, Backed
  <2>3. \A s \in Ids : Unanswered(s)' \subseteq Unanswered(s) BY <2>1, <2>2 DEF Unanswered
  <2>4. \A q \in Requests : pc'[q] = "resave" => held'[q].count + 1 <= attempts'[sid'[q]]
    BY <2>1, <2>2 DEF CountsOK
  <2> QED BY <1>l, <1>t, <2>1, <2>3, <2>4, CountsKept
<1>6. ASSUME NEW r \in Requests, Saving(r) PROVE CountsOK' BY <1>6, CountsSaving
<1>7. ASSUME NEW r \in Requests, Answer(r) PROVE CountsOK' BY <1>7, CountsAnswer
<1> QED BY <1>1, <1>2, <1>3, <1>4, <1>5, <1>6, <1>7, StepKinds DEF Step
-----------------------------------------------------------------------------
(* Events *)

\* What EventsOK says of one request, on one pod.
EventOf(r, p) ==
    /\ stream[p][r] # "absent" => /\ pod[r] = p /\ r \in tracked /\ sid[r] \in Stored
                                 /\ pc[r] = "done"
    /\ stream[p][r] = "pending" => evaluated[r] = 0
    /\ stream[p][r] = "processed" => evaluated[r] = 1
    /\ r \in review[p] <=> stream[p][r] = "processed" /\ ~cited[r]

Event(r) ==
    /\ r \in tracked => ((r \in tasks) <=> (stream[pod[r]][r] = "absent"))
    /\ r \in tasks => r \in tracked /\ evaluated[r] = 0
    /\ r \in tracked => Answered(r)
    /\ evaluated[r] # 0 => pc[r] = "done"
    /\ \A p \in Pods : EventOf(r, p)

LEMMA EventsEach == TypeOK => (EventsOK <=> \A r \in Requests : Event(r))
<1> SUFFICES ASSUME TypeOK PROVE EventsOK <=> \A r \in Requests : Event(r)
  OBVIOUS
<1>1. tasks \subseteq Requests /\ tracked \subseteq Requests BY DEF TypeOK
<1>2. ASSUME EventsOK, NEW r \in Requests PROVE Event(r)
  BY <1>2 DEF EventsOK, EventAccounting, Event, EventOf
<1>3. ASSUME \A r \in Requests : Event(r) PROVE EventsOK
  BY <1>1, <1>3 DEF EventsOK, EventAccounting, Event, EventOf
<1> QED BY <1>2, <1>3

LEMMA EventsInit == Init => EventsOK
<1> SUFFICES ASSUME Init PROVE EventsOK
  OBVIOUS
<1>1. TypeOK BY TypeInit
<1>2. \A r \in Requests : Event(r) BY DEF Init, Event, EventOf, EmptyStream
<1> QED BY <1>1, <1>2, EventsEach

LEMMA StoredKept == ASSUME TypeOK, [Next]_vars PROVE Stored \subseteq Stored'
<1>1. ASSUME Quiet PROVE store' = store BY <1>1 DEF Quiet
<1>2. ASSUME NEW r \in Requests, Step(r), ~Saving(r) PROVE store' = store
  BY <1>2 DEF Step, ArriveNew, ArriveWithId, GetReturns, AgentReturns, Answer, history
<1>3. ASSUME NEW r \in Requests, Saving(r) PROVE Stored \subseteq Stored'
  <2>1. held[r] # None /\ sid[r] \in Ids BY <1>3 DEF Saving, TypeOK
  <2>2. Saved(r) # None BY <2>1, ResumedTyped DEF Saved
  <2>3. store' = [store EXCEPT ![sid[r]] = Saved(r)] BY <1>3 DEF Saving
  <2> HIDE DEF Saved
  <2> QED BY <2>1, <2>2, <2>3 DEF Stored, TypeOK
<1> QED BY <1>1, <1>2, <1>3, StepKinds DEF Stored

\* A request whose handler and event a step leaves alone; what it may still
\* do is move a handler that has not saved.
LEMMA EventKept ==
    ASSUME NEW r \in Requests, Event(r), Stored \subseteq Stored',
           tasks' = tasks, tracked' = tracked, stream' = stream, review' = review,
           evaluated' = evaluated,
           Answered(r) => Answered(r)' /\ pod'[r] = pod[r] /\ sid'[r] = sid[r] /\ cited'[r] = cited[r],
           pc[r] = "done" => pc'[r] = "done"
    PROVE  Event(r)'
BY DEF Event, EventOf

LEMMA EventsStep == TypeOK /\ NamesOK /\ AnsweredStored' /\ EventsOK /\ [Next]_vars => EventsOK'
<1> SUFFICES ASSUME TypeOK, NamesOK, AnsweredStored', EventsOK, [Next]_vars PROVE EventsOK'
  OBVIOUS
<1>t. TypeOK' BY TypeStep
<1>e. \A r \in Requests : Event(r) BY EventsEach
<1>f. (\A r \in Requests : Event(r)') => EventsOK'
  <2>1. (\A r \in Requests : Event(r))' => EventsOK' BY <1>t, EventsEach, PTL
  <2> QED BY <2>1
<1>s. Stored \subseteq Stored' BY StoredKept
<1>p. pc \in [Requests -> {"new", "answering"} \union Working \union Ended]
  BY DEF TypeOK
\* the handlers that move before the save, and stuttering
<1>m. ASSUME NEW r \in Requests, pc[r] \in {"new", "answering"} \union Working,
             \E end \in {"get", "agent", "resave", "save", "answering", "failed", "done"} :
                /\ pc' = [pc EXCEPT ![r] = end]
                /\ pc[r] = "answering" => end = "done",
             \A q \in Requests : q # r => pod'[q] = pod[q] /\ sid'[q] = sid[q] /\ cited'[q] = cited[q],
             pc[r] = "answering" => UNCHANGED <<pod, sid, cited>>,
             UNCHANGED <<tasks, tracked, stream, review, evaluated>>
      PROVE  EventsOK'
  <2> SUFFICES ASSUME NEW q \in Requests PROVE Event(q)'
    BY <1>f
  <2>1. Answered(q) => Answered(q)' /\ pod'[q] = pod[q] /\ sid'[q] = sid[q] /\ cited'[q] = cited[q]
    BY <1>m, <1>p DEF Answered, Working
  <2>2. pc[q] = "done" => pc'[q] = "done" BY <1>m, <1>p DEF Working
  <2> QED BY <1>e, <1>m, <1>s, <2>1, <2>2, EventKept
<1>1. ASSUME NEW r \in Requests, NEW p \in Pods, ArriveNew(r, p) PROVE EventsOK'
  BY <1>1, <1>m DEF ArriveNew, TypeOK, history
<1>2. ASSUME NEW r \in Requests, NEW p \in Pods, NEW s \in Ids, ArriveWithId(r, p, s) PROVE EventsOK'
  BY <1>2, <1>m DEF ArriveWithId, TypeOK
<1>3. ASSUME NEW r \in Requests, GetReturns(r) PROVE EventsOK'
  BY <1>3, <1>m DEF GetReturns, Working
<1>4. ASSUME NEW r \in Requests, ResaveReturns(r) PROVE EventsOK'
  BY <1>4, <1>m DEF ResaveReturns, Working, history
<1>5. ASSUME NEW r \in Requests, NEW c \in BOOLEAN, AgentReturns(r, c) PROVE EventsOK'
  BY <1>5, <1>m DEF AgentReturns, Working, TypeOK, history
<1>6. ASSUME NEW r \in Requests, Answer(r) PROVE EventsOK'
  BY <1>6, <1>m DEF Answer
<1>7. ASSUME NEW r \in Requests, AgentRaises(r) \/ GetRaises(r) PROVE EventsOK'
  BY <1>7, <1>m DEF AgentRaises, GetRaises, Working, history
<1>8. ASSUME NEW r \in Requests, SaveRaises(r) PROVE EventsOK'
  BY <1>8, <1>m DEF SaveRaises, Working, history
<1>9. ASSUME UNCHANGED vars PROVE EventsOK'
  <2>1. \A r \in Requests : Event(r)'
    BY <1>9, <1>e, <1>s, EventKept DEF vars, handler, history, Answered
  <2> QED BY <1>f, <2>1
<1>10. ASSUME NEW r \in Requests, SaveReturns(r) PROVE EventsOK'
  <2>1. /\ pc[r] = "save" /\ pc' = [pc EXCEPT ![r] = "answering"]
        /\ tasks' = tasks \union {r} /\ tracked' = tracked \union {r}
        /\ UNCHANGED <<pod, sid, cited, stream, review, evaluated>>
    BY <1>10 DEF SaveReturns
  <2>2. pod[r] \in Pods BY <2>1 DEF TypeOK
  <2>3. /\ r \notin tracked /\ evaluated[r] = 0 /\ \A p \in Pods : stream[p][r] = "absent"
    BY <1>e, <2>1 DEF Event, EventOf, Answered
  <2>4. ASSUME NEW q \in Requests, q # r PROVE Event(q)'
    BY <1>e, <1>p, <1>s, <2>1, <2>4 DEF Event, EventOf, Answered
  <2>5. Event(r)' BY <1>e, <1>p, <1>s, <2>1, <2>2, <2>3 DEF Event, EventOf, Answered
  <2> QED BY <1>f, <2>4, <2>5
<1>11. ASSUME NEW r \in Requests, Publish(r) PROVE EventsOK'
  <2>1. /\ pc[r] = "done" /\ r \in tasks /\ tasks' = tasks \ {r}
        /\ stream' = [stream EXCEPT ![pod[r]][r] = "pending"]
        /\ UNCHANGED <<pc, pod, sid, cited, tracked, review, evaluated>>
    BY <1>11 DEF Publish, history
  <2>2. pod[r] \in Pods BY <2>1 DEF TypeOK
  <2>3. /\ r \in tracked /\ evaluated[r] = 0 /\ stream[pod[r]][r] = "absent"
    BY <1>e, <2>1 DEF Event
  <2>4. sid[r] \in Stored' BY <2>1 DEF AnsweredStored, Answered
  <2>5. \A q \in Requests, p \in Pods :
          stream'[p][q] = IF q = r /\ p = pod[r] THEN "pending" ELSE stream[p][q]
    BY <2>1, <2>2 DEF TypeOK
  <2>6. ASSUME NEW q \in Requests, q # r PROVE Event(q)'
    <3>1. \A p \in Pods : stream'[p][q] = stream[p][q] BY <2>5, <2>6
    <3>2. q \in tracked => pod[q] \in Pods BY <1>e DEF Event, Answered, TypeOK
    <3> QED BY <1>e, <1>s, <2>1, <2>6, <3>1, <3>2 DEF Event, EventOf, Answered
  <2>7. Event(r)'
    <3>1. \A p \in Pods : p # pod[r] => stream[p][r] = "absent" BY <1>e DEF Event, EventOf
    <3>2. \A p \in Pods : r \notin review[p]
      BY <1>e, <2>2, <2>3, <3>1 DEF Event, EventOf
    <3>3. \A p \in Pods : EventOf(r, p)' BY <2>1, <2>3, <2>4, <2>5, <3>1, <3>2 DEF EventOf
    <3>4. stream'[pod[r]][r] = "pending" BY <2>2, <2>5
    <3> QED BY <2>1, <2>3, <3>3, <3>4 DEF Event, Answered
  <2> QED BY <1>f, <2>6, <2>7
<1>12. ASSUME NEW p \in Pods, ProcessEvents(p) PROVE EventsOK'
  <2>1. /\ UNCHANGED <<pc, pod, sid, cited, tasks, store, tracked>>
        /\ stream' = [stream EXCEPT ![p] = [r \in Requests |->
              IF r \in Pending(p) THEN "processed" ELSE stream[p][r]]]
        /\ review' = [review EXCEPT ![p] = @ \union {r \in Pending(p) : ~cited[r]}]
        /\ evaluated' = [r \in Requests |->
              IF r \in Pending(p) THEN evaluated[r] + 1 ELSE evaluated[r]]
    BY <1>12 DEF ProcessEvents, handler
  <2>2. \A t \in Pods, q \in Requests :
          /\ stream'[t][q] = IF t = p /\ q \in Pending(p) THEN "processed" ELSE stream[t][q]
          /\ q \in review'[t] <=> q \in review[t] \/ (t = p /\ q \in Pending(p) /\ ~cited[q])
    BY <2>1 DEF TypeOK
  <2> SUFFICES ASSUME NEW q \in Requests PROVE Event(q)'
    BY <1>f
  <2>3. q \in tracked => pod[q] \in Pods BY <1>e DEF Event, Answered, TypeOK
  <2>4. CASE q \in Pending(p)
    <3>1. /\ stream[p][q] = "pending" /\ pod[q] = p /\ q \in tracked /\ sid[q] \in Stored
          /\ evaluated[q] = 0 /\ q \notin tasks /\ q \notin review[p] /\ pc[q] = "done"
      BY <1>e, <2>4 DEF Event, EventOf, Pending
    <3>2. \A t \in Pods : t # p => stream[t][q] = "absent" /\ q \notin review[t]
      BY <1>e, <3>1 DEF Event, EventOf
    <3>3. evaluated'[q] = 1 BY <2>1, <2>4, <3>1
    <3>4. \A t \in Pods : EventOf(q, t)' BY <1>s, <2>1, <2>2, <2>4, <3>1, <3>2, <3>3 DEF EventOf
    <3> QED BY <2>1, <2>2, <2>4, <3>1, <3>3, <3>4 DEF Event, Answered
  <2>5. CASE q \notin Pending(p)
    <3>1. evaluated'[q] = evaluated[q] BY <2>1, <2>5
    <3>2. \A t \in Pods : stream'[t][q] = stream[t][q] /\ (q \in review'[t] <=> q \in review[t])
      BY <2>2, <2>5
    <3> QED BY <1>e, <1>s, <2>1, <2>3, <3>1, <3>2 DEF Event, EventOf, Answered
  <2> QED BY <2>4, <2>5
<1>13. ASSUME NEW p \in Pods, Crash(p) PROVE EventsOK'
  <2>1. /\ UNCHANGED <<pod, sid, cited, store, evaluated>>
        /\ pc' = [r \in Requests |-> IF r \in Running(p) THEN "gone" ELSE pc[r]]
        /\ tasks' = tasks \ At(p) /\ tracked' = tracked \ At(p)
        /\ stream' = [stream EXCEPT ![p] = EmptyStream]
        /\ review' = [review EXCEPT ![p] = {}]
    BY <1>13 DEF Crash, AfterCrash
  <2>2. \A t \in Pods, q \in Requests :
          /\ stream'[t][q] = IF t = p THEN "absent" ELSE stream[t][q]
          /\ q \in review'[t] <=> q \in review[t] /\ t # p
    BY <2>1 DEF TypeOK, EmptyStream
  <2> SUFFICES ASSUME NEW q \in Requests PROVE Event(q)'
    BY <1>f
  <2>3. pc[q] = "done" => pc'[q] = "done" BY <2>1 DEF Running, Ended
  <2>4. CASE pod[q] = p
    <3>1. q \notin tasks' /\ q \notin tracked' BY <2>1, <2>4 DEF At
    <3>2. \A t \in Pods : EventOf(q, t)'
      BY <1>e, <2>1, <2>2, <2>4 DEF Event, EventOf
    <3> QED BY <1>e, <2>1, <2>3, <3>1, <3>2 DEF Event
  <2>5. CASE pod[q] # p
    <3>1. /\ q \in tasks' <=> q \in tasks
          /\ q \in tracked' <=> q \in tracked
          /\ pc'[q] = pc[q]
      BY <2>1, <2>5 DEF At, Running
    <3>2. \A t \in Pods : EventOf(q, t)'
      BY <1>e, <1>s, <2>1, <2>2, <2>5, <3>1 DEF Event, EventOf
    <3>3. q \in tracked => pod[q] \in Pods BY <1>e DEF Event, Answered, TypeOK
    <3> QED BY <1>e, <2>1, <2>2, <2>5, <3>1, <3>2, <3>3 DEF Event, Answered
  <2> QED BY <2>4, <2>5
<1> QED BY <1>1, <1>2, <1>3, <1>4, <1>5, <1>6, <1>7, <1>8, <1>9, <1>10, <1>11, <1>12, <1>13
        DEF Next, Handle
-----------------------------------------------------------------------------
(* The invariant, and what it implies *)

LEMMA IInvHolds == Spec => []IInv
<1>1. Init => IInv BY TypeInit, NamesInit, AloneInit, CountsInit, EventsInit DEF IInv
<1>2. IInv /\ [Next]_vars => IInv'
  <2> SUFFICES ASSUME IInv, [Next]_vars PROVE IInv'
    OBVIOUS
  <2>1. TypeOK' BY TypeStep DEF IInv
  <2>2. NamesOK' BY NamesStep DEF IInv
  <2>3. AloneOK' BY AloneStep DEF IInv
  <2>4. CountsOK' BY CountsStep DEF IInv
  <2>5. EventsOK' BY <2>2, EventsStep DEF IInv, NamesOK
  <2> QED BY <2>1, <2>2, <2>3, <2>4, <2>5 DEF IInv
<1> QED BY <1>1, <1>2, PTL DEF Spec

\* Every variable of the service keeps the shape the code gives it, and a
\* handler past its read holds a session.
THEOREM ServiceTyped == Spec => []TypeOK
<1>1. IInv => TypeOK BY DEF IInv
<1> QED BY <1>1, IInvHolds, PTL

\* A request that arrives once its session is stored never runs the agent.
THEOREM NoRediagnosisHolds == Spec => []NoRediagnosis
<1>1. IInv => NoRediagnosis
  <2> SUFFICES ASSUME IInv, NEW r \in known
               PROVE  pc[r] \notin {"agent", "save"} /\ (held[r] = None \/ held[r].response # r)
    BY DEF NoRediagnosis
  <2>1. TypeOK /\ AgentNew /\ HeldMade BY DEF IInv, NamesOK
  <2>2. r \in Requests BY <2>1 DEF TypeOK
  <2> QED BY <2>1, <2>2 DEF AgentNew, HeldMade, MadeFor
<1> QED BY <1>1, IInvHolds, PTL

\* What is stored and answered was diagnosed for its session, and requests
\* that did not overlap are answered alike.
THEOREM ResponsesConsistentHolds == Spec => []ResponsesConsistent
<1>1. IInv => ResponsesConsistent
  <2> SUFFICES ASSUME IInv PROVE ResponsesConsistent
    OBVIOUS
  <2>1. TypeOK /\ StoreMade /\ HeldMade /\ AloneOK BY DEF IInv, NamesOK
  <2>2. \A s \in Stored : sid[store[s].response] = s BY <2>1 DEF Stored, StoreMade, MadeFor
  <2>3. \A r \in Requests : Answered(r) => sid[held[r].response] = sid[r]
    BY <2>1 DEF Answered, HeldMade, MadeFor, TypeOK
  <2>4. ASSUME NEW q \in Requests, NEW r \in Requests,
               Answered(q), Answered(r), sid[q] = sid[r], sid[q] \notin overlapped
        PROVE  held[q].response = held[r].response
    <3>1. sid[q] # None BY <2>1, <2>4, ServiceAssumption DEF Answered, TypeOK
    <3>2. held[q].response = store[sid[q]].response BY <2>1, <2>4, <3>1 DEF AloneOK
    <3>3. held[r].response = store[sid[r]].response BY <2>1, <2>4, <3>1 DEF AloneOK
    <3> QED BY <2>4, <3>2, <3>3
  <2> QED BY <2>2, <2>3, <2>4 DEF ResponsesConsistent
<1> QED BY <1>1, IInvHolds, PTL

\* resume_count is at most the resumptions tried, and without overlap at
\* least those answered.
THEOREM ResumeCountBoundsHolds == Spec => []ResumeCountBounds
<1>1. IInv => ResumeCountBounds
  <2> SUFFICES ASSUME IInv, NEW s \in Stored
               PROVE  /\ store[s].count <= attempts[s]
                      /\ s \notin overlapped => store[s].count >= answers[s]
    BY DEF ResumeCountBounds
  <2>1. TypeOK /\ CountsOK BY DEF IInv
  <2>2. store[s].count \in Nat /\ answers[s] \in Nat
    BY <2>1, Makers DEF Stored, TypeOK
  <2>3. Cardinality(Unanswered(s)) \in Nat BY UnansweredSize
  <2>4. s \notin overlapped => Cardinality(Unanswered(s)) + answers[s] <= store[s].count
    BY <2>1 DEF CountsOK
  <2> QED BY <2>1, <2>2, <2>3, <2>4 DEF CountsOK
<1> QED BY <1>1, IInvHolds, PTL

\* An event is where it should be until its pod crashes, is evaluated once
\* at most, and is under review exactly when it had no citation.
THEOREM EventAccountingHolds == Spec => []EventAccounting
<1>1. IInv => EventAccounting BY DEF IInv, EventsOK
<1> QED BY <1>1, IInvHolds, PTL
=============================================================================
